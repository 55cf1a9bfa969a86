----------------------------- MODULE MCThrPool -----------------------------
(* A pool of one to two workers and two streams. *)
EXTENDS ThrPool
=============================================================================
