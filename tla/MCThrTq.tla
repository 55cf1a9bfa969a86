------------------------------ MODULE MCThrTq ------------------------------
(* ThrTq on small instances; the values of the constants are in the .cfg.  *)
EXTENDS ThrTq
=============================================================================
