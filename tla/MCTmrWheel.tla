----------------------------- MODULE MCTmrWheel -----------------------------
(* Model-checking instance of the timer table. *)
EXTENDS TmrWheel
=============================================================================
