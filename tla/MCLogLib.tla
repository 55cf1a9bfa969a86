------------------------------ MODULE MCLogLib ------------------------------
(* Small instances of LogLib. *)
EXTENDS LogLib, TLC

Symmetry == Permutations(Callers) \cup Permutations(Cbs)
=============================================================================
