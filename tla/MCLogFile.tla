----------------------------- MODULE MCLogFile ------------------------------
(* The parts of loglib without a thread, each checked by itself: `part'    *)
(* says which one a behaviour is of. "lvl": two loggers that write         *)
(* directly and the level of the macros; "file": a file appender.          *)
EXTENDS LogLib, LogFile, TLC

VARIABLE part

MCvars == <<vars, fileVars, part>>

MCInit == Init /\ FileInit /\ part \in {"lvl", "file"}

MCNext ==
  /\ \/ part = "lvl" /\ Next /\ UNCHANGED fileVars
     \/ part = "file" /\ FileNext /\ UNCHANGED vars
  /\ UNCHANGED part

MCSpec == MCInit /\ [][MCNext]_MCvars

Symmetry == Permutations(Callers) \cup Permutations(Cbs)
=============================================================================
