------------------------------ MODULE MCTables ------------------------------
(* The data structures the servers share, each checked by itself: `part'   *)
(* says which one a behaviour is of. "tbl": an entry of a hash table, on   *)
(* which three keys share a hash key; "lnk": two linked lists; "msg": two  *)
(* messages; "rlm": a realm of relay hosts, with a sending or a receiving  *)
(* program.                                                                *)
EXTENDS HashTbl, LnkLst, MsgBuf, RlyRlm, TLC

VARIABLE part

MCvars == <<tblVars, lnkVars, msgVars, rlmVars, part>>

MCInit ==
  /\ TblInit /\ LnkInit /\ MsgInit /\ RlmInit
  /\ part \in {"tbl", "lnk", "msg", "rlm"}
  \* One initial state of each part that does not run.
  /\ part # "lnk" => \A l \in Lists : maxNode[l] = 0
  /\ part # "lnk" => \A x \in LnkNodes : next[x] = NoNode
  \* What the links of a fresh node hold is the same in all of them.
  /\ next = prev
  /\ part # "rlm" => uses = {"send"}

MCNext ==
  /\ \/ part = "tbl" /\ TblNext /\ UNCHANGED <<lnkVars, msgVars, rlmVars>>
     \/ part = "lnk" /\ LnkNext /\ UNCHANGED <<tblVars, msgVars, rlmVars>>
     \/ part = "msg" /\ MsgNext /\ UNCHANGED <<tblVars, lnkVars, rlmVars>>
     \/ part = "rlm" /\ RlmNext /\ UNCHANGED <<tblVars, lnkVars, msgVars>>
  /\ UNCHANGED part

MCSpec == MCInit /\ [][MCNext]_MCvars

-----------------------------------------------------------------------------
(* The values of the constants *)

MCHash == [k \in Keys |-> IF k \in {"a", "b", "c"} THEN 1 ELSE 2]

(* The hosts are alike.                                                    *)
Symmetry == Permutations(Hosts)
=============================================================================
