------------------------------- MODULE LnkLst -------------------------------
(***************************************************************************)
(* comlib/comlib_lnkLst.c: the doubly linked list every other library      *)
(* keeps its records in. The node is a member of the user's record, so a   *)
(* node belongs to at most one list and the list never allocates.          *)
(*                                                                         *)
(* `next', `prev', `first', `tail', `nodeCnt' and `maxNode' are the fields *)
(* of the code; `listed' is what the callers were told: for each list the  *)
(* nodes in it, in order. Callers insert nodes that are in no list, name   *)
(* an original node of the same list, and delete nodes of the list; a call *)
(* that returns an error changes nothing and is left out.                  *)
(***************************************************************************)
EXTENDS Naturals, Sequences, SequencesExt

CONSTANTS LnkNodes,      \* the nodes of all users
          Lists,         \* the lists
          MaxNodes,      \* the limits a list may be initialised with, 0: none
          NoNode

ASSUME LnkAssumption == MaxNodes \subseteq Nat /\ NoNode \notin LnkNodes

VARIABLES next, prev, first, tail, nodeCnt, maxNode, listed

lnkVars == <<next, prev, first, tail, nodeCnt, maxNode, listed>>

Listed == UNION {Range(listed[l]) : l \in Lists}

\* comlib_lnkLstInit on every list; the links of a fresh node hold anything.
LnkInit ==
  /\ \E p, n \in LnkNodes \cup {NoNode} :
        prev = [x \in LnkNodes |-> p] /\ next = [x \in LnkNodes |-> n]
  /\ maxNode \in [Lists -> MaxNodes]
  /\ first = [l \in Lists |-> NoNode] /\ tail = [l \in Lists |-> NoNode]
  /\ nodeCnt = [l \in Lists |-> 0]
  /\ listed = [l \in Lists |-> <<>>]

\* CHECK_LNKENTCNT.
HasRoom(l) == maxNode[l] = 0 \/ nodeCnt[l] < maxNode[l]

\* The test of both appends, which knows no `without limit'.
Takes(dst, src) == nodeCnt[src] + nodeCnt[dst] <= maxNode[dst]

\* A link set; the code tests for NULL where this leaves f alone.
Linked(f, x, y) == [n \in LnkNodes |-> IF n = x THEN y ELSE f[n]]

MoveAll(dst, src, fst, tl, seq) ==
  /\ first' = [first EXCEPT ![dst] = fst, ![src] = NoNode]
  /\ tail' = [tail EXCEPT ![dst] = tl, ![src] = NoNode]
  /\ nodeCnt' = [nodeCnt EXCEPT ![dst] = @ + nodeCnt[src], ![src] = 0]
  /\ listed' = [listed EXCEPT ![dst] = seq, ![src] = <<>>]
  /\ UNCHANGED maxNode

AppendFirst(dst, src) ==
  /\ dst # src /\ Takes(dst, src) /\ nodeCnt[src] # 0
  /\ IF nodeCnt[dst] = 0
       THEN MoveAll(dst, src, first[src], tail[src], listed[src]) /\ UNCHANGED <<next, prev>>
       ELSE /\ MoveAll(dst, src, first[src], tail[dst], listed[src] \o listed[dst])
            /\ prev' = Linked(prev, first[dst], tail[src])
            /\ next' = Linked(next, tail[src], first[dst])

AppendTail(dst, src) ==
  /\ dst # src /\ Takes(dst, src) /\ nodeCnt[src] # 0
  /\ IF nodeCnt[dst] = 0
       THEN MoveAll(dst, src, first[src], tail[src], listed[src]) /\ UNCHANGED <<next, prev>>
       ELSE /\ MoveAll(dst, src, first[dst], tail[src], listed[dst] \o listed[src])
            /\ next' = Linked(next, tail[dst], first[src])
            /\ prev' = Linked(prev, first[src], tail[dst])

\* What the four inserts share: the count, and the list as the callers see it.
Counted(l, seq) ==
  /\ nodeCnt' = [nodeCnt EXCEPT ![l] = @ + 1]
  /\ listed' = [listed EXCEPT ![l] = seq]
  /\ UNCHANGED maxNode

InsertFirst(l, x) ==
  /\ x \notin Listed /\ HasRoom(l)
  /\ Counted(l, <<x>> \o listed[l])
  /\ prev' = Linked(Linked(prev, x, NoNode), first[l], x)
  /\ next' = Linked(next, x, first[l])
  /\ first' = [first EXCEPT ![l] = x]
  /\ tail' = IF first[l] # NoNode THEN tail ELSE [tail EXCEPT ![l] = x]

InsertTail(l, x) ==
  /\ x \notin Listed /\ HasRoom(l)
  /\ Counted(l, Append(listed[l], x))
  /\ next' = Linked(Linked(next, x, NoNode), tail[l], x)
  /\ prev' = Linked(prev, x, tail[l])
  /\ tail' = [tail EXCEPT ![l] = x]
  /\ first' = IF tail[l] # NoNode THEN first ELSE [first EXCEPT ![l] = x]

\* The place of org in the list l, by the callers' view.
PlaceOf(l, org) == CHOOSE i \in DOMAIN listed[l] : listed[l][i] = org

InsertNextNode(l, org, x) ==
  /\ x \notin Listed /\ org \in Range(listed[l]) /\ HasRoom(l)
  /\ Counted(l, InsertAt(listed[l], PlaceOf(l, org) + 1, x))
  /\ next' = Linked(Linked(next, org, x), x, next[org])
  /\ prev' = Linked(Linked(prev, x, org), next[org], x)
  /\ tail' = IF next[org] = NoNode THEN [tail EXCEPT ![l] = x] ELSE tail
  /\ UNCHANGED first

InsertPrevNode(l, org, x) ==
  /\ x \notin Listed /\ org \in Range(listed[l]) /\ HasRoom(l)
  /\ Counted(l, InsertAt(listed[l], PlaceOf(l, org), x))
  /\ prev' = Linked(Linked(prev, org, x), x, prev[org])
  /\ next' = Linked(Linked(next, x, org), prev[org], x)
  /\ first' = IF prev[org] = NoNode THEN [first EXCEPT ![l] = x] ELSE first
  /\ UNCHANGED tail

\* What the three removals share.
Uncounted(l, seq) ==
  /\ nodeCnt' = [nodeCnt EXCEPT ![l] = @ - 1]
  /\ listed' = [listed EXCEPT ![l] = seq]
  /\ UNCHANGED maxNode

\* The returned node keeps its prev, which is NoNode for the first one.
GetFirst(l) ==
  LET x == first[l] IN
  /\ nodeCnt[l] # 0
  /\ Uncounted(l, Tail(listed[l]))
  /\ first' = [first EXCEPT ![l] = next[x]]
  /\ tail' = IF next[x] = NoNode THEN [tail EXCEPT ![l] = NoNode] ELSE tail
  /\ prev' = Linked(prev, next[x], NoNode)
  /\ next' = Linked(next, x, NoNode)

GetTail(l) ==
  LET x == tail[l] IN
  /\ nodeCnt[l] # 0
  /\ Uncounted(l, Front(listed[l]))
  /\ tail' = [tail EXCEPT ![l] = prev[x]]
  /\ first' = IF prev[x] = NoNode THEN [first EXCEPT ![l] = NoNode] ELSE first
  /\ next' = Linked(next, prev[x], NoNode)
  /\ prev' = Linked(prev, x, NoNode)

\* Fault: a node in the middle is taken for the last one.
Del_Tail(l, x) ==
  /\ x \in Range(listed[l]) /\ nodeCnt[l] # 0
  /\ Uncounted(l, RemoveAt(listed[l], PlaceOf(l, x)))
  /\ first' = IF prev[x] = NoNode THEN [first EXCEPT ![l] = next[x]] ELSE first
  /\ tail' = IF prev[x] # NoNode THEN [tail EXCEPT ![l] = prev[x]] ELSE tail
  /\ prev' = Linked(Linked(prev, next[x], prev[x]), x, NoNode)
  /\ next' = Linked(Linked(next, prev[x], next[x]), x, NoNode)

\* The node before and the node after are linked to each other; at an end of
\* the list the list's own pointer takes the place of the missing node.
Del(l, x) ==
  /\ x \in Range(listed[l]) /\ nodeCnt[l] # 0
  /\ Uncounted(l, RemoveAt(listed[l], PlaceOf(l, x)))
  /\ first' = IF prev[x] = NoNode THEN [first EXCEPT ![l] = next[x]] ELSE first
  /\ tail' = IF next[x] = NoNode THEN [tail EXCEPT ![l] = prev[x]] ELSE tail
  /\ prev' = Linked(Linked(prev, next[x], prev[x]), x, NoNode)
  /\ next' = Linked(Linked(next, prev[x], next[x]), x, NoNode)

LnkNext ==
  \/ \E dst, src \in Lists : AppendFirst(dst, src) \/ AppendTail(dst, src)
  \/ \E l \in Lists, x \in LnkNodes : InsertFirst(l, x) \/ InsertTail(l, x) \/ Del(l, x)
  \/ \E l \in Lists, org, x \in LnkNodes : InsertNextNode(l, org, x) \/ InsertPrevNode(l, org, x)
  \/ \E l \in Lists : GetFirst(l) \/ GetTail(l)

LnkSpec == LnkInit /\ [][LnkNext]_lnkVars

-----------------------------------------------------------------------------
(* Properties *)

OneListEach ==
  /\ \A l \in Lists : IsInjective(listed[l])
  /\ \A l, k \in Lists : l # k => Range(listed[l]) \cap Range(listed[k]) = {}

EndsAgree ==
  \A l \in Lists :
     /\ nodeCnt[l] = Len(listed[l])
     /\ first[l] = IF listed[l] = <<>> THEN NoNode ELSE listed[l][1]
     /\ tail[l] = IF listed[l] = <<>> THEN NoNode ELSE listed[l][Len(listed[l])]

LinksAgree ==
  \A l \in Lists : \A i \in DOMAIN listed[l] :
     /\ next[listed[l][i]] = IF i = Len(listed[l]) THEN NoNode ELSE listed[l][i + 1]
     /\ prev[listed[l][i]] = IF i = 1 THEN NoNode ELSE listed[l][i - 1]

WithinLimit == \A l \in Lists : maxNode[l] # 0 => nodeCnt[l] <= maxNode[l]

\* After any sequence of calls on any lists, walking a list from either end
\* meets exactly the nodes its callers put there, in their order, the count
\* is their number, and no list exceeds its limit (comlib_lnkLst.c).
ListsExact == OneListEach /\ EndsAgree /\ LinksAgree /\ WithinLimit
=============================================================================
