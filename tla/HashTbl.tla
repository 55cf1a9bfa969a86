------------------------------ MODULE HashTbl ------------------------------
(***************************************************************************)
(* One entry (bucket) of a hash table of comlib                            *)
(* (libsrc/comlib/comlib_hashTbl.c), dupFlg FALSE and nodeId 0 as every    *)
(* client sets them.  A call touches the entry its hash key selects and no *)
(* other, so the keys here are those of one entry.  Keys that collide on   *)
(* their whole hash key, not only on the entry, are told apart only while  *)
(* cmpAllFlg is set: cmpAllCnt is to say for how long.                     *)
(*                                                                         *)
(* The doubly linked list is the sequence of its nodes, nodeCnt its length.*)
(***************************************************************************)
EXTENDS Integers, Sequences, FiniteSets, SequencesExt

CONSTANTS
  Nodes,  \* ComlibHashNode of the clients
  Keys,   \* keys of the entry
  Hash,   \* key.hashKey of each key
  NULL,
  MaxCnt  \* bound: cmpAllCnt explored, deletions may leave it behind

ASSUME HashAssumption ==
  /\ DOMAIN Hash = Keys
  /\ MaxCnt \in Nat
  /\ NULL \notin Nodes \cup Keys

VARIABLES
  chain,      \* the nodes of the entry, first to tail
  keyOf,      \* node->key
  cmpAllFlg,  \* entry->cmpAllFlg
  cmpAllCnt,  \* entry->cmpAllCnt
  crashed,    \* the process followed a null pointer
  answer,     \* last TblFind or Get: the key asked for and the node returned
  collided,   \* history: a key met another one with its hash key
  dup         \* history: two nodes of one key were in the entry

entry == <<chain, keyOf, cmpAllFlg, cmpAllCnt>>
hist  == <<collided, dup>>
tblVars  == <<entry, crashed, answer, hist>>

noAnswer == [key |-> NULL, node |-> NULL]

(* comlib_hashTblInit. *)
TblInit ==
  /\ chain = << >>
  /\ keyOf = [n \in Nodes |-> NULL]
  /\ cmpAllFlg = FALSE
  /\ cmpAllCnt = 0
  /\ crashed = FALSE
  /\ answer = noAnswer
  /\ collided = FALSE
  /\ dup = FALSE

Chained == {chain[i] : i \in DOMAIN chain}

SameHash(k) == {i \in DOMAIN chain : Hash[keyOf[chain[i]]] = Hash[k]}
SameKey(k)  == {i \in DOMAIN chain : keyOf[chain[i]] = k}
Mismatch(k) == SameHash(k) \ SameKey(k)

FirstIn(S) == CHOOSE i \in S : \A j \in S : i <= j
LastIn(S)  == CHOOSE i \in S : \A j \in S : j <= i

-----------------------------------------------------------------------------
(* comlib_hashTblInsertHashNode *)

(* The key is compared with the first node of its hash key only. *)
Collides(k) == SameHash(k) # {} /\ keyOf[chain[FirstIn(SameHash(k))]] # k

InsertExists(n, k) ==
  /\ SameHash(k) # {}
  /\ ~Collides(k)
  /\ answer' = noAnswer
  /\ UNCHANGED <<entry, crashed, hist>>

(* Without the flag the node goes to the tail, with it before the first    *)
(* node of its hash key; there is none when another pair of keys set it.   *)
PlaceNode(n, k, flg) ==
  /\ cmpAllFlg' = flg
  /\ cmpAllCnt' = cmpAllCnt + (IF Collides(k) THEN 1 ELSE 0)
  /\ crashed' = (flg /\ SameHash(k) = {})
  /\ chain' = IF ~flg THEN Append(chain, n)
              ELSE IF SameHash(k) = {} THEN chain
              ELSE InsertAt(chain, FirstIn(SameHash(k)), n)
  /\ keyOf' = [keyOf EXCEPT ![n] = k]
  /\ answer' = noAnswer
  /\ collided' = (collided \/ Collides(k))
  /\ dup' = (dup \/ SameKey(k) # {})

(* The key is new, or its hash key met another key first. *)
InsertNode(n, k) ==
  /\ SameHash(k) = {} \/ (Collides(k) /\ cmpAllCnt < MaxCnt)
  /\ PlaceNode(n, k, cmpAllFlg \/ Collides(k))

TblInsert(n, k) ==
  /\ n \notin Chained
  /\ InsertExists(n, k) \/ InsertNode(n, k)

-----------------------------------------------------------------------------
(* comlib_hashTblDelHashNode *)

(* The neighbours of position i that have its hash key. *)
Neighbours(i) == {j \in {i - 1, i + 1} \cap DOMAIN chain : Hash[keyOf[chain[j]]] = Hash[keyOf[chain[i]]]}

(* Fault: the count never goes down. *)
DelCounts_Never(i) == FALSE

(* The count goes down when the node has neighbours of its hash key and    *)
(* none of them has its key.                                               *)
DelCounts(i) ==
  /\ Neighbours(i) # {}
  /\ \A j \in Neighbours(i) : keyOf[chain[j]] # keyOf[chain[i]]

(* A count down to cnt, which drops the flag at zero. *)
SetCmpAll(cnt) ==
  /\ cmpAllCnt' = cnt
  /\ cmpAllFlg' = (cmpAllFlg /\ cnt # 0)

TblDel(n) ==
  \E i \in DOMAIN chain :
    /\ chain[i] = n
    /\ chain' = RemoveAt(chain, i)
    /\ SetCmpAll(cmpAllCnt - (IF cmpAllFlg /\ DelCounts(i) THEN 1 ELSE 0))
    /\ keyOf' = [keyOf EXCEPT ![n] = NULL]
    /\ answer' = noAnswer
    /\ UNCHANGED <<crashed, hist>>

-----------------------------------------------------------------------------
(* comlib_hashTblFindHashNode and comlib_hashTblGetHashNode *)

(* Where a lookup of k stops: with the flag at the first node of that key, *)
(* without it at the first node of that hash key.                          *)
Hits(k) == IF cmpAllFlg THEN SameKey(k) ELSE SameHash(k)

TblFind(k) ==
  /\ answer' = [key |-> k, node |-> IF Hits(k) = {} THEN NULL ELSE chain[FirstIn(Hits(k))]]
  /\ UNCHANGED <<entry, crashed, hist>>

(* Without the flag Get takes the first hit.  With it Get takes every hit  *)
(* before the first mismatch, and returns the last, or else the first hit  *)
(* after one; the count goes down when there is a mismatch.  What it takes *)
(* is in one row (InRows).                                                 *)
Taken(k) ==
  LET early == {i \in Hits(k) : \A j \in Mismatch(k) : i < j}
  IN IF cmpAllFlg /\ early # {} THEN early ELSE {FirstIn(Hits(k))}

GetMissing(k) ==
  /\ Hits(k) = {}
  /\ answer' = [key |-> k, node |-> NULL]
  /\ UNCHANGED <<entry, crashed, hist>>

GetNode(k) ==
  /\ Hits(k) # {}
  /\ LET last == LastIn(Taken(k))
     IN /\ answer' = [key |-> k, node |-> chain[last]]
        /\ chain' = SubSeq(chain, 1, FirstIn(Taken(k)) - 1) \o SubSeq(chain, last + 1, Len(chain))
  /\ keyOf' = [n \in Nodes |-> IF n \in {chain[i] : i \in Taken(k)} THEN NULL ELSE keyOf[n]]
  /\ SetCmpAll(cmpAllCnt - (IF cmpAllFlg /\ Mismatch(k) # {} THEN 1 ELSE 0))
  /\ UNCHANGED <<crashed, hist>>

-----------------------------------------------------------------------------

TblNext ==
  /\ ~crashed
  /\ \/ \E n \in Nodes, k \in Keys : TblInsert(n, k)
     \/ \E n \in Nodes : TblDel(n)
     \/ \E k \in Keys : TblFind(k) \/ GetMissing(k) \/ GetNode(k)

TblSpec == TblInit /\ [][TblNext]_tblVars

-----------------------------------------------------------------------------

TblTypeOK ==
  /\ chain \in Seq(Nodes)
  /\ \A i, j \in DOMAIN chain : chain[i] = chain[j] => i = j
  /\ keyOf \in [Nodes -> Keys \cup {NULL}]
  /\ \A i \in DOMAIN chain : keyOf[chain[i]] \in Keys
  /\ cmpAllFlg \in BOOLEAN
  /\ cmpAllCnt \in Nat
  /\ cmpAllFlg <=> cmpAllCnt > 0
  /\ crashed \in BOOLEAN
  /\ answer \in [key : Keys \cup {NULL}, node : Nodes \cup {NULL}]
  /\ collided \in BOOLEAN
  /\ dup \in BOOLEAN

(* The nodes of a hash key follow one another: the insertions put a node   *)
(* next to them, and the deletions, which look at the neighbours of a node *)
(* only, see whether there are others.                                     *)
InRows ==
  \A i, j \in DOMAIN chain : Hash[keyOf[chain[i]]] = Hash[keyOf[chain[j]]] =>
    \A l \in i .. j : Hash[keyOf[chain[l]]] = Hash[keyOf[chain[i]]]

(* A key that is in the entry is found, and as itself: whatever inserts    *)
(* and deletes went before, the flag is up as long as a colliding key      *)
(* could be taken for it.                                                  *)
PresentIsFound ==
  ~crashed => \A k \in Keys :
    SameKey(k) # {} => keyOf[chain[FirstIn(Hits(k))]] = k

(* As long as no key was in the entry twice, cmpAllCnt is the number of    *)
(* nodes beyond the first of each hash key: the deletions, which look at   *)
(* the neighbours only, give back what the insertions counted.             *)
CmpAllCntExact ==
  (~dup /\ ~crashed) =>
    cmpAllCnt = Len(chain) - Cardinality({Hash[keyOf[n]] : n \in Chained})

(* As long as no two keys met on one hash key the entry is exact: no key   *)
(* twice, nothing found that was not asked for, no null pointer followed.  *)
ExactWithoutCollision ==
  ~collided =>
    /\ ~crashed
    /\ ~dup
    /\ \A i, j \in DOMAIN chain : keyOf[chain[i]] = keyOf[chain[j]] => i = j

(* The entry serves its clients: its state is well formed, a key that is    *)
(* there is found as itself, the count is exact, and without a collision    *)
(* the entry is (comlib_hashTbl.c).                                         *)
LookupsExact == TblTypeOK /\ InRows /\ PresentIsFound /\ CmpAllCntExact /\ ExactWithoutCollision
=============================================================================
