---------------------------- MODULE TablesProof ----------------------------
(***************************************************************************)
(* Theorems about the data structures that the servers share, as the run   *)
(* of MCTables has them side by side: LookupsExact of HashTbl, ListsExact  *)
(* of LnkLst, RlmSends and RlmReceives of RlyRlm, for any values of their  *)
(* constants.  The three have no variable in common.                       *)
(***************************************************************************)
EXTENDS HashTbl, LnkLst, RlyRlm, SequenceTheorems, FiniteSetTheorems, WellFoundedInduction, TLAPS

(***************************************************************************)
(* HashTbl.                                                                *)
(*                                                                         *)
(* LookupsExact for any nodes, keys and hash function.                     *)
(*                                                                         *)
(* The deletions look at the neighbours of a node only, yet cmpAllCnt is   *)
(* right: the nodes of a hash key are in one row (InRows), so a node that  *)
(* is not alone with its hash key has a neighbour that shares it.          *)
(*                                                                         *)
(* The count is exact only while no key is in the entry twice; afterwards  *)
(* it is never too small (Accounted), and so the flag is not down while    *)
(* two nodes share a hash key: a lookup that compares hash keys alone can  *)
(* take one node only, which is why it is right.                           *)
(***************************************************************************)

(* The entry as the values of chain and keyOf: the hash keys along it, in  *)
(* rows, and its nodes beyond the first of each hash key.                  *)
HashAt(s, kf, i) == Hash[kf[s[i]]]

HashesOf(s, kf) == {HashAt(s, kf, i) : i \in 1 .. Len(s)}

Rows(s, kf) ==
  \A i, j \in 1 .. Len(s) : HashAt(s, kf, i) = HashAt(s, kf, j) =>
    \A l \in i .. j : HashAt(s, kf, l) = HashAt(s, kf, i)

Keyed(s, kf) ==
  /\ s \in Seq(Nodes)
  /\ \A i, j \in 1 .. Len(s) : s[i] = s[j] => i = j
  /\ kf \in [Nodes -> Keys \cup {NULL}]
  /\ \A i \in 1 .. Len(s) : kf[s[i]] \in Keys

Spare(s, kf) == Len(s) - Cardinality(HashesOf(s, kf))

OneEach(s, kf) == \A i, j \in 1 .. Len(s) : kf[s[i]] = kf[s[j]] => i = j

(* The count, by what was in the entry twice.                              *)
Accounted ==
  /\ cmpAllCnt >= Spare(chain, keyOf)
  /\ ~dup => cmpAllCnt = Spare(chain, keyOf) /\ OneEach(chain, keyOf)

(* The values of the other variables.                                      *)
Values ==
  /\ cmpAllFlg \in BOOLEAN /\ cmpAllCnt \in Nat /\ (cmpAllFlg <=> cmpAllCnt > 0)
  /\ crashed \in BOOLEAN /\ collided \in BOOLEAN /\ dup \in BOOLEAN
  /\ answer \in [key : Keys \cup {NULL}, node : Nodes \cup {NULL}]
  /\ ~collided => cmpAllCnt = 0 /\ ~crashed /\ ~dup

TblInv == Keyed(chain, keyOf) /\ Rows(chain, keyOf) /\ Accounted /\ Values

-----------------------------------------------------------------------------
(* The number of hash keys *)

LEMMA HashesFinite ==
  ASSUME NEW s, NEW kf, Keyed(s, kf)
  PROVE  /\ IsFiniteSet(HashesOf(s, kf))
         /\ Cardinality(HashesOf(s, kf)) \in Nat
         /\ Cardinality(HashesOf(s, kf)) <= Len(s)
         /\ Len(s) <= Cardinality(HashesOf(s, kf)) =>
              \A i, j \in 1 .. Len(s) : HashAt(s, kf, i) = HashAt(s, kf, j) => i = j
<1> DEFINE n == Len(s)
           f == [i \in 1 .. n |-> HashAt(s, kf, i)]
           H == HashesOf(s, kf)
<1>1. n \in Nat
  BY DEF Keyed
<1>2. IsFiniteSet(1 .. n) /\ Cardinality(1 .. n) = n
  <2>1. 1 \in Int /\ n \in Int
    BY <1>1
  <2>2. IsFiniteSet(1 .. n) /\ Cardinality(1 .. n) = IF 1 > n THEN 0 ELSE n - 1 + 1
    BY <2>1, FS_Interval, Zenon
  <2>3. QED BY <2>2, <1>1
<1>3. f \in Surjection(1 .. n, H)
  BY DEF Surjection, HashesOf
<1>4. /\ IsFiniteSet(H) /\ Cardinality(H) <= Cardinality(1 .. n)
      /\ Cardinality(H) = Cardinality(1 .. n) <=> f \in Injection(1 .. n, H)
  BY <1>2, <1>3, FS_Surjection, Zenon
<1>5. Cardinality(H) \in Nat
  BY <1>4, FS_CardinalityType
<1>6. ASSUME n <= Cardinality(H), NEW i \in 1 .. n, NEW j \in 1 .. n, HashAt(s, kf, i) = HashAt(s, kf, j)
      PROVE  i = j
  <2> HIDE DEF H
  <2>1. Cardinality(H) = Cardinality(1 .. n)
    BY <1>1, <1>2, <1>4, <1>5, <1>6
  <2>2. f \in Injection(1 .. n, H)
    BY <1>4, <2>1
  <2>3. \A a, b \in 1 .. n : f[a] = f[b] => a = b
    BY <2>2 DEF Injection, IsInjective
  <2>4. QED BY <2>3, <1>6
<1>7. QED BY <1>2, <1>4, <1>5, <1>6

(* Whether a hash key is gone with a node, or comes with one. *)
LEMMA HashesLess ==
  ASSUME NEW H, IsFiniteSet(H), NEW h \in H, NEW G, G = H \ {h}
  PROVE  Cardinality(H) \in Nat /\ Cardinality(G) \in Nat /\ Cardinality(G) = Cardinality(H) - 1
<1>1. Cardinality(H) \in Nat
  BY FS_CardinalityType
<1>2. IsFiniteSet(H \ {h}) /\ Cardinality(H \ {h}) = IF h \in H THEN Cardinality(H) - 1 ELSE Cardinality(H)
  BY FS_RemoveElement
<1>3. Cardinality(H \ {h}) \in Nat
  BY <1>2, FS_CardinalityType
<1>4. QED BY <1>1, <1>2, <1>3

LEMMA HashesMore ==
  ASSUME NEW H, IsFiniteSet(H), NEW h, h \notin H, NEW G, G = H \cup {h}
  PROVE  Cardinality(H) \in Nat /\ Cardinality(G) = Cardinality(H) + 1
<1>1. Cardinality(H) \in Nat
  BY FS_CardinalityType
<1>2. QED BY <1>1, FS_AddElement

-----------------------------------------------------------------------------
(* A row of nodes goes: comlib_hashTblDelHashNode, comlib_hashTblGetHashNode *)

CutOut(s, a, b) == SubSeq(s, 1, a - 1) \o SubSeq(s, b + 1, Len(s))
From(a, b, j) == IF j < a THEN j ELSE j + (b - a + 1)

(* t is s without the places a .. b. *)
Without(t, s, a, b) ==
  /\ t \in Seq(Nodes) /\ Len(t) = Len(s) - (b - a + 1)
  /\ \A j \in 1 .. Len(s) - (b - a + 1) :
        From(a, b, j) \in (1 .. Len(s)) \ (a .. b) /\ t[j] = s[From(a, b, j)]

LEMMA CutOutIs ==
  ASSUME NEW s \in Seq(Nodes), NEW a \in 1 .. Len(s), NEW b \in a .. Len(s)
  PROVE  Without(CutOut(s, a, b), s, a, b)
<1> DEFINE t == SubSeq(s, 1, a - 1)
           u == SubSeq(s, b + 1, Len(s))
<1>1. /\ Len(s) \in Nat /\ a \in Nat /\ b \in Nat /\ 1 <= a /\ a <= b /\ b <= Len(s)
      /\ \A j \in 1 .. Len(s) : s[j] \in Nodes
  OBVIOUS
<1>2. /\ t \in Seq(Nodes) /\ Len(t) = a - 1
      /\ \A j \in 1 .. a - 1 : t[j] = s[j]
  <2>1. /\ t \in Seq(Nodes) /\ Len(t) = IF 1 <= a - 1 THEN (a - 1) - 1 + 1 ELSE 0
        /\ \A j \in 1 .. (a - 1) - 1 + 1 : t[j] = s[1 + j - 1]
    BY <1>1, SubSeqProperties
  <2>2. QED BY <1>1, <2>1
<1>3. /\ u \in Seq(Nodes) /\ Len(u) = Len(s) - b
      /\ \A j \in 1 .. Len(s) - b : u[j] = s[b + j]
  <2>1. /\ u \in Seq(Nodes) /\ Len(u) = IF b + 1 <= Len(s) THEN Len(s) - (b + 1) + 1 ELSE 0
        /\ \A j \in 1 .. Len(s) - (b + 1) + 1 : u[j] = s[(b + 1) + j - 1]
    BY <1>1, SubSeqProperties
  <2>2. QED BY <1>1, <2>1
<1> HIDE DEF t, u
<1>4. /\ t \o u \in Seq(Nodes) /\ Len(t \o u) = Len(t) + Len(u)
      /\ \A j \in 1 .. Len(t) + Len(u) : (t \o u)[j] = IF j <= Len(t) THEN t[j] ELSE u[j - Len(t)]
  BY <1>2, <1>3, ConcatProperties
<1>5. CutOut(s, a, b) = t \o u
  BY DEF CutOut, t, u
<1>6. Len(t \o u) = Len(s) - (b - a + 1)
  BY <1>1, <1>2, <1>3, <1>4
<1>7. ASSUME NEW j \in 1 .. Len(s) - (b - a + 1)
      PROVE  From(a, b, j) \in (1 .. Len(s)) \ (a .. b) /\ (t \o u)[j] = s[From(a, b, j)]
  <2>1. CASE j < a
    BY <2>1, <1>1, <1>2, <1>3, <1>4 DEF From
  <2>2. CASE a <= j
    <3>1. j - (a - 1) \in 1 .. Len(s) - b /\ b + (j - (a - 1)) = j + (b - a + 1)
      BY <2>2, <1>1
    <3>2. (t \o u)[j] = u[j - (a - 1)]
      BY <2>2, <1>1, <1>2, <1>3, <1>4
    <3>3. u[j - (a - 1)] = s[b + (j - (a - 1))]
      BY <3>1, <1>3
    <3>4. From(a, b, j) = j + (b - a + 1)
      BY <2>2, <1>1 DEF From
    <3>5. j + (b - a + 1) \in (1 .. Len(s)) \ (a .. b)
      BY <2>2, <1>1
    <3>6. QED BY <3>1, <3>2, <3>3, <3>4, <3>5
  <2>3. j < a \/ a <= j
    BY <1>1
  <2>4. QED BY <2>1, <2>2, <2>3
<1>8. QED BY <1>4, <1>5, <1>6, <1>7 DEF Without

(* The keys of the nodes that stay are theirs still. *)
Unkeyed(kf, X) == [n \in Nodes |-> IF n \in X THEN NULL ELSE kf[n]]

(* A row a .. b of one hash key goes; others of that hash key may stay.    *)
LEMMA RowGoes ==
  ASSUME NEW s, NEW kf, Keyed(s, kf), Rows(s, kf),
         NEW a \in 1 .. Len(s), NEW b \in a .. Len(s),
         \A l \in a .. b : HashAt(s, kf, l) = HashAt(s, kf, a),
         NEW t, t = CutOut(s, a, b),
         NEW kg, kg = Unkeyed(kf, {s[i] : i \in a .. b})
  PROVE  /\ Keyed(t, kg) /\ Rows(t, kg)
         /\ OneEach(s, kf) => OneEach(t, kg)
         /\ Spare(t, kg) \in Int /\ Spare(s, kf) \in Int
         /\ Spare(t, kg) <= Spare(s, kf)
         /\ IF \E l \in (1 .. Len(s)) \ (a .. b) : HashAt(s, kf, l) = HashAt(s, kf, a)
              THEN Spare(t, kg) = Spare(s, kf) - (b - a + 1)
              ELSE Spare(t, kg) = Spare(s, kf) - (b - a)
<1>1. /\ s \in Seq(Nodes) /\ Len(s) \in Nat /\ kf \in [Nodes -> Keys \cup {NULL}]
      /\ \A i, j \in 1 .. Len(s) : s[i] = s[j] => i = j
      /\ \A i \in 1 .. Len(s) : s[i] \in Nodes /\ kf[s[i]] \in Keys
      /\ a \in Nat /\ b \in Nat /\ 1 <= a /\ a <= b /\ b <= Len(s)
  BY DEF Keyed
<1>2. /\ t \in Seq(Nodes) /\ Len(t) = Len(s) - (b - a + 1) /\ Len(t) \in Nat
      /\ \A j \in 1 .. Len(t) : From(a, b, j) \in (1 .. Len(s)) \ (a .. b) /\ t[j] = s[From(a, b, j)]
  <2>1. s \in Seq(Nodes) /\ a \in 1 .. Len(s) /\ b \in a .. Len(s)
    BY <1>1
  <2>2. Without(t, s, a, b)
    BY <2>1, CutOutIs
  <2>3. t \in Seq(Nodes) /\ Len(t) = Len(s) - (b - a + 1)
    BY <2>2 DEF Without
  <2>4. Len(t) \in Nat
    BY <2>3
  <2>5. ASSUME NEW j \in 1 .. Len(t)
        PROVE  From(a, b, j) \in (1 .. Len(s)) \ (a .. b) /\ t[j] = s[From(a, b, j)]
    <3>1. j \in 1 .. Len(s) - (b - a + 1)
      BY <2>3
    <3>2. QED BY <3>1, <2>2 DEF Without
  <2>6. QED BY <2>3, <2>4, <2>5
<1>3. kg \in [Nodes -> Keys \cup {NULL}]
  BY <1>1 DEF Unkeyed
<1>4. ASSUME NEW j \in 1 .. Len(t)
      PROVE  kg[t[j]] = kf[s[From(a, b, j)]] /\ HashAt(t, kg, j) = HashAt(s, kf, From(a, b, j))
  <2>1. From(a, b, j) \in (1 .. Len(s)) \ (a .. b) /\ t[j] = s[From(a, b, j)]
    BY <1>2
  <2>2. s[From(a, b, j)] \notin {s[i] : i \in a .. b}
    <3>1. SUFFICES ASSUME NEW i \in a .. b, s[From(a, b, j)] = s[i] PROVE FALSE
      OBVIOUS
    <3>2. i \in 1 .. Len(s)
      BY <1>1
    <3>3. QED BY <3>1, <3>2, <2>1, <1>1
  <2>3. s[From(a, b, j)] \in Nodes
    BY <2>1, <1>1
  <2>4. kg[t[j]] = kf[s[From(a, b, j)]]
    BY <2>1, <2>2, <2>3 DEF Unkeyed
  <2>5. QED BY <2>4 DEF HashAt
<1>5. \A i, j \in 1 .. Len(t) : (From(a, b, i) = From(a, b, j) => i = j)
                                /\ (i <= j <=> From(a, b, i) <= From(a, b, j))
  BY <1>1, <1>2 DEF From
<1>6. Keyed(t, kg)
  <2>1. \A i, j \in 1 .. Len(t) : t[i] = t[j] => i = j
    <3>1. SUFFICES ASSUME NEW i \in 1 .. Len(t), NEW j \in 1 .. Len(t), t[i] = t[j] PROVE i = j
      OBVIOUS
    <3>2. From(a, b, i) \in 1 .. Len(s) /\ From(a, b, j) \in 1 .. Len(s)
          /\ s[From(a, b, i)] = s[From(a, b, j)]
      BY <3>1, <1>2
    <3>3. From(a, b, i) = From(a, b, j)
      BY <3>2, <1>1
    <3>4. QED BY <3>3, <1>5
  <2>2. \A i \in 1 .. Len(t) : kg[t[i]] \in Keys
    BY <1>1, <1>2, <1>4
  <2>3. QED BY <1>2, <1>3, <2>1, <2>2 DEF Keyed
<1>7. Rows(t, kg)
  <2>1. SUFFICES ASSUME NEW i \in 1 .. Len(t), NEW j \in 1 .. Len(t),
                        HashAt(t, kg, i) = HashAt(t, kg, j), NEW l \in i .. j
                 PROVE  HashAt(t, kg, l) = HashAt(t, kg, i)
    BY DEF Rows
  <2>2. l \in 1 .. Len(t) /\ i <= l /\ l <= j
    BY <1>2
  <2>3. From(a, b, l) \in From(a, b, i) .. From(a, b, j)
    BY <2>2, <1>1, <1>2, <1>5
  <2>4. HashAt(s, kf, From(a, b, i)) = HashAt(s, kf, From(a, b, j))
    BY <2>1, <1>4
  <2>5. From(a, b, i) \in 1 .. Len(s) /\ From(a, b, j) \in 1 .. Len(s)
    BY <1>2
  <2>6. HashAt(s, kf, From(a, b, l)) = HashAt(s, kf, From(a, b, i))
    BY <2>3, <2>4, <2>5 DEF Rows
  <2>7. QED BY <2>2, <2>6, <1>4
<1>8. OneEach(s, kf) => OneEach(t, kg)
  <2>1. SUFFICES ASSUME OneEach(s, kf), NEW i \in 1 .. Len(t), NEW j \in 1 .. Len(t), kg[t[i]] = kg[t[j]]
                 PROVE  i = j
    BY DEF OneEach
  <2>2. From(a, b, i) \in 1 .. Len(s) /\ From(a, b, j) \in 1 .. Len(s)
        /\ kf[s[From(a, b, i)]] = kf[s[From(a, b, j)]]
    BY <2>1, <1>2, <1>4
  <2>3. From(a, b, i) = From(a, b, j)
    BY <2>1, <2>2 DEF OneEach
  <2>4. QED BY <2>3, <1>5
<1> DEFINE H == HashesOf(s, kf)
           G == HashesOf(t, kg)
           h == HashAt(s, kf, a)
           others == \E l \in (1 .. Len(s)) \ (a .. b) : HashAt(s, kf, l) = h
<1>9. IsFiniteSet(H) /\ Cardinality(H) \in Nat
  BY HashesFinite
<1>10. \A l \in (1 .. Len(s)) \ (a .. b) : \E j \in 1 .. Len(t) : From(a, b, j) = l
  <2>1. SUFFICES ASSUME NEW l \in (1 .. Len(s)) \ (a .. b) PROVE \E j \in 1 .. Len(t) : From(a, b, j) = l
    OBVIOUS
  <2>2. CASE l < a
    <3>1. l \in 1 .. Len(t) /\ From(a, b, l) = l
      BY <2>2, <1>1, <1>2 DEF From
    <3>2. QED BY <3>1
  <2>3. CASE l > b
    <3>1. l - (b - a + 1) \in 1 .. Len(t)
      BY <2>3, <1>1, <1>2
    <3>2. From(a, b, l - (b - a + 1)) = l
      BY <2>3, <1>1 DEF From
    <3>3. QED BY <3>1, <3>2
  <2>4. QED BY <2>2, <2>3, <1>1
<1>11. G = {HashAt(s, kf, l) : l \in (1 .. Len(s)) \ (a .. b)}
  <2>1. G \subseteq {HashAt(s, kf, l) : l \in (1 .. Len(s)) \ (a .. b)}
    <3>1. SUFFICES ASSUME NEW j \in 1 .. Len(t)
                   PROVE  HashAt(t, kg, j) \in {HashAt(s, kf, l) : l \in (1 .. Len(s)) \ (a .. b)}
      BY DEF HashesOf
    <3>2. QED BY <1>2, <1>4
  <2>2. ASSUME NEW l \in (1 .. Len(s)) \ (a .. b) PROVE HashAt(s, kf, l) \in G
    <3>1. PICK j \in 1 .. Len(t) : From(a, b, j) = l
      BY <1>10
    <3>2. HashAt(t, kg, j) = HashAt(s, kf, l)
      BY <3>1, <1>4
    <3>3. QED BY <3>2 DEF HashesOf
  <2>3. QED BY <2>1, <2>2
<1>12. h \in H
  BY DEF HashesOf
<1>13. CASE others
  <2>1. G = H
    <3>1. PICK l \in (1 .. Len(s)) \ (a .. b) : HashAt(s, kf, l) = h
      BY <1>13
    <3>2. H \subseteq G
      <4>1. SUFFICES ASSUME NEW i \in 1 .. Len(s) PROVE HashAt(s, kf, i) \in G
        BY DEF HashesOf
      <4>2. CASE i \in a .. b
        BY <4>2, <3>1, <1>11
      <4>3. CASE i \notin a .. b
        BY <4>3, <1>11
      <4>4. QED BY <4>2, <4>3
    <3>3. G \subseteq H
      BY <1>11 DEF HashesOf
    <3>4. QED BY <3>2, <3>3
  <2>2. Spare(t, kg) = Spare(s, kf) - (b - a + 1) /\ Spare(t, kg) \in Int /\ Spare(s, kf) \in Int
    BY <2>1, <1>1, <1>2, <1>9 DEF Spare
  <2>3. Spare(t, kg) <= Spare(s, kf)
    BY <2>2, <1>1
  <2>4. QED BY <1>6, <1>7, <1>8, <1>13, <2>2, <2>3
<1>14. CASE ~others
  <2>1. G = H \ {h}
    <3>1. G \subseteq H \ {h}
      BY <1>11, <1>14 DEF HashesOf
    <3>2. H \ {h} \subseteq G
      <4>1. SUFFICES ASSUME NEW i \in 1 .. Len(s), HashAt(s, kf, i) # h PROVE HashAt(s, kf, i) \in G
        BY DEF HashesOf
      <4>2. i \notin a .. b
        BY <4>1
      <4>3. QED BY <4>2, <1>11
    <3>3. QED BY <3>1, <3>2
  <2>2. Cardinality(G) \in Nat /\ Cardinality(G) = Cardinality(H) - 1
    <3> HIDE DEF G, H, h
    <3>1. QED BY <2>1, <1>9, <1>12, HashesLess
  <2>3. Spare(t, kg) = Spare(s, kf) - (b - a) /\ Spare(t, kg) \in Int /\ Spare(s, kf) \in Int
    <3>1. Spare(t, kg) = Len(t) - Cardinality(G) /\ Spare(s, kf) = Len(s) - Cardinality(H)
      BY DEF Spare
    <3>2. Len(t) = Len(s) - (b - a + 1) /\ Cardinality(G) = Cardinality(H) - 1
      BY <2>2, <1>2
    <3>3. Len(t) \in Nat /\ Len(s) \in Nat /\ a \in Nat /\ b \in Nat
      BY <1>1, <1>2
    <3> HIDE DEF G, H
    <3>4. QED BY <3>1, <3>2, <3>3, <2>2, <1>9, SMTT(30)
  <2>4. Spare(t, kg) <= Spare(s, kf)
    BY <2>3, <1>1
  <2>5. QED BY <1>6, <1>7, <1>8, <1>14, <2>3, <2>4
<1>15. QED BY <1>13, <1>14

-----------------------------------------------------------------------------
(* A node comes: comlib_hashTblInsertHashNode *)

Shifted(p, j) == IF j < p THEN j ELSE j - 1

(* t is s with n at the place p. *)
With(t, s, p, n) ==
  /\ t \in Seq(Nodes) /\ Len(t) = Len(s) + 1
  /\ \A j \in 1 .. Len(s) + 1 : t[j] = IF j = p THEN n ELSE s[Shifted(p, j)]

Rekeyed(kf, n, k) == [kf EXCEPT ![n] = k]

LEMMA AppendIs ==
  ASSUME NEW s \in Seq(Nodes), NEW n \in Nodes
  PROVE  With(Append(s, n), s, Len(s) + 1, n)
BY DEF With, Shifted

LEMMA InsertAtIs ==
  ASSUME NEW s \in Seq(Nodes), NEW p \in 1 .. Len(s), NEW n \in Nodes
  PROVE  With(InsertAt(s, p, n), s, p, n)
<1> DEFINE a == SubSeq(s, 1, p - 1)
           c == SubSeq(s, p, Len(s))
           m == <<n>>
<1>1. /\ Len(s) \in Nat /\ p \in Nat /\ 1 <= p /\ p <= Len(s)
      /\ \A j \in 1 .. Len(s) : s[j] \in Nodes
  OBVIOUS
<1>2. /\ a \in Seq(Nodes) /\ Len(a) = p - 1
      /\ \A j \in 1 .. p - 1 : a[j] = s[j]
  <2>1. /\ a \in Seq(Nodes) /\ Len(a) = IF 1 <= p - 1 THEN (p - 1) - 1 + 1 ELSE 0
        /\ \A j \in 1 .. (p - 1) - 1 + 1 : a[j] = s[1 + j - 1]
    BY <1>1, SubSeqProperties
  <2>2. QED BY <1>1, <2>1
<1>3. /\ c \in Seq(Nodes) /\ Len(c) = Len(s) - p + 1
      /\ \A j \in 1 .. Len(s) - p + 1 : c[j] = s[p + j - 1]
  BY <1>1, SubSeqProperties
<1>4. m \in Seq(Nodes) /\ Len(m) = 1 /\ m[1] = n
  OBVIOUS
<1> HIDE DEF a, c, m
<1> DEFINE d == a \o m
<1>5. /\ d \in Seq(Nodes) /\ Len(d) = p
      /\ \A j \in 1 .. p : d[j] = IF j < p THEN s[j] ELSE n
  <2>1. /\ d \in Seq(Nodes) /\ Len(d) = Len(a) + Len(m)
        /\ \A j \in 1 .. Len(a) + Len(m) : d[j] = IF j <= Len(a) THEN a[j] ELSE m[j - Len(a)]
    BY <1>2, <1>4, ConcatProperties
  <2>2. QED BY <2>1, <1>1, <1>2, <1>4
<1> HIDE DEF d
<1>6. /\ d \o c \in Seq(Nodes) /\ Len(d \o c) = Len(s) + 1
      /\ \A j \in 1 .. Len(s) + 1 : (d \o c)[j] = IF j <= p THEN d[j] ELSE c[j - p]
  <2>1. /\ d \o c \in Seq(Nodes) /\ Len(d \o c) = Len(d) + Len(c)
        /\ \A j \in 1 .. Len(d) + Len(c) : (d \o c)[j] = IF j <= Len(d) THEN d[j] ELSE c[j - Len(d)]
    BY <1>3, <1>5, ConcatProperties
  <2>2. QED BY <2>1, <1>1, <1>3, <1>5
<1>7. InsertAt(s, p, n) = d \o c
  BY DEF InsertAt, a, c, d, m
<1>8. ASSUME NEW j \in 1 .. Len(s) + 1
      PROVE  (d \o c)[j] = IF j = p THEN n ELSE s[Shifted(p, j)]
  <2>1. CASE j <= p
    BY <2>1, <1>1, <1>5, <1>6 DEF Shifted
  <2>2. CASE j > p
    <3>1. j - p \in 1 .. Len(s) - p + 1 /\ p + (j - p) - 1 = j - 1
      BY <2>2, <1>1
    <3>2. (d \o c)[j] = c[j - p]
      BY <2>2, <1>1, <1>6, SMTT(30)
    <3>3. c[j - p] = s[p + (j - p) - 1]
      BY <3>1, <1>3
    <3>4. QED BY <2>2, <3>1, <3>2, <3>3, <1>1 DEF Shifted
  <2>3. j <= p \/ j > p
    BY <1>1
  <2>4. QED BY <2>1, <2>2, <2>3
<1>9. QED BY <1>6, <1>7, <1>8 DEF With

(* The node comes to the tail when it is the first of its hash key, else    *)
(* before the first.                                                       *)
LEMMA NodeComes ==
  ASSUME NEW s, NEW kf, Keyed(s, kf), Rows(s, kf),
         NEW n \in Nodes, \A i \in 1 .. Len(s) : s[i] # n, NEW k \in Keys,
         NEW p \in 1 .. Len(s) + 1,
         \A i \in 1 .. Len(s) : i < p => HashAt(s, kf, i) # Hash[k],
         p <= Len(s) => HashAt(s, kf, p) = Hash[k],
         NEW t, With(t, s, p, n),
         NEW kg, kg = Rekeyed(kf, n, k)
  PROVE  /\ Keyed(t, kg) /\ Rows(t, kg)
         /\ OneEach(s, kf) /\ (\A i \in 1 .. Len(s) : kf[s[i]] # k) => OneEach(t, kg)
         /\ Spare(s, kf) \in Int
         /\ Spare(t, kg) = Spare(s, kf) + (IF p <= Len(s) THEN 1 ELSE 0)
<1>1. /\ s \in Seq(Nodes) /\ Len(s) \in Nat /\ kf \in [Nodes -> Keys \cup {NULL}]
      /\ \A i, j \in 1 .. Len(s) : s[i] = s[j] => i = j
      /\ \A i \in 1 .. Len(s) : s[i] \in Nodes /\ kf[s[i]] \in Keys
      /\ p \in Nat /\ 1 <= p /\ p <= Len(s) + 1
  BY DEF Keyed
<1>2. /\ t \in Seq(Nodes) /\ Len(t) = Len(s) + 1
      /\ \A j \in 1 .. Len(s) + 1 : t[j] = IF j = p THEN n ELSE s[Shifted(p, j)]
  BY DEF With
<1>3. kg \in [Nodes -> Keys \cup {NULL}] /\ kg[n] = k /\ \A x \in Nodes : x # n => kg[x] = kf[x]
  BY <1>1 DEF Rekeyed
<1>4. HashAt(t, kg, p) = Hash[k] /\ t[p] = n
  BY <1>1, <1>2, <1>3 DEF HashAt
<1>5. ASSUME NEW j \in 1 .. Len(t), j # p
      PROVE  /\ Shifted(p, j) \in 1 .. Len(s) /\ t[j] = s[Shifted(p, j)] /\ t[j] # n
             /\ kg[t[j]] = kf[s[Shifted(p, j)]]
             /\ HashAt(t, kg, j) = HashAt(s, kf, Shifted(p, j))
  <2>1. Shifted(p, j) \in 1 .. Len(s) /\ t[j] = s[Shifted(p, j)]
    BY <1>1, <1>2, <1>5 DEF Shifted
  <2>2. s[Shifted(p, j)] # n /\ s[Shifted(p, j)] \in Nodes
    BY <2>1, <1>1
  <2>3. QED BY <2>1, <2>2, <1>3 DEF HashAt
<1>6. \A i, j \in 1 .. Len(t) : i # p /\ j # p =>
        /\ Shifted(p, i) = Shifted(p, j) => i = j
        /\ i <= j <=> Shifted(p, i) <= Shifted(p, j)
  BY <1>1, <1>2 DEF Shifted
<1>7. Keyed(t, kg)
  <2>1. ASSUME NEW i \in 1 .. Len(t), NEW j \in 1 .. Len(t), t[i] = t[j] PROVE i = j
    <3>1. CASE i = p \/ j = p
      BY <3>1, <2>1, <1>4, <1>5
    <3>2. CASE i # p /\ j # p
      <4>1. Shifted(p, i) = Shifted(p, j)
        <5>1. /\ Shifted(p, i) \in 1 .. Len(s) /\ Shifted(p, j) \in 1 .. Len(s)
              /\ s[Shifted(p, i)] = s[Shifted(p, j)]
          BY <3>2, <2>1, <1>5
        <5>2. QED BY <5>1, <1>1
      <4>2. QED BY <4>1, <3>2, <1>6
    <3>3. QED BY <3>1, <3>2
  <2>2. ASSUME NEW i \in 1 .. Len(t) PROVE kg[t[i]] \in Keys
    <3>1. CASE i = p
      BY <3>1, <1>3, <1>4
    <3>2. CASE i # p
      BY <3>2, <1>1, <1>5
    <3>3. QED BY <3>1, <3>2
  <2>3. QED BY <1>2, <1>3, <2>1, <2>2 DEF Keyed
<1>8. Rows(t, kg)
  <2>1. SUFFICES ASSUME NEW i \in 1 .. Len(t), NEW j \in 1 .. Len(t),
                        HashAt(t, kg, i) = HashAt(t, kg, j), NEW l \in i .. j
                 PROVE  HashAt(t, kg, l) = HashAt(t, kg, i)
    BY DEF Rows
  <2>2. l \in 1 .. Len(t) /\ i <= l /\ l <= j
    BY <1>2
  <2>3. CASE l = i \/ l = j
    BY <2>3, <2>1
  <2>4. CASE l # i /\ l # j /\ i = p
    <3>1. /\ Shifted(p, j) = j - 1 /\ Shifted(p, l) = l - 1
          /\ p <= Len(s) /\ p <= l - 1 /\ l - 1 <= j - 1 /\ j - 1 \in 1 .. Len(s)
      BY <2>2, <2>4, <1>1, <1>2 DEF Shifted
    <3>2. j # p /\ l # p
      BY <2>4, <2>2
    <3>3. HashAt(s, kf, p) = HashAt(s, kf, j - 1)
      BY <2>1, <2>4, <3>1, <3>2, <1>4, <1>5
    <3>4. p \in 1 .. Len(s) /\ l - 1 \in p .. j - 1
      BY <3>1, <1>1, <2>2
    <3>5. HashAt(s, kf, l - 1) = HashAt(s, kf, p)
      BY <3>1, <3>3, <3>4 DEF Rows
    <3>6. HashAt(t, kg, l) = HashAt(s, kf, l - 1)
      BY <3>1, <3>2, <2>2, <1>5
    <3>7. QED BY <3>1, <3>5, <3>6, <2>4, <1>4
  <2>5. CASE l # i /\ l # j /\ j = p
    <3>1. i # p /\ i < p /\ Shifted(p, i) = i /\ i \in 1 .. Len(s)
      BY <2>2, <2>5, <1>1, <1>2 DEF Shifted
    <3>2. HashAt(s, kf, i) = Hash[k]
      BY <3>1, <2>1, <2>5, <1>4, <1>5
    <3>3. QED BY <3>1, <3>2
  <2>6. CASE l # i /\ l # j /\ i # p /\ j # p
    <3>1. /\ Shifted(p, i) \in 1 .. Len(s) /\ Shifted(p, j) \in 1 .. Len(s)
          /\ HashAt(s, kf, Shifted(p, i)) = HashAt(s, kf, Shifted(p, j))
          /\ HashAt(t, kg, i) = HashAt(s, kf, Shifted(p, i))
      BY <2>1, <2>6, <1>5
    <3>2. CASE l = p
      <4>1. p \in Shifted(p, i) .. Shifted(p, j) /\ p <= Len(s)
        BY <3>2, <2>2, <2>6, <1>1, <1>2 DEF Shifted
      <4>2. HashAt(s, kf, p) = HashAt(s, kf, Shifted(p, i))
        BY <4>1, <3>1 DEF Rows
      <4>3. QED BY <4>1, <4>2, <3>1, <3>2, <1>4
    <3>3. CASE l # p
      <4>1. Shifted(p, l) \in Shifted(p, i) .. Shifted(p, j)
        BY <3>3, <2>2, <2>6, <1>1, <1>2 DEF Shifted
      <4>2. HashAt(s, kf, Shifted(p, l)) = HashAt(s, kf, Shifted(p, i))
        BY <4>1, <3>1 DEF Rows
      <4>3. QED BY <4>2, <3>1, <3>3, <2>2, <1>5
    <3>4. QED BY <3>2, <3>3
  <2>7. QED BY <2>3, <2>4, <2>5, <2>6
<1>9. OneEach(s, kf) /\ (\A i \in 1 .. Len(s) : kf[s[i]] # k) => OneEach(t, kg)
  <2>1. SUFFICES ASSUME OneEach(s, kf), \A i \in 1 .. Len(s) : kf[s[i]] # k,
                        NEW i \in 1 .. Len(t), NEW j \in 1 .. Len(t), kg[t[i]] = kg[t[j]]
                 PROVE  i = j
    BY DEF OneEach
  <2>2. CASE i = p \/ j = p
    BY <2>1, <2>2, <1>3, <1>4, <1>5
  <2>3. CASE i # p /\ j # p
    <3>1. Shifted(p, i) = Shifted(p, j)
      BY <2>1, <2>3, <1>5 DEF OneEach
    <3>2. QED BY <3>1, <2>3, <1>6
  <2>4. QED BY <2>2, <2>3
<1> DEFINE H == HashesOf(s, kf)
           G == HashesOf(t, kg)
<1>10. IsFiniteSet(H) /\ Cardinality(H) \in Nat
  BY HashesFinite
<1>11. G = H \cup {Hash[k]}
  <2>1. \A l \in 1 .. Len(s) : \E j \in 1 .. Len(t) : j # p /\ Shifted(p, j) = l
    <3>1. SUFFICES ASSUME NEW l \in 1 .. Len(s) PROVE \E j \in 1 .. Len(t) : j # p /\ Shifted(p, j) = l
      OBVIOUS
    <3>2. CASE l < p
      <4>1. l \in 1 .. Len(t) /\ l # p /\ Shifted(p, l) = l
        BY <3>2, <1>1, <1>2 DEF Shifted
      <4>2. QED BY <4>1
    <3>3. CASE l >= p
      <4>1. l + 1 \in 1 .. Len(t) /\ l + 1 # p /\ Shifted(p, l + 1) = l
        BY <3>3, <1>1, <1>2 DEF Shifted
      <4>2. QED BY <4>1
    <3>4. QED BY <3>2, <3>3, <1>1
  <2>2. ASSUME NEW l \in 1 .. Len(s) PROVE HashAt(s, kf, l) \in G
    <3>1. PICK j \in 1 .. Len(t) : j # p /\ Shifted(p, j) = l
      BY <2>1
    <3>2. HashAt(t, kg, j) = HashAt(s, kf, l)
      BY <3>1, <1>5
    <3>3. QED BY <3>2 DEF HashesOf
  <2>3. Hash[k] \in G
    <3>1. p \in 1 .. Len(t)
      BY <1>1, <1>2
    <3>2. QED BY <3>1, <1>4 DEF HashesOf
  <2>4. ASSUME NEW j \in 1 .. Len(t) PROVE HashAt(t, kg, j) \in H \cup {Hash[k]}
    BY <1>4, <1>5 DEF HashesOf
  <2>5. QED BY <2>2, <2>3, <2>4 DEF HashesOf
<1>12. Spare(s, kf) \in Int
  BY <1>1, <1>10 DEF Spare
<1>13. CASE p <= Len(s)
  <2>1. Hash[k] \in H
    BY <1>1, <1>13 DEF HashesOf
  <2>2. G = H
    BY <2>1, <1>11
  <2>3. Spare(t, kg) = Spare(s, kf) + 1
    BY <2>2, <1>1, <1>2, <1>10 DEF Spare
  <2>4. QED BY <2>3, <1>7, <1>8, <1>9, <1>12, <1>13
<1>14. CASE ~(p <= Len(s))
  <2>1. Hash[k] \notin H
    BY <1>1, <1>14 DEF HashesOf
  <2>2. Cardinality(G) = Cardinality(H) + 1
    <3> HIDE DEF G, H
    <3>1. QED BY <2>1, <1>10, <1>11, HashesMore
  <2>3. Spare(t, kg) = Spare(s, kf)
    BY <2>2, <1>1, <1>2, <1>10 DEF Spare
  <2>4. Spare(t, kg) = Spare(s, kf) + 0
    BY <2>3, <1>12
  <2>5. QED BY <2>4, <1>7, <1>8, <1>9, <1>12, <1>14
<1>15. QED BY <1>13, <1>14

-----------------------------------------------------------------------------
(* The entry in a state that satisfies the invariant *)

(* A set of numbers that is not empty has a least one. *)
LEMMA LeastNumber ==
  ASSUME NEW S, S \subseteq Nat, S # {}
  PROVE  \E i \in S : \A j \in S : i <= j
<1> DEFINE R == OpToRel(<, Nat)
<1>1. IsWellFoundedOn(R, Nat)
  BY NatLessThanWellFounded
<1>2. \A i, j \in Nat : <<i, j>> \in R <=> i < j
  BY DEF OpToRel
<1> HIDE DEF R
<1>3. PICK i \in S : \A j \in S : ~(<<j, i>> \in R)
  BY <1>1, WFMin
<1>4. ASSUME NEW j \in S PROVE i <= j
  <2>1. i \in Nat /\ j \in Nat /\ ~(<<j, i>> \in R)
    BY <1>3
  <2>2. ~(j < i)
    BY <2>1, <1>2
  <2>3. QED BY <2>1, <2>2
<1>5. QED BY <1>4

LEMMA FirstInIs ==
  ASSUME NEW n \in Nat, NEW S \in SUBSET (1 .. n), S # {}
  PROVE  FirstIn(S) \in S /\ \A j \in S : FirstIn(S) <= j
<1>1. S \in SUBSET Nat
  OBVIOUS
<1>2. \E i \in S : \A j \in S : i <= j
  BY <1>1, LeastNumber
<1>3. QED BY <1>2 DEF FirstIn

LEMMA LastInIs ==
  ASSUME NEW n \in Nat, NEW S \in SUBSET (1 .. n), S # {}
  PROVE  LastIn(S) \in S /\ \A j \in S : j <= LastIn(S)
<1> DEFINE T == {n - i : i \in S}
<1>1. T \in SUBSET Nat /\ T # {}
  <2>1. ASSUME NEW i \in S PROVE n - i \in Nat
    OBVIOUS
  <2>2. QED BY <2>1
<1>2. PICK m \in T : \A x \in T : m <= x
  BY <1>1, LeastNumber
<1>3. PICK i \in S : m = n - i
  OBVIOUS
<1>4. ASSUME NEW j \in S PROVE j <= i
  <2>1. n - j \in T
    OBVIOUS
  <2>2. n - i <= n - j
    BY <2>1, <1>2, <1>3
  <2>3. QED BY <2>2
<1>5. QED BY <1>4 DEF LastIn

LEMMA EntryIs ==
  ASSUME TblInv
  PROVE  /\ chain \in Seq(Nodes) /\ Len(chain) \in Nat /\ DOMAIN chain = 1 .. Len(chain)
         /\ Spare(chain, keyOf) \in Int /\ cmpAllCnt \in Nat
         /\ \A k \in Keys : /\ SameHash(k) = {i \in 1 .. Len(chain) : HashAt(chain, keyOf, i) = Hash[k]}
                            /\ SameKey(k) = {i \in 1 .. Len(chain) : keyOf[chain[i]] = k}
                            /\ SameKey(k) \subseteq SameHash(k)
<1>1. chain \in Seq(Nodes) /\ Len(chain) \in Nat /\ DOMAIN chain = 1 .. Len(chain)
  BY DEF TblInv, Keyed
<1>2. Spare(chain, keyOf) \in Int
  BY <1>1, HashesFinite DEF Spare, TblInv
<1>3. QED BY <1>1, <1>2 DEF SameHash, SameKey, HashAt, TblInv, Values

(* While the flag is down, no two nodes share a hash key. *)
LEMMA FlagDown ==
  ASSUME TblInv, ~cmpAllFlg
  PROVE  \A i, j \in 1 .. Len(chain) : HashAt(chain, keyOf, i) = HashAt(chain, keyOf, j) => i = j
<1>1. cmpAllCnt = 0 /\ Len(chain) \in Nat
  BY EntryIs DEF TblInv, Values
<1>2. Cardinality(HashesOf(chain, keyOf)) \in Nat
  BY HashesFinite DEF TblInv
<1>3. Len(chain) <= Cardinality(HashesOf(chain, keyOf))
  BY <1>1, <1>2 DEF TblInv, Accounted, Spare
<1>4. QED BY <1>3, HashesFinite DEF TblInv

(* What else an entry loses or gets, the count follows.                    *)
LEMMA CutKeeps ==
  ASSUME TblInv, NEW a \in 1 .. Len(chain), NEW b \in a .. Len(chain),
         \A l \in a .. b : HashAt(chain, keyOf, l) = HashAt(chain, keyOf, a),
         chain' = CutOut(chain, a, b),
         keyOf' = Unkeyed(keyOf, {chain[i] : i \in a .. b}),
         NEW d \in {0, 1}, SetCmpAll(cmpAllCnt - d),
         NEW others \in BOOLEAN,
         others = \E l \in (1 .. Len(chain)) \ (a .. b) : HashAt(chain, keyOf, l) = HashAt(chain, keyOf, a),
         d = 1 => cmpAllFlg /\ others,
         ~dup => a = b /\ (others => d = 1),
         answer' \in [key : Keys \cup {NULL}, node : Nodes \cup {NULL}],
         UNCHANGED <<crashed, hist>>
  PROVE  TblInv'
<1>1. /\ Keyed(chain', keyOf') /\ Rows(chain', keyOf')
      /\ OneEach(chain, keyOf) => OneEach(chain', keyOf')
      /\ Spare(chain', keyOf') \in Int /\ Spare(chain, keyOf) \in Int
      /\ Spare(chain', keyOf') <= Spare(chain, keyOf)
      /\ IF others THEN Spare(chain', keyOf') = Spare(chain, keyOf) - (b - a + 1)
                   ELSE Spare(chain', keyOf') = Spare(chain, keyOf) - (b - a)
  <2>1. Keyed(chain, keyOf) /\ Rows(chain, keyOf)
    BY DEF TblInv
  <2>2. /\ Keyed(chain', keyOf') /\ Rows(chain', keyOf')
        /\ OneEach(chain, keyOf) => OneEach(chain', keyOf')
        /\ Spare(chain', keyOf') \in Int /\ Spare(chain, keyOf) \in Int
        /\ Spare(chain', keyOf') <= Spare(chain, keyOf)
        /\ IF \E l \in (1 .. Len(chain)) \ (a .. b) : HashAt(chain, keyOf, l) = HashAt(chain, keyOf, a)
             THEN Spare(chain', keyOf') = Spare(chain, keyOf) - (b - a + 1)
             ELSE Spare(chain', keyOf') = Spare(chain, keyOf) - (b - a)
    BY <2>1, RowGoes, SMTT(30)
  <2>3. QED BY <2>2
<1>2. /\ cmpAllFlg \in BOOLEAN /\ cmpAllCnt \in Nat /\ (cmpAllFlg <=> cmpAllCnt > 0)
      /\ ~collided => cmpAllCnt = 0 /\ ~crashed /\ ~dup
      /\ cmpAllCnt' = cmpAllCnt - d /\ (cmpAllFlg' <=> cmpAllFlg /\ cmpAllCnt - d # 0)
      /\ cmpAllFlg' \in BOOLEAN
      /\ crashed' = crashed /\ collided' = collided /\ dup' = dup
  BY DEF TblInv, Values, SetCmpAll, hist
<1>3. a \in Nat /\ b \in Nat /\ a <= b
  BY EntryIs
<1>4. cmpAllCnt' \in Nat /\ (cmpAllFlg' <=> cmpAllCnt' > 0)
  BY <1>2
<1>5. Values'
  BY <1>2, <1>4 DEF TblInv, Values
<1>6. cmpAllCnt' >= Spare(chain', keyOf')
  <2>1. CASE d = 1
    BY <2>1, <1>1, <1>2, <1>3 DEF TblInv, Accounted
  <2>2. CASE d = 0
    BY <2>2, <1>1, <1>2 DEF TblInv, Accounted
  <2>3. QED BY <2>1, <2>2
<1>7. ~dup => cmpAllCnt' = Spare(chain', keyOf') /\ OneEach(chain', keyOf')
  <2>1. SUFFICES ASSUME ~dup PROVE cmpAllCnt' = Spare(chain', keyOf') /\ OneEach(chain', keyOf')
    OBVIOUS
  <2>2. a = b /\ (others <=> d = 1) /\ cmpAllCnt = Spare(chain, keyOf) /\ OneEach(chain, keyOf)
    BY <2>1 DEF TblInv, Accounted
  <2>3. CASE others
    BY <2>2, <2>3, <1>1, <1>2, <1>3
  <2>4. CASE ~others
    BY <2>2, <2>4, <1>1, <1>2, <1>3
  <2>5. QED BY <2>3, <2>4
<1>8. Accounted'
  BY <1>2, <1>6, <1>7 DEF Accounted, Spare, OneEach, HashesOf, HashAt
<1>9. Keyed(chain, keyOf)' /\ Rows(chain, keyOf)'
  BY <1>1 DEF Keyed, Rows, HashAt
<1>10. QED BY <1>5, <1>8, <1>9 DEF TblInv

(* A call that leaves the entry alone. *)
LEMMA EntryStays ==
  ASSUME TblInv, UNCHANGED <<entry, crashed, hist>>,
         answer' \in [key : Keys \cup {NULL}, node : Nodes \cup {NULL}]
  PROVE  TblInv'
<1>1. /\ chain' = chain /\ keyOf' = keyOf /\ cmpAllFlg' = cmpAllFlg /\ cmpAllCnt' = cmpAllCnt
      /\ crashed' = crashed /\ collided' = collided /\ dup' = dup
  BY DEF entry, hist
<1>2. Values'
  BY <1>1 DEF TblInv, Values
<1>3. Keyed(chain, keyOf)' /\ Rows(chain, keyOf)' /\ Accounted'
  BY <1>1 DEF TblInv, Keyed, Rows, HashAt, Accounted, Spare, HashesOf, OneEach
<1>4. QED BY <1>2, <1>3 DEF TblInv

LEMMA NoAnswer == noAnswer \in [key : Keys \cup {NULL}, node : Nodes \cup {NULL}]
BY DEF noAnswer

-----------------------------------------------------------------------------
(* The calls *)

(* Without the flag the node is the first of its hash key; with it, it goes *)
(* before the first, or there is none and the pointer that is null is       *)
(* followed.                                                                *)
LEMMA InsertKeeps ==
  ASSUME TblInv, NEW n \in Nodes, NEW k \in Keys, n \notin Chained, InsertNode(n, k)
  PROVE  TblInv'
<1> DEFINE flg == cmpAllFlg \/ Collides(k)
           S == SameHash(k)
           more == IF Collides(k) THEN 1 ELSE 0
<1>1. /\ chain \in Seq(Nodes) /\ Len(chain) \in Nat /\ DOMAIN chain = 1 .. Len(chain)
      /\ S = {i \in 1 .. Len(chain) : HashAt(chain, keyOf, i) = Hash[k]}
      /\ SameKey(k) = {i \in 1 .. Len(chain) : keyOf[chain[i]] = k}
      /\ SameKey(k) \subseteq S
      /\ Spare(chain, keyOf) \in Int /\ cmpAllCnt \in Nat
  BY EntryIs
<1>2. /\ cmpAllFlg' = flg /\ cmpAllCnt' = cmpAllCnt + more
      /\ crashed' = (flg /\ S = {})
      /\ chain' = IF ~flg THEN Append(chain, n)
                  ELSE IF S = {} THEN chain ELSE InsertAt(chain, FirstIn(S), n)
      /\ keyOf' = [keyOf EXCEPT ![n] = k]
      /\ answer' = noAnswer
      /\ collided' = (collided \/ Collides(k))
      /\ dup' = (dup \/ SameKey(k) # {})
      /\ S = {} \/ Collides(k)
  BY DEF InsertNode, PlaceNode
<1>3. /\ cmpAllFlg \in BOOLEAN /\ (cmpAllFlg <=> cmpAllCnt > 0)
      /\ ~collided => cmpAllCnt = 0 /\ ~crashed /\ ~dup
      /\ crashed \in BOOLEAN /\ collided \in BOOLEAN /\ dup \in BOOLEAN
  BY DEF TblInv, Values
<1>4. \A i \in 1 .. Len(chain) : chain[i] # n
  BY <1>1 DEF Chained
<1>5. Collides(k) \in BOOLEAN /\ (Collides(k) => S # {})
  BY DEF Collides
<1>6. S # {} => FirstIn(S) \in S /\ \A j \in S : FirstIn(S) <= j
  BY <1>1, FirstInIs
<1> HIDE DEF S
<1>51. /\ cmpAllFlg' \in BOOLEAN /\ (cmpAllFlg' <=> cmpAllFlg \/ Collides(k))
       /\ crashed' \in BOOLEAN /\ (crashed' <=> flg /\ S = {})
       /\ collided' \in BOOLEAN /\ (collided' <=> collided \/ Collides(k))
       /\ dup' \in BOOLEAN /\ (dup' <=> dup \/ SameKey(k) # {})
  BY <1>2, <1>3, <1>5, Zenon
<1>52. /\ Collides(k) => cmpAllCnt' = cmpAllCnt + 1
       /\ ~Collides(k) => cmpAllCnt' = cmpAllCnt
  BY <1>2, <1>1
<1>7. Values'
  <2>1. cmpAllCnt' \in Nat /\ cmpAllFlg' \in BOOLEAN /\ (cmpAllFlg' <=> cmpAllCnt' > 0)
    <3>1. CASE Collides(k)
      BY <3>1, <1>1, <1>51, <1>52
    <3>2. CASE ~Collides(k)
      BY <3>2, <1>1, <1>3, <1>51, <1>52
    <3>3. QED BY <3>1, <3>2
  <2>2. crashed' \in BOOLEAN /\ collided' \in BOOLEAN /\ dup' \in BOOLEAN
    BY <1>51
  <2>3. ~collided' => cmpAllCnt' = 0 /\ ~crashed' /\ ~dup'
    <3>1. SUFFICES ASSUME ~collided' PROVE cmpAllCnt' = 0 /\ ~crashed' /\ ~dup'
      OBVIOUS
    <3>2. ~collided /\ ~Collides(k)
      BY <3>1, <1>51
    <3>3. S = {} /\ SameKey(k) = {} /\ cmpAllCnt = 0 /\ ~cmpAllFlg /\ ~dup
      BY <3>2, <1>1, <1>2, <1>3
    <3>4. QED BY <3>2, <3>3, <1>51, <1>52
  <2>4. QED BY <2>1, <2>2, <2>3, <1>2, NoAnswer DEF Values
<1>8. CASE flg /\ S = {}
  <2>1. chain' = chain /\ ~Collides(k) /\ cmpAllCnt' = cmpAllCnt /\ SameKey(k) = {} /\ (dup' <=> dup)
    BY <1>8, <1>1, <1>2, <1>5, <1>51, <1>52
  <2>2. keyOf' \in [Nodes -> Keys \cup {NULL}] /\ \A i \in 1 .. Len(chain) : keyOf'[chain[i]] = keyOf[chain[i]]
    BY <1>1, <1>2, <1>4 DEF TblInv, Keyed
  <2>3. Keyed(chain, keyOf)'
    BY <2>1, <2>2 DEF TblInv, Keyed
  <2>4. \A i \in 1 .. Len(chain) : HashAt(chain', keyOf', i) = HashAt(chain, keyOf, i)
    BY <2>1, <2>2 DEF HashAt
  <2>5. Rows(chain', keyOf')
    <3>1. SUFFICES ASSUME NEW i \in 1 .. Len(chain), NEW j \in 1 .. Len(chain),
                          HashAt(chain, keyOf, i) = HashAt(chain, keyOf, j), NEW l \in i .. j
                   PROVE  HashAt(chain', keyOf', l) = HashAt(chain', keyOf', i)
      BY <2>1, <2>4 DEF Rows
    <3>2. l \in 1 .. Len(chain) /\ HashAt(chain, keyOf, l) = HashAt(chain, keyOf, i)
      BY <3>1, <1>1 DEF TblInv, Rows
    <3>3. QED BY <3>2, <2>4
  <2>6. HashesOf(chain', keyOf') = HashesOf(chain, keyOf)
    BY <2>1, <2>4 DEF HashesOf
  <2>7. Spare(chain', keyOf') = Spare(chain, keyOf)
    BY <2>1, <2>6 DEF Spare
  <2>8. OneEach(chain, keyOf) => OneEach(chain', keyOf')
    BY <2>1, <2>2 DEF OneEach
  <2>9. Accounted'
    BY <2>1, <2>7, <2>8 DEF TblInv, Accounted
  <2>10. Rows(chain, keyOf)'
    BY <2>5 DEF Rows, HashAt
  <2>11. QED BY <2>3, <2>9, <2>10, <1>7 DEF TblInv
<1>9. CASE ~(flg /\ S = {})
  <2> DEFINE p == IF S = {} THEN Len(chain) + 1 ELSE FirstIn(S)
  <2>1. p \in 1 .. Len(chain) + 1 /\ (S = {} <=> ~(p <= Len(chain))) /\ (S = {} <=> ~Collides(k))
    BY <1>1, <1>2, <1>5, <1>6
  <2>0. /\ S = {} => p = Len(chain) + 1
        /\ S # {} => p \in S /\ \A j \in S : p <= j
    BY <1>6
  <2>2. With(chain', chain, p, n)
    <3>1. CASE S = {}
      BY <3>1, <1>1, <1>2, <1>9, AppendIs
    <3>2. CASE S # {}
      <4>1. chain' = InsertAt(chain, p, n) /\ p \in 1 .. Len(chain)
        BY <3>2, <1>1, <1>2, <1>6
      <4>2. QED BY <4>1, <1>1, InsertAtIs
    <3>3. QED BY <3>1, <3>2
  <2> HIDE DEF p
  <2>3. /\ \A i \in 1 .. Len(chain) : i < p => HashAt(chain, keyOf, i) # Hash[k]
        /\ p <= Len(chain) => HashAt(chain, keyOf, p) = Hash[k]
    <3>1. CASE S = {}
      BY <3>1, <2>1, <1>1
    <3>2. CASE S # {}
      <4>1. p \in S /\ \A j \in S : p <= j
        BY <3>2, <2>0
      <4>2. p \in 1 .. Len(chain) /\ HashAt(chain, keyOf, p) = Hash[k]
        BY <4>1, <1>1
      <4>3. ASSUME NEW i \in 1 .. Len(chain), i < p PROVE HashAt(chain, keyOf, i) # Hash[k]
        <5>1. i \notin S
          BY <4>1, <4>2, <4>3
        <5>2. QED BY <5>1, <1>1
      <4>4. QED BY <4>2, <4>3
    <3>3. QED BY <3>1, <3>2
  <2>4. /\ Keyed(chain', keyOf') /\ Rows(chain', keyOf')
        /\ OneEach(chain, keyOf) /\ (\A i \in 1 .. Len(chain) : keyOf[chain[i]] # k) => OneEach(chain', keyOf')
        /\ Spare(chain', keyOf') = Spare(chain, keyOf) + (IF p <= Len(chain) THEN 1 ELSE 0)
    <3>1. Keyed(chain, keyOf) /\ Rows(chain, keyOf) /\ keyOf' = Rekeyed(keyOf, n, k) /\ p \in 1 .. Len(chain) + 1
      BY <1>2, <2>1 DEF TblInv, Rekeyed
    <3>2. QED BY <3>1, <1>4, <2>2, <2>3, NodeComes
  <2>5. Spare(chain', keyOf') = Spare(chain, keyOf) + more
    BY <2>1, <2>4, <1>2
  <2>6. cmpAllCnt' >= Spare(chain', keyOf')
    <3>1. more \in Int
      OBVIOUS
    <3>2. QED BY <3>1, <2>5, <1>1, <1>2 DEF TblInv, Accounted
  <2>7. ~dup' => cmpAllCnt' = Spare(chain', keyOf') /\ OneEach(chain', keyOf')
    <3>1. SUFFICES ASSUME ~dup' PROVE cmpAllCnt' = Spare(chain', keyOf') /\ OneEach(chain', keyOf')
      OBVIOUS
    <3>2. ~dup /\ SameKey(k) = {}
      BY <3>1, <1>2
    <3>3. cmpAllCnt = Spare(chain, keyOf) /\ OneEach(chain, keyOf)
      BY <3>2 DEF TblInv, Accounted
    <3>4. \A i \in 1 .. Len(chain) : keyOf[chain[i]] # k
      BY <3>2, <1>1
    <3>5. QED BY <3>3, <3>4, <2>4, <2>5, <1>2
  <2>8. Accounted'
    BY <2>6, <2>7 DEF Accounted, Spare, OneEach, HashesOf, HashAt
  <2>9. Keyed(chain, keyOf)' /\ Rows(chain, keyOf)'
    BY <2>4 DEF Keyed, Rows, HashAt
  <2>10. QED BY <2>8, <2>9, <1>7 DEF TblInv
<1>10. QED BY <1>8, <1>9

(* The neighbours tell whether others share the hash key, since they are    *)
(* in one row.                                                              *)
LEMMA DelKeeps ==
  ASSUME TblInv, NEW n \in Nodes, TblDel(n)
  PROVE  TblInv'
<1>1. PICK a \in DOMAIN chain :
        /\ chain[a] = n
        /\ chain' = RemoveAt(chain, a)
        /\ SetCmpAll(cmpAllCnt - (IF cmpAllFlg /\ DelCounts(a) THEN 1 ELSE 0))
        /\ keyOf' = [keyOf EXCEPT ![n] = NULL]
        /\ answer' = noAnswer
        /\ UNCHANGED <<crashed, hist>>
  BY DEF TblDel
<1> DEFINE d == IF cmpAllFlg /\ DelCounts(a) THEN 1 ELSE 0
           others == \E l \in (1 .. Len(chain)) \ (a .. a) : HashAt(chain, keyOf, l) = HashAt(chain, keyOf, a)
<1>2. /\ chain \in Seq(Nodes) /\ Len(chain) \in Nat /\ DOMAIN chain = 1 .. Len(chain)
      /\ a \in 1 .. Len(chain) /\ a \in a .. Len(chain) /\ a .. a = {a}
      /\ keyOf \in [Nodes -> Keys \cup {NULL}]
      /\ Neighbours(a) = {j \in {a - 1, a + 1} \cap (1 .. Len(chain)) : HashAt(chain, keyOf, j) = HashAt(chain, keyOf, a)}
  BY <1>1, EntryIs DEF Neighbours, HashAt, TblInv, Keyed
<1>3. chain' = CutOut(chain, a, a)
  BY <1>1 DEF RemoveAt, CutOut
<1>4. keyOf' = Unkeyed(keyOf, {chain[i] : i \in a .. a})
  BY <1>1, <1>2 DEF Unkeyed
<1>5. others <=> Neighbours(a) # {}
  <2>1. ASSUME Neighbours(a) # {} PROVE others
    <3>1. PICK j \in {a - 1, a + 1} \cap (1 .. Len(chain)) : HashAt(chain, keyOf, j) = HashAt(chain, keyOf, a)
      BY <2>1, <1>2
    <3>2. j \in (1 .. Len(chain)) \ (a .. a)
      BY <1>2
    <3>3. QED BY <3>1, <3>2
  <2>2. ASSUME others PROVE Neighbours(a) # {}
    <3>1. PICK l \in 1 .. Len(chain) : l # a /\ HashAt(chain, keyOf, l) = HashAt(chain, keyOf, a)
      BY <2>2, <1>2
    <3>2. CASE l < a
      <4>1. a - 1 \in l .. a /\ a - 1 \in 1 .. Len(chain)
        BY <3>2, <1>2
      <4>2. HashAt(chain, keyOf, a - 1) = HashAt(chain, keyOf, a)
        BY <3>1, <4>1, <1>2 DEF TblInv, Rows
      <4>3. QED BY <4>1, <4>2, <1>2
    <3>3. CASE a < l
      <4>1. a + 1 \in a .. l /\ a + 1 \in 1 .. Len(chain)
        BY <3>3, <1>2
      <4>2. HashAt(chain, keyOf, a + 1) = HashAt(chain, keyOf, a)
        BY <3>1, <4>1, <1>2 DEF TblInv, Rows
      <4>3. QED BY <4>1, <4>2, <1>2
    <3>4. QED BY <3>1, <3>2, <3>3, <1>2
  <2>3. QED BY <2>1, <2>2
<1>6. d \in {0, 1} /\ (d = 1 => cmpAllFlg /\ others) /\ others \in BOOLEAN
  BY <1>5 DEF DelCounts
<1>7. ~dup => (others => d = 1)
  <2>1. SUFFICES ASSUME ~dup, others PROVE cmpAllFlg /\ DelCounts(a)
    OBVIOUS
  <2>2. cmpAllFlg
    <3>1. PICK l \in 1 .. Len(chain) : l # a /\ HashAt(chain, keyOf, l) = HashAt(chain, keyOf, a)
      BY <2>1, <1>2
    <3>2. QED BY <3>1, <1>2, FlagDown
  <2>3. \A j \in Neighbours(a) : keyOf[chain[j]] # keyOf[chain[a]]
    BY <2>1, <1>2 DEF TblInv, Accounted, OneEach
  <2>4. QED BY <2>1, <2>2, <2>3, <1>5 DEF DelCounts
<1>8. SetCmpAll(cmpAllCnt - d) /\ UNCHANGED <<crashed, hist>> /\ answer' \in [key : Keys \cup {NULL}, node : Nodes \cup {NULL}]
  BY <1>1, NoAnswer
<1>9. \A l \in a .. a : HashAt(chain, keyOf, l) = HashAt(chain, keyOf, a)
  BY <1>2
<1> HIDE DEF d
<1>10. QED BY <1>2, <1>3, <1>4, <1>6, <1>7, <1>8, <1>9, CutKeeps

(* What Get takes is one row of one hash key: with the flag the first nodes *)
(* of the key up to a node of another one, without it the only node.        *)
LEMMA TakenIs ==
  ASSUME TblInv, NEW k \in Keys, Hits(k) # {}
  PROVE  LET a == FirstIn(Taken(k))
             b == LastIn(Taken(k))
         IN /\ Taken(k) \subseteq Hits(k) /\ Hits(k) \subseteq SameHash(k)
            /\ Taken(k) = a .. b /\ a \in 1 .. Len(chain) /\ b \in a .. Len(chain)
            /\ ~cmpAllFlg => a = b
<1> DEFINE T == Taken(k)
           a == FirstIn(T)
           b == LastIn(T)
           early == {i \in Hits(k) : \A j \in Mismatch(k) : i < j}
<1>1. /\ Len(chain) \in Nat
      /\ SameHash(k) = {i \in 1 .. Len(chain) : HashAt(chain, keyOf, i) = Hash[k]}
      /\ SameKey(k) \subseteq SameHash(k)
      /\ Hits(k) \subseteq SameHash(k)
      /\ Hits(k) \in SUBSET (1 .. Len(chain))
  BY EntryIs DEF Hits
<1>2. T = IF cmpAllFlg /\ early # {} THEN early ELSE {FirstIn(Hits(k))}
  BY DEF Taken
<1>3. FirstIn(Hits(k)) \in Hits(k)
  BY <1>1, FirstInIs
<1>4. T \subseteq Hits(k) /\ T # {}
  BY <1>2, <1>3
<1>5. T \in SUBSET (1 .. Len(chain))
  BY <1>1, <1>4
<1>6. a \in T /\ (\A j \in T : a <= j) /\ b \in T /\ (\A j \in T : j <= b)
  <2> HIDE DEF T
  <2>1. QED BY <1>1, <1>4, <1>5, FirstInIs, LastInIs
<1> HIDE DEF T, a, b
<1>7. a \in 1 .. Len(chain) /\ b \in a .. Len(chain)
  BY <1>1, <1>5, <1>6
<1>8. T \subseteq a .. b
  BY <1>1, <1>5, <1>6
<1>9. CASE cmpAllFlg /\ early # {}
  <2>1. SUFFICES ASSUME NEW l \in a .. b PROVE l \in T
    BY <1>1, <1>4, <1>7, <1>8, <1>9 DEF T, a, b
  <2>2. T = early
    BY <1>2, <1>9
  <2>3. HashAt(chain, keyOf, a) = Hash[k] /\ HashAt(chain, keyOf, b) = Hash[k]
    BY <1>1, <1>4, <1>6
  <2>4. HashAt(chain, keyOf, l) = Hash[k] /\ l \in 1 .. Len(chain)
    BY <2>3, <1>7 DEF TblInv, Rows
  <2>5. \A j \in Mismatch(k) : l < j
    <3>1. SUFFICES ASSUME NEW j \in Mismatch(k) PROVE l < j
      OBVIOUS
    <3>2. b < j /\ j \in 1 .. Len(chain)
      BY <2>2, <1>1, <1>6 DEF Mismatch
    <3>3. QED BY <3>2, <1>7
  <2>6. l \in SameKey(k)
    <3>1. l \notin Mismatch(k)
      BY <2>4, <2>5
    <3>2. QED BY <3>1, <2>4, <1>1 DEF Mismatch
  <2>7. l \in Hits(k)
    BY <2>6, <1>9 DEF Hits
  <2>8. QED BY <2>2, <2>5, <2>7
<1>10. CASE ~(cmpAllFlg /\ early # {})
  <2>1. T = {FirstIn(Hits(k))}
    BY <1>2, <1>10
  <2>2. a = b /\ T = {a}
    BY <2>1, <1>6
  <2>3. a .. b = {a}
    BY <2>2, <1>7
  <2>4. QED BY <2>2, <2>3, <1>1, <1>4, <1>7 DEF T, a, b
<1>11. QED BY <1>9, <1>10

LEMMA GetKeeps ==
  ASSUME TblInv, NEW k \in Keys, GetNode(k)
  PROVE  TblInv'
<1> DEFINE a == FirstIn(Taken(k))
           b == LastIn(Taken(k))
           d == IF cmpAllFlg /\ Mismatch(k) # {} THEN 1 ELSE 0
           others == \E l \in (1 .. Len(chain)) \ (a .. b) : HashAt(chain, keyOf, l) = HashAt(chain, keyOf, a)
<1>1. /\ Hits(k) # {}
      /\ answer' = [key |-> k, node |-> chain[b]]
      /\ chain' = CutOut(chain, a, b)
      /\ keyOf' = Unkeyed(keyOf, {chain[i] : i \in Taken(k)})
      /\ SetCmpAll(cmpAllCnt - d)
      /\ UNCHANGED <<crashed, hist>>
  BY DEF GetNode, CutOut, Unkeyed
<1>2. /\ Taken(k) \subseteq Hits(k) /\ Hits(k) \subseteq SameHash(k)
      /\ Taken(k) = a .. b /\ a \in 1 .. Len(chain) /\ b \in a .. Len(chain)
      /\ ~cmpAllFlg => a = b
  BY <1>1, TakenIs
<1> HIDE DEF a, b
<1>3. /\ Len(chain) \in Nat
      /\ SameHash(k) = {i \in 1 .. Len(chain) : HashAt(chain, keyOf, i) = Hash[k]}
      /\ SameKey(k) = {i \in 1 .. Len(chain) : keyOf[chain[i]] = k}
      /\ chain \in Seq(Nodes)
  BY EntryIs
<1>4. a \in Taken(k) /\ b \in Taken(k) /\ HashAt(chain, keyOf, a) = Hash[k]
      /\ \A l \in a .. b : HashAt(chain, keyOf, l) = HashAt(chain, keyOf, a)
  BY <1>2, <1>3
<1>5. cmpAllFlg => a .. b \subseteq SameKey(k)
  BY <1>2 DEF Hits
<1>6. d = 1 => cmpAllFlg /\ others
  <2>1. SUFFICES ASSUME cmpAllFlg, Mismatch(k) # {} PROVE others
    OBVIOUS
  <2>2. PICK m \in Mismatch(k) : TRUE
    BY <2>1
  <2>3. m \in 1 .. Len(chain) /\ HashAt(chain, keyOf, m) = Hash[k] /\ m \notin SameKey(k)
    BY <1>3 DEF Mismatch
  <2>4. m \notin a .. b
    BY <2>1, <2>3, <1>5
  <2>5. QED BY <2>3, <2>4, <1>4
<1>7. ~dup => a = b /\ (others => d = 1)
  <2>1. SUFFICES ASSUME ~dup PROVE a = b /\ (others => d = 1)
    OBVIOUS
  <2>2. OneEach(chain, keyOf)
    BY <2>1 DEF TblInv, Accounted
  <2>3. a = b
    <3>1. CASE cmpAllFlg
      <4>1. a \in 1 .. Len(chain) /\ b \in 1 .. Len(chain) /\ keyOf[chain[a]] = k /\ keyOf[chain[b]] = k
        BY <3>1, <1>2, <1>3, <1>4, <1>5
      <4>2. QED BY <4>1, <2>2 DEF OneEach
    <3>2. QED BY <3>1, <1>2
  <2>4. ASSUME others PROVE d = 1
    <3>1. PICK l \in (1 .. Len(chain)) \ (a .. b) : HashAt(chain, keyOf, l) = HashAt(chain, keyOf, a)
      BY <2>4
    <3>2. l \in 1 .. Len(chain) /\ l # a /\ l \in SameHash(k)
      BY <3>1, <1>2, <1>3, <1>4
    <3>3. cmpAllFlg
      BY <3>1, <3>2, <1>2, FlagDown
    <3>4. keyOf[chain[a]] = k
      BY <3>3, <1>3, <1>4, <1>5, <1>2
    <3>5. l \notin SameKey(k)
      BY <3>2, <3>4, <1>2, <1>3, <2>2 DEF OneEach
    <3>6. QED BY <3>2, <3>3, <3>5 DEF Mismatch
  <2>5. QED BY <2>3, <2>4
<1>8. answer' \in [key : Keys \cup {NULL}, node : Nodes \cup {NULL}]
  <2>1. b \in 1 .. Len(chain)
    BY <1>2, <1>3
  <2>2. chain[b] \in Nodes
    BY <2>1, <1>3
  <2>3. QED BY <2>2, <1>1
<1>9. keyOf' = Unkeyed(keyOf, {chain[i] : i \in a .. b})
  BY <1>1, <1>2
<1>10. d \in {0, 1} /\ others \in BOOLEAN
  OBVIOUS
<1> HIDE DEF d
<1>11. chain' = CutOut(chain, a, b) /\ SetCmpAll(cmpAllCnt - d) /\ UNCHANGED <<crashed, hist>>
  BY <1>1 DEF a, b, d
<1>12. QED BY <1>2, <1>4, <1>6, <1>7, <1>8, <1>9, <1>10, <1>11, CutKeeps

-----------------------------------------------------------------------------
(* The invariant *)

LEMMA TblInvInit == TblInit => TblInv
<1>1. SUFFICES ASSUME TblInit PROVE TblInv
  OBVIOUS
<1>2. chain = << >> /\ Len(chain) = 0 /\ chain \in Seq(Nodes) /\ 1 .. Len(chain) = {}
  BY <1>1 DEF TblInit
<1>3. Keyed(chain, keyOf) /\ Rows(chain, keyOf) /\ OneEach(chain, keyOf)
  BY <1>1, <1>2 DEF TblInit, Keyed, Rows, OneEach
<1>4. HashesOf(chain, keyOf) = {}
  BY <1>2 DEF HashesOf
<1>5. Spare(chain, keyOf) = 0
  BY <1>2, <1>4, FS_EmptySet DEF Spare
<1>6. Accounted
  BY <1>1, <1>3, <1>5 DEF Accounted, TblInit
<1>7. Values
  <2>1. /\ cmpAllFlg = FALSE /\ cmpAllCnt = 0 /\ crashed = FALSE /\ collided = FALSE /\ dup = FALSE
        /\ answer = noAnswer
    BY <1>1 DEF TblInit
  <2>2. cmpAllCnt \in Nat /\ ~(cmpAllCnt > 0)
    BY <2>1
  <2>3. QED BY <2>1, <2>2, NoAnswer DEF Values
<1>8. QED BY <1>3, <1>6, <1>7 DEF TblInv

LEMMA TblInvNext == TblInv /\ [TblNext]_tblVars => TblInv'
<1>1. SUFFICES ASSUME TblInv, [TblNext]_tblVars PROVE TblInv'
  OBVIOUS
<1>2. ASSUME NEW n \in Nodes, NEW k \in Keys, TblInsert(n, k) PROVE TblInv'
  <2>1. CASE InsertExists(n, k)
    BY <2>1, EntryStays, NoAnswer, <1>1 DEF InsertExists
  <2>2. CASE InsertNode(n, k)
    BY <2>2, <1>2, <1>1, InsertKeeps DEF TblInsert
  <2>3. QED BY <1>2, <2>1, <2>2 DEF TblInsert
<1>3. ASSUME NEW n \in Nodes, TblDel(n) PROVE TblInv'
  BY <1>1, <1>3, DelKeeps
<1>4. ASSUME NEW k \in Keys, TblFind(k) PROVE TblInv'
  <2>1. Hits(k) # {} => chain[FirstIn(Hits(k))] \in Nodes
    <3>1. Hits(k) \in SUBSET (1 .. Len(chain)) /\ Len(chain) \in Nat /\ chain \in Seq(Nodes)
      BY <1>1, EntryIs DEF Hits
    <3>2. Hits(k) # {} => FirstIn(Hits(k)) \in 1 .. Len(chain)
      BY <3>1, FirstInIs
    <3>3. QED BY <3>1, <3>2
  <2>2. answer' \in [key : Keys \cup {NULL}, node : Nodes \cup {NULL}]
    BY <2>1, <1>4 DEF TblFind
  <2>3. QED BY <2>2, <1>1, <1>4, EntryStays DEF TblFind
<1>5. ASSUME NEW k \in Keys, GetMissing(k) PROVE TblInv'
  BY <1>1, <1>5, EntryStays DEF GetMissing
<1>6. ASSUME NEW k \in Keys, GetNode(k) PROVE TblInv'
  BY <1>1, <1>6, GetKeeps
<1>7. CASE UNCHANGED tblVars
  <2>1. UNCHANGED <<entry, crashed, hist>> /\ answer' = answer
    BY <1>7 DEF tblVars
  <2>2. QED BY <2>1, <1>1, EntryStays DEF TblInv, Values
<1>8. QED BY <1>1, <1>2, <1>3, <1>4, <1>5, <1>6, <1>7 DEF TblNext

LEMMA TblInvLookups == TblInv => LookupsExact
<1>1. SUFFICES ASSUME TblInv PROVE LookupsExact
  OBVIOUS
<1>2. /\ DOMAIN chain = 1 .. Len(chain) /\ Len(chain) \in Nat /\ chain \in Seq(Nodes)
      /\ \A k \in Keys : /\ SameHash(k) = {i \in 1 .. Len(chain) : HashAt(chain, keyOf, i) = Hash[k]}
                         /\ SameKey(k) = {i \in 1 .. Len(chain) : keyOf[chain[i]] = k}
                         /\ SameKey(k) \subseteq SameHash(k)
  BY <1>1, EntryIs
<1>3. TblTypeOK
  BY <1>1, <1>2 DEF TblTypeOK, TblInv, Keyed, Values
<1>4. InRows
  BY <1>1, <1>2 DEF InRows, TblInv, Rows, HashAt
<1>5. PresentIsFound
  <2>1. SUFFICES ASSUME NEW k \in Keys, SameKey(k) # {}
                 PROVE  keyOf[chain[FirstIn(Hits(k))]] = k
    BY DEF PresentIsFound
  <2>2. Hits(k) \in SUBSET (1 .. Len(chain)) /\ SameKey(k) \subseteq Hits(k)
    BY <1>2 DEF Hits
  <2>3. FirstIn(Hits(k)) \in Hits(k)
    BY <2>1, <2>2, <1>2, FirstInIs
  <2>4. CASE cmpAllFlg
    BY <2>3, <2>4, <1>2 DEF Hits
  <2>5. CASE ~cmpAllFlg
    <3>1. PICK i \in SameKey(k) : TRUE
      BY <2>1
    <3>2. i \in SameHash(k) /\ FirstIn(Hits(k)) \in SameHash(k)
      BY <2>3, <2>5, <1>2 DEF Hits
    <3>3. i = FirstIn(Hits(k))
      BY <3>2, <2>5, <1>1, <1>2, FlagDown
    <3>4. QED BY <3>3, <1>2
  <2>6. QED BY <2>4, <2>5
<1>6. CmpAllCntExact
  <2>1. {Hash[keyOf[n]] : n \in Chained} = HashesOf(chain, keyOf)
    BY <1>2 DEF Chained, HashesOf, HashAt
  <2>2. QED BY <2>1, <1>1 DEF CmpAllCntExact, TblInv, Accounted, Spare
<1>7. ExactWithoutCollision
  BY <1>1, <1>2 DEF ExactWithoutCollision, TblInv, Values, Accounted, OneEach
<1>8. QED BY <1>3, <1>4, <1>5, <1>6, <1>7 DEF LookupsExact

(* The nodes of a hash key stay in one row and cmpAllCnt follows them       *)
(* through every insertion, deletion and Get, for any nodes, keys and hash  *)
(* function (comlib_hashTbl.c).                                             *)
THEOREM TblInductive == TblSpec => []TblInv
<1>1. QED BY TblInvInit, TblInvNext, PTL DEF TblSpec

(* A key that is in the entry is found as itself, whichever keys share its  *)
(* hash key and whatever went before, and the count that decides how keys   *)
(* are compared is exact as long as no key was in the entry twice.          *)
THEOREM LookupsStayExact == TblSpec => []LookupsExact
<1>1. QED BY TblInductive, TblInvLookups, PTL

-----------------------------------------------------------------------------
(***************************************************************************)
(* LnkLst.                                                                 *)
(*                                                                         *)
(* ListsExact for any nodes, any lists and any limits.                     *)
(*                                                                         *)
(* A list is a chain: a sequence of distinct nodes, the two ends the list  *)
(* points to, and links that agree with the sequence.  Three lemmas say    *)
(* what insertion, removal and concatenation do to a chain; two more say   *)
(* that a call which keeps to its own lists keeps the invariant.  Each     *)
(* call is then one of the five, whatever the order it sets its links in.  *)
(***************************************************************************)

NodeOrNull == LnkNodes \cup {NoNode}

Chain(s, nx, pv, fst, tl) ==
  /\ s \in Seq(LnkNodes)
  /\ \A i, j \in 1 .. Len(s) : s[i] = s[j] => i = j
  /\ fst = IF Len(s) = 0 THEN NoNode ELSE s[1]
  /\ tl = IF Len(s) = 0 THEN NoNode ELSE s[Len(s)]
  /\ \A i \in 1 .. Len(s) :
        /\ nx[s[i]] = IF i = Len(s) THEN NoNode ELSE s[i + 1]
        /\ pv[s[i]] = IF i = 1 THEN NoNode ELSE s[i - 1]

NodesIn(s) == {s[i] : i \in 1 .. Len(s)}

LnkType ==
  /\ next \in [LnkNodes -> NodeOrNull] /\ prev \in [LnkNodes -> NodeOrNull]
  /\ first \in [Lists -> NodeOrNull] /\ tail \in [Lists -> NodeOrNull]
  /\ nodeCnt \in [Lists -> Nat] /\ maxNode \in [Lists -> Nat]
  /\ listed \in [Lists -> Seq(LnkNodes)]

ListOK(l) ==
  /\ Chain(listed[l], next, prev, first[l], tail[l])
  /\ nodeCnt[l] = Len(listed[l])
  /\ maxNode[l] # 0 => nodeCnt[l] <= maxNode[l]

Apart == \A l, k \in Lists : l # k => NodesIn(listed[l]) \cap NodesIn(listed[k]) = {}

LnkInv == LnkType /\ (\A l \in Lists : ListOK(l)) /\ Apart

-----------------------------------------------------------------------------
(* Sequences *)

LEMMA RangeNodes == ASSUME NEW s \in Seq(LnkNodes) PROVE Range(s) = NodesIn(s) /\ DOMAIN s = 1 .. Len(s)
BY DEF Range, NodesIn

LEMMA LnkInsertAtIs ==
  ASSUME NEW s \in Seq(LnkNodes), NEW i \in 1 .. Len(s) + 1, NEW x \in LnkNodes
  PROVE  /\ InsertAt(s, i, x) \in Seq(LnkNodes)
         /\ Len(InsertAt(s, i, x)) = Len(s) + 1
         /\ \A j \in 1 .. Len(s) + 1 :
               InsertAt(s, i, x)[j] = IF j < i THEN s[j] ELSE IF j = i THEN x ELSE s[j - 1]
<1> DEFINE a == SubSeq(s, 1, i - 1)
           b == SubSeq(s, i, Len(s))
           m == <<x>>
<1>1. /\ a \in Seq(LnkNodes) /\ Len(a) = i - 1
      /\ \A j \in 1 .. i - 1 : a[j] = s[j]
  <2>1. \A j \in 1 .. i - 1 : s[j] \in LnkNodes
    OBVIOUS
  <2>2. /\ a \in Seq(LnkNodes) /\ Len(a) = IF 1 <= i - 1 THEN (i - 1) - 1 + 1 ELSE 0
        /\ \A j \in 1 .. (i - 1) - 1 + 1 : a[j] = s[1 + j - 1]
    BY <2>1, SubSeqProperties
  <2>3. QED BY <2>2
<1>2. /\ b \in Seq(LnkNodes) /\ Len(b) = Len(s) - i + 1
      /\ \A j \in 1 .. Len(s) - i + 1 : b[j] = s[i + j - 1]
  <2>1. \A j \in i .. Len(s) : s[j] \in LnkNodes
    OBVIOUS
  <2>2. /\ b \in Seq(LnkNodes) /\ Len(b) = IF i <= Len(s) THEN Len(s) - i + 1 ELSE 0
        /\ \A j \in 1 .. Len(s) - i + 1 : b[j] = s[i + j - 1]
    BY <2>1, SubSeqProperties
  <2>3. QED BY <2>2
<1>3. m \in Seq(LnkNodes) /\ Len(m) = 1 /\ m[1] = x
  OBVIOUS
<1> HIDE DEF a, b, m
<1> DEFINE c == a \o m
<1>4. /\ c \in Seq(LnkNodes) /\ Len(c) = i
      /\ \A j \in 1 .. i : c[j] = IF j < i THEN s[j] ELSE x
  <2>1. /\ c \in Seq(LnkNodes) /\ Len(c) = Len(a) + Len(m)
        /\ \A j \in 1 .. Len(a) + Len(m) : c[j] = IF j <= Len(a) THEN a[j] ELSE m[j - Len(a)]
    BY <1>1, <1>3, ConcatProperties
  <2>2. QED BY <2>1, <1>1, <1>3
<1> HIDE DEF c
<1>5. /\ c \o b \in Seq(LnkNodes) /\ Len(c \o b) = Len(s) + 1
      /\ \A j \in 1 .. Len(s) + 1 : (c \o b)[j] = IF j <= i THEN c[j] ELSE b[j - i]
  <2>1. /\ c \o b \in Seq(LnkNodes) /\ Len(c \o b) = Len(c) + Len(b)
        /\ \A j \in 1 .. Len(c) + Len(b) : (c \o b)[j] = IF j <= Len(c) THEN c[j] ELSE b[j - Len(c)]
    BY <1>2, <1>4, ConcatProperties
  <2>2. QED BY <2>1, <1>2, <1>4
<1>6. InsertAt(s, i, x) = c \o b
  BY DEF InsertAt, a, m, b, c
<1>7. QED BY <1>2, <1>4, <1>5, <1>6

LEMMA RemoveAtIs ==
  ASSUME NEW s \in Seq(LnkNodes), NEW i \in 1 .. Len(s)
  PROVE  /\ RemoveAt(s, i) \in Seq(LnkNodes)
         /\ Len(RemoveAt(s, i)) = Len(s) - 1
         /\ \A j \in 1 .. Len(s) - 1 : RemoveAt(s, i)[j] = IF j < i THEN s[j] ELSE s[j + 1]
<1> DEFINE a == SubSeq(s, 1, i - 1)
           b == SubSeq(s, i + 1, Len(s))
<1>1. /\ a \in Seq(LnkNodes) /\ Len(a) = i - 1
      /\ \A j \in 1 .. i - 1 : a[j] = s[j]
  <2>1. \A j \in 1 .. i - 1 : s[j] \in LnkNodes
    OBVIOUS
  <2>2. /\ a \in Seq(LnkNodes) /\ Len(a) = IF 1 <= i - 1 THEN (i - 1) - 1 + 1 ELSE 0
        /\ \A j \in 1 .. (i - 1) - 1 + 1 : a[j] = s[1 + j - 1]
    BY <2>1, SubSeqProperties
  <2>3. QED BY <2>2
<1>2. /\ b \in Seq(LnkNodes) /\ Len(b) = Len(s) - i
      /\ \A j \in 1 .. Len(s) - i : b[j] = s[i + j]
  <2>1. \A j \in i + 1 .. Len(s) : s[j] \in LnkNodes
    OBVIOUS
  <2>2. /\ b \in Seq(LnkNodes) /\ Len(b) = IF i + 1 <= Len(s) THEN Len(s) - (i + 1) + 1 ELSE 0
        /\ \A j \in 1 .. Len(s) - (i + 1) + 1 : b[j] = s[(i + 1) + j - 1]
    BY <2>1, SubSeqProperties
  <2>3. QED BY <2>2
<1> HIDE DEF a, b
<1>3. /\ a \o b \in Seq(LnkNodes) /\ Len(a \o b) = Len(a) + Len(b)
      /\ \A j \in 1 .. Len(a) + Len(b) : (a \o b)[j] = IF j <= Len(a) THEN a[j] ELSE b[j - Len(a)]
  BY <1>1, <1>2, ConcatProperties
<1>4. RemoveAt(s, i) = a \o b
  BY DEF RemoveAt, a, b
<1>5. Len(s) \in Nat /\ Len(a \o b) = Len(s) - 1
  BY <1>1, <1>2, <1>3
<1>6. ASSUME NEW j \in 1 .. Len(s) - 1 PROVE (a \o b)[j] = IF j < i THEN s[j] ELSE s[j + 1]
  <2>1. CASE j < i   BY <2>1, <1>1, <1>2, <1>3, <1>5
  <2>2. CASE j >= i
    <3>1. j - (i - 1) \in 1 .. Len(s) - i /\ i + (j - (i - 1)) = j + 1
      BY <2>2, <1>5
    <3>2. (a \o b)[j] = b[j - (i - 1)]
      BY <2>2, <1>1, <1>2, <1>3, <1>5, SMTT(30)
    <3>3. b[j - (i - 1)] = s[i + (j - (i - 1))]
      BY <3>1, <1>2
    <3>4. QED BY <2>2, <3>1, <3>2, <3>3
  <2>3. QED BY <2>1, <2>2, <1>5
<1>7. QED BY <1>3, <1>4, <1>5, <1>6

-----------------------------------------------------------------------------
(* Chains *)

(* Links that are set elsewhere do not disturb a chain. *)
LEMMA ChainKept ==
  ASSUME NEW s, NEW nx, NEW pv, NEW fst, NEW tl, Chain(s, nx, pv, fst, tl), NEW nx2, NEW pv2,
         \A n \in NodesIn(s) : nx2[n] = nx[n] /\ pv2[n] = pv[n]
  PROVE  Chain(s, nx2, pv2, fst, tl)
BY DEF Chain, NodesIn

(* What a chain says, a fact at a time. *)
LEMMA ChainFacts ==
  ASSUME NEW s, NEW nx, NEW pv, NEW fst, NEW tl, Chain(s, nx, pv, fst, tl)
  PROVE  /\ s \in Seq(LnkNodes) /\ Len(s) \in Nat
         /\ \A j \in 1 .. Len(s) : s[j] \in LnkNodes
         /\ \A j, k \in 1 .. Len(s) : s[j] = s[k] => j = k
         /\ Len(s) = 0 => fst = NoNode /\ tl = NoNode
         /\ Len(s) # 0 => fst = s[1] /\ tl = s[Len(s)]
         /\ \A j \in 1 .. Len(s) : nx[s[j]] = IF j = Len(s) THEN NoNode ELSE s[j + 1]
         /\ \A j \in 1 .. Len(s) : pv[s[j]] = IF j = 1 THEN NoNode ELSE s[j - 1]
<1>1. s \in Seq(LnkNodes) /\ Len(s) \in Nat /\ \A j \in 1 .. Len(s) : s[j] \in LnkNodes
  BY DEF Chain
<1>2. \A j, k \in 1 .. Len(s) : s[j] = s[k] => j = k
  BY DEF Chain
<1>3. /\ Len(s) = 0 => fst = NoNode /\ tl = NoNode
      /\ Len(s) # 0 => fst = s[1] /\ tl = s[Len(s)]
  BY DEF Chain
<1>4. /\ \A j \in 1 .. Len(s) : nx[s[j]] = IF j = Len(s) THEN NoNode ELSE s[j + 1]
      /\ \A j \in 1 .. Len(s) : pv[s[j]] = IF j = 1 THEN NoNode ELSE s[j - 1]
  BY DEF Chain
<1>5. QED BY <1>1, <1>2, <1>3, <1>4

(* The node x comes to the place i. *)
LnkWith(s, i, x, r, nx, pv, nx2, pv2) ==
  /\ i \in 1 .. Len(s) + 1 /\ x \in LnkNodes /\ x \notin NodesIn(s)
  /\ r \in Seq(LnkNodes) /\ Len(r) = Len(s) + 1
  /\ \A j \in 1 .. Len(s) + 1 : r[j] = IF j < i THEN s[j] ELSE IF j = i THEN x ELSE s[j - 1]
  /\ nx2[x] = IF i = Len(s) + 1 THEN NoNode ELSE s[i]
  /\ pv2[x] = IF i = 1 THEN NoNode ELSE s[i - 1]
  /\ \A j \in 1 .. Len(s) : nx2[s[j]] = IF j = i - 1 THEN x ELSE nx[s[j]]
  /\ \A j \in 1 .. Len(s) : pv2[s[j]] = IF j = i THEN x ELSE pv[s[j]]

LEMMA ChainInserted ==
  ASSUME NEW s, NEW nx, NEW pv, NEW fst, NEW tl, Chain(s, nx, pv, fst, tl),
         NEW i, NEW x, NEW r, NEW nx2, NEW pv2, LnkWith(s, i, x, r, nx, pv, nx2, pv2),
         NEW fst2, fst2 = IF i = 1 THEN x ELSE fst,
         NEW tl2, tl2 = IF i = Len(s) + 1 THEN x ELSE tl
  PROVE  Chain(r, nx2, pv2, fst2, tl2)
<1>w. /\ i \in 1 .. Len(s) + 1 /\ x \in LnkNodes /\ x \notin NodesIn(s)
      /\ r \in Seq(LnkNodes) /\ Len(r) = Len(s) + 1
      /\ \A j \in 1 .. Len(s) + 1 : r[j] = IF j < i THEN s[j] ELSE IF j = i THEN x ELSE s[j - 1]
      /\ nx2[x] = IF i = Len(s) + 1 THEN NoNode ELSE s[i]
      /\ pv2[x] = IF i = 1 THEN NoNode ELSE s[i - 1]
      /\ \A j \in 1 .. Len(s) : nx2[s[j]] = IF j = i - 1 THEN x ELSE nx[s[j]]
      /\ \A j \in 1 .. Len(s) : pv2[s[j]] = IF j = i THEN x ELSE pv[s[j]]
  BY DEF LnkWith
<1> USE <1>w
<1>0. /\ Len(s) \in Nat
      /\ \A j, k \in 1 .. Len(s) : s[j] = s[k] => j = k
      /\ Len(s) # 0 => fst = s[1] /\ tl = s[Len(s)]
      /\ \A j \in 1 .. Len(s) : nx[s[j]] = IF j = Len(s) THEN NoNode ELSE s[j + 1]
      /\ \A j \in 1 .. Len(s) : pv[s[j]] = IF j = 1 THEN NoNode ELSE s[j - 1]
  BY ChainFacts
<1>1. \A j \in 1 .. Len(s) : s[j] # x
  BY DEF NodesIn
<1> DEFINE from(j) == IF j < i THEN j ELSE j - 1
<1>2. \A j \in 1 .. Len(r) : j # i => from(j) \in 1 .. Len(s) /\ r[j] = s[from(j)]
  BY <1>0
<1>3. r[i] = x
  BY <1>0
<1>4. ASSUME NEW j \in 1 .. Len(r), NEW k \in 1 .. Len(r), r[j] = r[k] PROVE j = k
  <2>1. CASE j = i /\ k # i   BY <2>1, <1>1, <1>2, <1>3, <1>4
  <2>2. CASE j # i /\ k = i   BY <2>2, <1>1, <1>2, <1>3, <1>4
  <2>3. CASE j # i /\ k # i
    <3>1. from(j) \in 1 .. Len(s) /\ from(k) \in 1 .. Len(s) /\ s[from(j)] = s[from(k)]
      BY <2>3, <1>2, <1>4
    <3>2. from(j) = from(k)
      <4> HIDE DEF from
      <4>1. QED BY <3>1, <1>0
    <3>3. QED BY <2>3, <3>2, <1>0
  <2>4. QED BY <2>1, <2>2, <2>3
<1>5. ASSUME NEW j \in 1 .. Len(r) PROVE nx2[r[j]] = IF j = Len(r) THEN NoNode ELSE r[j + 1]
  <2>1. CASE j < i - 1
    <3>1. j \in 1 .. Len(s) /\ j # Len(s) /\ r[j] = s[j] /\ r[j + 1] = s[j + 1] /\ j # Len(r)
      BY <2>1, <1>0
    <3>2. nx2[s[j]] = s[j + 1]
      BY <2>1, <3>1, <1>0
    <3>3. QED BY <3>1, <3>2
  <2>2. CASE j = i - 1
    <3>1. j \in 1 .. Len(s) /\ r[j] = s[j] /\ r[j + 1] = x /\ j # Len(r)
      BY <2>2, <1>0
    <3>2. QED BY <2>2, <3>1
  <2>3. CASE j = i
    <3>1. j # Len(r) => r[j + 1] = s[i]
      BY <2>3, <1>0
    <3>2. QED BY <2>3, <3>1, <1>0, <1>3
  <2>4. CASE j > i
    <3>1. j - 1 \in 1 .. Len(s) /\ r[j] = s[j - 1] /\ j - 1 # i - 1
      BY <2>4, <1>0
    <3>2. nx2[s[j - 1]] = IF j - 1 = Len(s) THEN NoNode ELSE s[(j - 1) + 1]
      BY <3>1, <1>0, SMTT(30)
    <3>3. j # Len(r) => r[j + 1] = s[(j - 1) + 1]
      BY <2>4, <1>0, SMTT(30)
    <3>4. QED BY <3>1, <3>2, <3>3, <1>0
  <2>5. QED BY <2>1, <2>2, <2>3, <2>4, <1>0
<1>6. ASSUME NEW j \in 1 .. Len(r) PROVE pv2[r[j]] = IF j = 1 THEN NoNode ELSE r[j - 1]
  <2>1. CASE j < i
    <3>1. j \in 1 .. Len(s) /\ r[j] = s[j] /\ (j # 1 => r[j - 1] = s[j - 1])
      BY <2>1, <1>0
    <3>2. pv2[s[j]] = IF j = 1 THEN NoNode ELSE s[j - 1]
      BY <2>1, <3>1, <1>0
    <3>3. QED BY <3>1, <3>2
  <2>2. CASE j = i
    <3>1. j # 1 => r[j - 1] = s[i - 1]
      BY <2>2, <1>0
    <3>2. QED BY <2>2, <3>1, <1>3
  <2>3. CASE j = i + 1
    <3>1. i \in 1 .. Len(s) /\ r[j] = s[i] /\ r[j - 1] = x /\ j # 1
      BY <2>3, <1>0
    <3>2. QED BY <3>1
  <2>4. CASE j > i + 1
    <3>1. j - 1 \in 1 .. Len(s) /\ r[j] = s[j - 1] /\ j - 1 # i /\ j - 1 # 1 /\ j # 1
          /\ r[j - 1] = s[(j - 1) - 1]
      BY <2>4, <1>0
    <3>2. pv2[s[j - 1]] = s[(j - 1) - 1]
      BY <3>1, <1>0
    <3>3. QED BY <3>1, <3>2
  <2>5. QED BY <2>1, <2>2, <2>3, <2>4, <1>0
<1>7. /\ Len(r) # 0
      /\ r[1] = IF i = 1 THEN x ELSE fst
      /\ r[Len(r)] = IF i = Len(s) + 1 THEN x ELSE tl
  BY <1>0
<1>8. \A j, k \in 1 .. Len(r) : r[j] = r[k] => j = k
  BY <1>4
<1>9. \A j \in 1 .. Len(r) : /\ nx2[r[j]] = IF j = Len(r) THEN NoNode ELSE r[j + 1]
                            /\ pv2[r[j]] = IF j = 1 THEN NoNode ELSE r[j - 1]
  BY <1>5, <1>6
<1>10. QED BY <1>7, <1>8, <1>9 DEF Chain

(* The node at the place i goes. *)
LnkWithout(s, i, r, nx, pv, nx2, pv2) ==
  /\ i \in 1 .. Len(s)
  /\ r \in Seq(LnkNodes) /\ Len(r) = Len(s) - 1
  /\ \A j \in 1 .. Len(s) - 1 : r[j] = IF j < i THEN s[j] ELSE s[j + 1]
  /\ \A j \in 1 .. Len(s) : j # i => nx2[s[j]] = IF j = i - 1 THEN nx[s[i]] ELSE nx[s[j]]
  /\ \A j \in 1 .. Len(s) : j # i => pv2[s[j]] = IF j = i + 1 THEN pv[s[i]] ELSE pv[s[j]]

LEMMA ChainRemoved ==
  ASSUME NEW s, NEW nx, NEW pv, NEW fst, NEW tl, Chain(s, nx, pv, fst, tl),
         NEW i, NEW r, NEW nx2, NEW pv2, LnkWithout(s, i, r, nx, pv, nx2, pv2),
         NEW fst2, fst2 = IF i = 1 THEN nx[s[i]] ELSE fst,
         NEW tl2, tl2 = IF i = Len(s) THEN pv[s[i]] ELSE tl
  PROVE  Chain(r, nx2, pv2, fst2, tl2)
<1>w. /\ i \in 1 .. Len(s)
      /\ r \in Seq(LnkNodes) /\ Len(r) = Len(s) - 1
      /\ \A j \in 1 .. Len(s) - 1 : r[j] = IF j < i THEN s[j] ELSE s[j + 1]
      /\ \A j \in 1 .. Len(s) : j # i => nx2[s[j]] = IF j = i - 1 THEN nx[s[i]] ELSE nx[s[j]]
      /\ \A j \in 1 .. Len(s) : j # i => pv2[s[j]] = IF j = i + 1 THEN pv[s[i]] ELSE pv[s[j]]
  BY DEF LnkWithout
<1> USE <1>w
<1>0. /\ Len(s) \in Nat
      /\ \A j, k \in 1 .. Len(s) : s[j] = s[k] => j = k
      /\ Len(s) # 0 => fst = s[1] /\ tl = s[Len(s)]
      /\ \A j \in 1 .. Len(s) : nx[s[j]] = IF j = Len(s) THEN NoNode ELSE s[j + 1]
      /\ \A j \in 1 .. Len(s) : pv[s[j]] = IF j = 1 THEN NoNode ELSE s[j - 1]
  <2>1. Len(s) \in Nat /\ \A j, k \in 1 .. Len(s) : s[j] = s[k] => j = k
    BY ChainFacts
  <2>2. Len(s) # 0 => fst = s[1] /\ tl = s[Len(s)]
    BY ChainFacts
  <2>3. /\ \A j \in 1 .. Len(s) : nx[s[j]] = IF j = Len(s) THEN NoNode ELSE s[j + 1]
        /\ \A j \in 1 .. Len(s) : pv[s[j]] = IF j = 1 THEN NoNode ELSE s[j - 1]
    BY DEF Chain
  <2>4. QED BY <2>1, <2>2, <2>3
<1>r. /\ Len(s) \in Nat /\ i \in 1 .. Len(s) /\ Len(r) = Len(s) - 1
      /\ \A j \in 1 .. Len(s) - 1 : r[j] = IF j < i THEN s[j] ELSE s[j + 1]
  BY <1>0
<1> DEFINE from(j) == IF j < i THEN j ELSE j + 1
<1>1. \A j \in 1 .. Len(r) : from(j) \in 1 .. Len(s) /\ from(j) # i /\ r[j] = s[from(j)]
  BY <1>0
<1>2. ASSUME NEW j \in 1 .. Len(r), NEW k \in 1 .. Len(r), r[j] = r[k] PROVE j = k
  <2>1. from(j) \in 1 .. Len(s) /\ from(k) \in 1 .. Len(s) /\ s[from(j)] = s[from(k)]
    BY <1>1, <1>2
  <2>2. from(j) = from(k)
    <3> HIDE DEF from
    <3>1. QED BY <2>1, <1>0
  <2>3. QED BY <2>2, <1>0
<1>3. ASSUME NEW j \in 1 .. Len(r) PROVE nx2[r[j]] = IF j = Len(r) THEN NoNode ELSE r[j + 1]
  <2>1. CASE j < i - 1
    <3>0. j \in 1 .. Len(s) - 1 /\ j + 1 \in 1 .. Len(s) - 1
      <4>1. j \in 1 .. Len(r)
        OBVIOUS
      <4>2. QED BY ONLY <2>1, <4>1, <1>r
    <3>1. j \in 1 .. Len(s) /\ j # Len(s) /\ r[j] = s[j] /\ r[j + 1] = s[j + 1] /\ j # Len(r)
      BY ONLY <2>1, <3>0, <1>r
    <3>2. nx2[s[j]] = s[j + 1]
      BY <2>1, <3>1, <1>0
    <3>3. QED BY <3>1, <3>2
  <2>2. CASE j = i - 1
    <3>1. j \in 1 .. Len(s) /\ r[j] = s[j] /\ (j # Len(r) => r[j + 1] = s[i + 1]) /\ (j = Len(r) <=> i = Len(s))
      BY <2>2, <1>0
    <3>2. nx2[s[j]] = IF i = Len(s) THEN NoNode ELSE s[i + 1]
      BY <2>2, <3>1, <1>0
    <3>3. QED BY <3>1, <3>2
  <2>3. CASE j >= i
    <3>1. j + 1 \in 1 .. Len(s) /\ r[j] = s[j + 1] /\ j + 1 # i /\ j + 1 # i - 1
      BY <2>3, <1>0
    <3>2. nx2[s[j + 1]] = IF j + 1 = Len(s) THEN NoNode ELSE s[(j + 1) + 1]
      BY <3>1, <1>0
    <3>3. j # Len(r) => r[j + 1] = s[(j + 1) + 1]
      <4>1. j \in 1 .. Len(s) - 1
        BY <1>r
      <4>2. j # Len(r) => j + 1 \in 1 .. Len(s) - 1 /\ ~ (j + 1 < i)
        BY ONLY <2>3, <4>1, <1>r
      <4>3. QED BY ONLY <4>2, <1>r
    <3>4. QED BY <3>1, <3>2, <3>3, <1>0
  <2>4. QED BY <2>1, <2>2, <2>3, <1>0
<1>4. ASSUME NEW j \in 1 .. Len(r) PROVE pv2[r[j]] = IF j = 1 THEN NoNode ELSE r[j - 1]
  <2>1. CASE j < i
    <3>1. j \in 1 .. Len(s) /\ r[j] = s[j] /\ (j # 1 => r[j - 1] = s[j - 1])
      BY <2>1, <1>0
    <3>2. pv2[s[j]] = IF j = 1 THEN NoNode ELSE s[j - 1]
      BY <2>1, <3>1, <1>0
    <3>3. QED BY <3>1, <3>2
  <2>2. CASE j = i
    <3>1. i + 1 \in 1 .. Len(s) /\ r[j] = s[i + 1] /\ (j # 1 => r[j - 1] = s[i - 1])
      BY <2>2, <1>0
    <3>2. pv2[s[i + 1]] = pv[s[i]]
      BY <3>1, <1>0
    <3>3. QED BY <2>2, <3>1, <3>2, <1>0
  <2>3. CASE j > i
    <3>0. j \in 1 .. Len(s) - 1
      BY <1>r
    <3>1. j + 1 \in 1 .. Len(s) /\ r[j] = s[j + 1] /\ j # 1 /\ r[j - 1] = s[(j + 1) - 1] /\ j + 1 # 1
          /\ j + 1 # i /\ j + 1 # i + 1
      <4>1. /\ j + 1 \in 1 .. Len(s) /\ j # 1 /\ j + 1 # 1 /\ j + 1 # i /\ j + 1 # i + 1
            /\ j - 1 \in 1 .. Len(s) - 1 /\ ~ (j < i) /\ ~ (j - 1 < i) /\ (j - 1) + 1 = (j + 1) - 1
        BY ONLY <2>3, <3>0, <1>r
      <4>2. QED BY ONLY <3>0, <4>1, <1>r
    <3>2. pv2[s[j + 1]] = s[(j + 1) - 1]
      BY <3>1, <1>0
    <3>3. QED BY <3>1, <3>2
  <2>4. QED BY <2>1, <2>2, <2>3, <1>0
<1>5. Len(r) = 0 => /\ i = 1 /\ i = Len(s)
                    /\ nx[s[i]] = NoNode /\ pv[s[i]] = NoNode
  <2> SUFFICES ASSUME Len(r) = 0 PROVE /\ i = 1 /\ i = Len(s)
                                       /\ nx[s[i]] = NoNode /\ pv[s[i]] = NoNode
    OBVIOUS
  <2>1. i = 1 /\ i = Len(s)
    <3>1. Len(s) \in Nat /\ Len(s) - 1 = 0
      BY <1>0
    <3>2. Len(s) = 1
      BY <3>1
    <3>3. QED BY <3>2
  <2>2. QED BY <2>1, <1>0
<1>6. Len(r) # 0 => /\ r[1] = IF i = 1 THEN nx[s[i]] ELSE fst
                    /\ r[Len(r)] = IF i = Len(s) THEN pv[s[i]] ELSE tl
  <2> SUFFICES ASSUME Len(r) # 0 PROVE /\ r[1] = IF i = 1 THEN nx[s[i]] ELSE fst
                                       /\ r[Len(r)] = IF i = Len(s) THEN pv[s[i]] ELSE tl
    OBVIOUS
  <2>1. /\ 1 \in 1 .. Len(s) - 1 /\ 1 # Len(s) /\ Len(s) # 0
        /\ Len(s) - 1 \in 1 .. Len(s) - 1 /\ Len(s) \in 1 .. Len(s)
    BY <1>r
  <2>2. r[1] = (IF i = 1 THEN s[1 + 1] ELSE s[1]) /\ r[Len(r)] = IF i = Len(s) THEN s[Len(s) - 1] ELSE s[Len(s)]
    <3>1. r[1] = (IF 1 < i THEN s[1] ELSE s[1 + 1]) /\ (1 < i <=> i # 1)
      BY ONLY <2>1, <1>r
    <3>2. r[Len(s) - 1] = IF Len(s) - 1 < i THEN s[Len(s) - 1] ELSE s[(Len(s) - 1) + 1]
      BY ONLY <2>1, <1>r
    <3>3. (Len(s) - 1 < i <=> i = Len(s)) /\ (Len(s) - 1) + 1 = Len(s)
      BY ONLY <1>r
    <3>4. QED BY ONLY <3>1, <3>2, <3>3, <1>r
  <2>3. fst = s[1] /\ tl = s[Len(s)] /\ nx[s[1]] = s[1 + 1] /\ pv[s[Len(s)]] = s[Len(s) - 1]
    BY ONLY <2>1, <1>0
  <2>4. QED BY ONLY <2>2, <2>3
<1>7. \A j, k \in 1 .. Len(r) : r[j] = r[k] => j = k
  BY <1>2
<1>8. \A j \in 1 .. Len(r) : /\ nx2[r[j]] = IF j = Len(r) THEN NoNode ELSE r[j + 1]
                            /\ pv2[r[j]] = IF j = 1 THEN NoNode ELSE r[j - 1]
  BY <1>3, <1>4
<1>9. QED BY <1>5, <1>6, <1>7, <1>8 DEF Chain

(* Two chains become one. *)
LEMMA ChainJoined ==
  ASSUME NEW s, NEW t, NEW nx, NEW pv, NEW f1, NEW t1, NEW f2, NEW t2,
         Chain(s, nx, pv, f1, t1), Chain(t, nx, pv, f2, t2), NodesIn(s) \cap NodesIn(t) = {},
         Len(s) # 0, Len(t) # 0, NEW nx2, NEW pv2,
         \A n \in LnkNodes : nx2[n] = IF n = t1 THEN f2 ELSE nx[n],
         \A n \in LnkNodes : pv2[n] = IF n = f2 THEN t1 ELSE pv[n]
  PROVE  Chain(s \o t, nx2, pv2, f1, t2)
<1> DEFINE r == s \o t
<1>1. /\ s \in Seq(LnkNodes) /\ Len(s) \in Nat
      /\ \A j \in 1 .. Len(s) : s[j] \in LnkNodes
      /\ \A j, k \in 1 .. Len(s) : s[j] = s[k] => j = k
      /\ f1 = s[1] /\ t1 = s[Len(s)]
      /\ \A j \in 1 .. Len(s) : nx[s[j]] = IF j = Len(s) THEN NoNode ELSE s[j + 1]
      /\ \A j \in 1 .. Len(s) : pv[s[j]] = IF j = 1 THEN NoNode ELSE s[j - 1]
  BY ChainFacts
<1>2. /\ t \in Seq(LnkNodes) /\ Len(t) \in Nat
      /\ \A j \in 1 .. Len(t) : t[j] \in LnkNodes
      /\ \A j, k \in 1 .. Len(t) : t[j] = t[k] => j = k
      /\ f2 = t[1] /\ t2 = t[Len(t)]
      /\ \A j \in 1 .. Len(t) : nx[t[j]] = IF j = Len(t) THEN NoNode ELSE t[j + 1]
      /\ \A j \in 1 .. Len(t) : pv[t[j]] = IF j = 1 THEN NoNode ELSE t[j - 1]
  BY ChainFacts
<1>3. /\ r \in Seq(LnkNodes) /\ Len(r) = Len(s) + Len(t)
      /\ \A j \in 1 .. Len(s) + Len(t) : r[j] = IF j <= Len(s) THEN s[j] ELSE t[j - Len(s)]
  BY <1>1, <1>2, ConcatProperties
<1> HIDE DEF r
<1>4. \A j \in 1 .. Len(s), k \in 1 .. Len(t) : s[j] # t[k]
  BY DEF NodesIn
<1>0. Len(s) \in Nat /\ Len(t) \in Nat /\ Len(r) = Len(s) + Len(t)
  BY <1>1, <1>2, <1>3
<1>5. ASSUME NEW j \in 1 .. Len(s) PROVE j \in 1 .. Len(r) /\ r[j] = s[j]
  <2>1. j \in 1 .. Len(s) + Len(t) /\ j <= Len(s)
    BY <1>0
  <2>2. QED BY <2>1, <1>0, <1>3
<1>6. ASSUME NEW k \in 1 .. Len(t) PROVE Len(s) + k \in 1 .. Len(r) /\ r[Len(s) + k] = t[k]
  <2>1. Len(s) + k \in 1 .. Len(s) + Len(t) /\ ~ (Len(s) + k <= Len(s)) /\ (Len(s) + k) - Len(s) = k
    BY <1>0
  <2>2. QED BY <2>1, <1>0, <1>3
<1>7. \A j \in 1 .. Len(r) : j \in 1 .. Len(s) \/ \E k \in 1 .. Len(t) : j = Len(s) + k
  <2> SUFFICES ASSUME NEW j \in 1 .. Len(r), j \notin 1 .. Len(s)
               PROVE  j - Len(s) \in 1 .. Len(t) /\ j = Len(s) + (j - Len(s))
    OBVIOUS
  <2>1. QED BY <1>1, <1>2, <1>3
<1>8. ASSUME NEW j \in 1 .. Len(r), NEW k \in 1 .. Len(r), r[j] = r[k] PROVE j = k
  <2>1. CASE j \in 1 .. Len(s) /\ k \in 1 .. Len(s)
    BY <2>1, <1>1, <1>5, <1>8
  <2>2. CASE j \in 1 .. Len(s) /\ k \notin 1 .. Len(s)
    <3>1. PICK n \in 1 .. Len(t) : k = Len(s) + n  BY <2>2, <1>7
    <3>2. QED BY <2>2, <3>1, <1>4, <1>5, <1>6, <1>8
  <2>3. CASE j \notin 1 .. Len(s) /\ k \in 1 .. Len(s)
    <3>1. PICK n \in 1 .. Len(t) : j = Len(s) + n  BY <2>3, <1>7
    <3>2. QED BY <2>3, <3>1, <1>4, <1>5, <1>6, <1>8
  <2>4. CASE j \notin 1 .. Len(s) /\ k \notin 1 .. Len(s)
    <3>1. PICK n \in 1 .. Len(t) : j = Len(s) + n  BY <2>4, <1>7
    <3>2. PICK m \in 1 .. Len(t) : k = Len(s) + m  BY <2>4, <1>7
    <3>3. t[n] = t[m]  BY <3>1, <3>2, <1>6, <1>8
    <3>4. QED BY <3>1, <3>2, <3>3, <1>2
  <2>5. QED BY <2>1, <2>2, <2>3, <2>4
<1>9. ASSUME NEW j \in 1 .. Len(r) PROVE nx2[r[j]] = IF j = Len(r) THEN NoNode ELSE r[j + 1]
  <2>1. CASE j \in 1 .. Len(s) /\ j # Len(s)
    <3>1. s[j] # t1 /\ j + 1 \in 1 .. Len(s) /\ j # Len(r)
      BY <2>1, <1>1, <1>2, <1>3
    <3>2. r[j] = s[j] /\ r[j + 1] = s[j + 1] /\ s[j] \in LnkNodes
      BY <2>1, <3>1, <1>1, <1>5
    <3>3. QED BY <2>1, <3>1, <3>2, <1>1
  <2>2. CASE j = Len(s)
    <3>1. r[j] = t1 /\ t1 \in LnkNodes /\ 1 \in 1 .. Len(t) /\ j # Len(r)
      BY <2>2, <1>1, <1>2, <1>3, <1>5
    <3>2. r[j + 1] = f2
      BY <2>2, <3>1, <1>2, <1>6
    <3>3. QED BY <3>1, <3>2
  <2>3. CASE j \notin 1 .. Len(s)
    <3>1. PICK n \in 1 .. Len(t) : j = Len(s) + n  BY <2>3, <1>7
    <3>2. r[j] = t[n] /\ t[n] \in LnkNodes /\ t[n] # t1
      <4>1. Len(s) \in 1 .. Len(s) /\ t1 = s[Len(s)]
        BY <1>0, <1>1
      <4>2. t[n] \in LnkNodes
        BY <1>2
      <4>3. QED BY <3>1, <4>1, <4>2, <1>4, <1>6
    <3>3. nx2[r[j]] = IF n = Len(t) THEN NoNode ELSE t[n + 1]
      BY <3>2, <1>2
    <3>4. j = Len(r) <=> n = Len(t)
      BY <3>1, <1>0
    <3>5. ASSUME n # Len(t) PROVE r[j + 1] = t[n + 1]
      <4>1. n + 1 \in 1 .. Len(t) /\ j + 1 = Len(s) + (n + 1)
        BY <3>1, <3>5, <1>1, <1>2
      <4>2. QED BY <4>1, <1>6
    <3>6. QED BY <3>3, <3>4, <3>5
  <2>4. QED BY <2>1, <2>2, <2>3
<1>10. ASSUME NEW j \in 1 .. Len(r) PROVE pv2[r[j]] = IF j = 1 THEN NoNode ELSE r[j - 1]
  <2>1. CASE j \in 1 .. Len(s)
    <3>1. r[j] = s[j] /\ s[j] \in LnkNodes /\ s[j] # f2
      <4>1. 1 \in 1 .. Len(t)  BY <1>2
      <4>2. QED BY <2>1, <4>1, <1>1, <1>2, <1>4, <1>5
    <3>2. j # 1 => j - 1 \in 1 .. Len(s)
      BY <2>1, <1>1
    <3>3. QED BY <2>1, <3>1, <3>2, <1>1, <1>5
  <2>2. CASE j \notin 1 .. Len(s)
    <3>1. PICK n \in 1 .. Len(t) : j = Len(s) + n  BY <2>2, <1>7
    <3>2. r[j] = t[n] /\ t[n] \in LnkNodes /\ j # 1
      BY <3>1, <1>1, <1>2, <1>6
    <3>3. CASE n = 1
      <4>1. r[j] = f2 /\ Len(s) \in 1 .. Len(s) /\ j - 1 = Len(s)
        BY <3>1, <3>2, <3>3, <1>1, <1>2
      <4>2. QED BY <3>2, <4>1, <1>1, <1>2, <1>5
    <3>4. CASE n # 1
      <4>1. t[n] # f2 /\ n - 1 \in 1 .. Len(t) /\ j - 1 = Len(s) + (n - 1)
        BY <3>1, <3>4, <1>1, <1>2
      <4>2. r[j - 1] = t[n - 1]
        BY <4>1, <1>6
      <4>3. QED BY <3>2, <3>4, <4>1, <4>2, <1>2
    <3>5. QED BY <3>3, <3>4
  <2>3. QED BY <2>1, <2>2
<1>11. Len(r) # 0 /\ r[1] = f1 /\ r[Len(r)] = t2
  <2>1. 1 \in 1 .. Len(s) /\ Len(t) \in 1 .. Len(t)
    BY <1>1, <1>2
  <2>2. QED BY <2>1, <1>1, <1>2, <1>3, <1>5, <1>6
<1>12. \A j, k \in 1 .. Len(r) : r[j] = r[k] => j = k
  BY <1>8
<1>13. \A j \in 1 .. Len(r) : /\ nx2[r[j]] = IF j = Len(r) THEN NoNode ELSE r[j + 1]
                             /\ pv2[r[j]] = IF j = 1 THEN NoNode ELSE r[j - 1]
  BY <1>9, <1>10
<1>14. Chain(r, nx2, pv2, f1, t2)
  BY <1>3, <1>11, <1>12, <1>13 DEF Chain
<1>15. QED BY <1>14 DEF r

-----------------------------------------------------------------------------
(* Lists *)

LEMMA LinkedIs ==
  ASSUME NEW f \in [LnkNodes -> NodeOrNull], NEW x, NEW y \in NodeOrNull
  PROVE  /\ Linked(f, x, y) \in [LnkNodes -> NodeOrNull]
         /\ \A n \in LnkNodes : Linked(f, x, y)[n] = IF n = x THEN y ELSE f[n]
BY DEF Linked

LEMMA NotListed ==
  ASSUME LnkInv, NEW x, x \notin Listed, NEW l \in Lists
  PROVE  x \notin NodesIn(listed[l])
<1>1. listed[l] \in Seq(LnkNodes)
  BY DEF LnkInv, LnkType
<1>2. Range(listed[l]) = NodesIn(listed[l])
  BY <1>1, RangeNodes
<1>3. QED BY <1>2 DEF Listed

(* The place of a node in the list it is in. *)
LEMMA PlaceOfIs ==
  ASSUME LnkInv, NEW l \in Lists, NEW x \in Range(listed[l])
  PROVE  PlaceOf(l, x) \in 1 .. Len(listed[l]) /\ listed[l][PlaceOf(l, x)] = x
<1>1. listed[l] \in Seq(LnkNodes)
  BY DEF LnkInv, LnkType
<1>2. DOMAIN listed[l] = 1 .. Len(listed[l]) /\ \E i \in DOMAIN listed[l] : listed[l][i] = x
  BY <1>1, RangeNodes DEF NodesIn
<1>3. QED BY <1>2 DEF PlaceOf

(* A call that gives the list l the nodes it had and nodes of no list, and *)
(* sets no link of a node in another list, keeps the invariant.            *)
LEMMA OneList ==
  ASSUME LnkInv, LnkType', NEW l \in Lists,
         Chain(listed'[l], next', prev', first'[l], tail'[l]),
         nodeCnt'[l] = Len(listed'[l]),
         maxNode[l] # 0 => nodeCnt'[l] <= maxNode[l],
         maxNode' = maxNode,
         \A k \in Lists \ {l} :
            /\ listed'[k] = listed[k] /\ nodeCnt'[k] = nodeCnt[k]
            /\ first'[k] = first[k] /\ tail'[k] = tail[k]
            /\ NodesIn(listed'[l]) \cap NodesIn(listed[k]) = {}
            /\ \A n \in NodesIn(listed[k]) : next'[n] = next[n] /\ prev'[n] = prev[n]
  PROVE  LnkInv'
<1>1. ASSUME NEW k \in Lists PROVE ListOK(k)'
  <2>1. CASE k = l
    BY <2>1 DEF ListOK
  <2>2. CASE k # l
    <3>1. Chain(listed[k], next, prev, first[k], tail[k])
      BY DEF LnkInv, ListOK
    <3>2. Chain(listed[k], next', prev', first[k], tail[k])
      BY <2>2, <3>1, ChainKept
    <3>3. QED BY <2>2, <3>2 DEF LnkInv, ListOK
  <2>3. QED BY <2>1, <2>2
<1>2. Apart'
  <2> SUFFICES ASSUME NEW k \in Lists, NEW m \in Lists, k # m
               PROVE  NodesIn(listed'[k]) \cap NodesIn(listed'[m]) = {}
    BY DEF Apart
  <2>1. CASE k = l             BY <2>1
  <2>2. CASE m = l             BY <2>2
  <2>3. CASE k # l /\ m # l    BY <2>3 DEF LnkInv, Apart
  <2>4. QED BY <2>1, <2>2, <2>3
<1>3. QED BY <1>1, <1>2 DEF LnkInv

(* What the inserts come to: x gets the place i. *)
LEMMA Inserted ==
  ASSUME LnkInv, NEW l \in Lists, NEW x \in LnkNodes, x \notin Listed, HasRoom(l),
         NEW i \in 1 .. Len(listed[l]) + 1, NEW seq \in Seq(LnkNodes), Counted(l, seq),
         Len(seq) = Len(listed[l]) + 1,
         \A j \in 1 .. Len(listed[l]) + 1 :
            seq[j] = IF j < i THEN listed[l][j] ELSE IF j = i THEN x ELSE listed[l][j - 1],
         next' \in [LnkNodes -> NodeOrNull], prev' \in [LnkNodes -> NodeOrNull],
         next'[x] = IF i = Len(listed[l]) + 1 THEN NoNode ELSE listed[l][i],
         prev'[x] = IF i = 1 THEN NoNode ELSE listed[l][i - 1],
         \A n \in LnkNodes \ {x} :
            /\ next'[n] = IF i # 1 /\ n = listed[l][i - 1] THEN x ELSE next[n]
            /\ prev'[n] = IF i # Len(listed[l]) + 1 /\ n = listed[l][i] THEN x ELSE prev[n],
         first' = IF i = 1 THEN [first EXCEPT ![l] = x] ELSE first,
         tail' = IF i = Len(listed[l]) + 1 THEN [tail EXCEPT ![l] = x] ELSE tail
  PROVE  LnkInv'
<1> DEFINE s == listed[l]
<1>1. /\ s \in Seq(LnkNodes) /\ Len(s) \in Nat
      /\ \A j \in 1 .. Len(s) : s[j] \in LnkNodes
      /\ LnkType /\ ListOK(l)
  BY DEF LnkInv, LnkType
<1>2. listed'[l] = seq /\ nodeCnt'[l] = Len(s) + 1 /\ maxNode' = maxNode /\ LnkType'
  BY <1>1 DEF Counted, LnkType, ListOK, NodeOrNull
<1>3. x \notin NodesIn(s)
  BY NotListed
<1>4. Chain(s, next, prev, first[l], tail[l])
  BY <1>1 DEF ListOK
<1>5. \A j, k \in 1 .. Len(s) : s[j] = s[k] => j = k
  BY <1>4 DEF Chain
<1>6. \A j \in 1 .. Len(s) : s[j] # x
  BY <1>3 DEF NodesIn
<1>7. /\ i \in 1 .. Len(s) + 1 /\ Len(seq) = Len(s) + 1
      /\ \A j \in 1 .. Len(s) + 1 : seq[j] = IF j < i THEN s[j] ELSE IF j = i THEN x ELSE s[j - 1]
      /\ next'[x] = IF i = Len(s) + 1 THEN NoNode ELSE s[i]
      /\ prev'[x] = IF i = 1 THEN NoNode ELSE s[i - 1]
      /\ \A n \in LnkNodes \ {x} :
            /\ next'[n] = IF i # 1 /\ n = s[i - 1] THEN x ELSE next[n]
            /\ prev'[n] = IF i # Len(s) + 1 /\ n = s[i] THEN x ELSE prev[n]
  OBVIOUS
<1>8. first'[l] = (IF i = 1 THEN x ELSE first[l]) /\ tail'[l] = (IF i = Len(s) + 1 THEN x ELSE tail[l])
  BY <1>1 DEF LnkType
<1>9. Chain(seq, next', prev', first'[l], tail'[l])
  <2> HIDE DEF s
  <2>1. ASSUME NEW j \in 1 .. Len(s) PROVE i # 1 /\ s[j] = s[i - 1] <=> j = i - 1
    <3>1. i # 1 => i - 1 \in 1 .. Len(s)
      BY <1>1, <1>7
    <3>2. i = 1 => j # i - 1
      BY <1>1
    <3>3. QED BY <3>1, <3>2, <1>5
  <2>2. ASSUME NEW j \in 1 .. Len(s) PROVE i # Len(s) + 1 /\ s[j] = s[i] <=> j = i
    <3>1. i # Len(s) + 1 => i \in 1 .. Len(s)
      BY <1>1, <1>7
    <3>2. i = Len(s) + 1 => j # i
      BY <1>1
    <3>3. QED BY <3>1, <3>2, <1>5
  <2>3. ASSUME NEW j \in 1 .. Len(s) PROVE s[j] \in LnkNodes \ {x}
    BY <1>1, <1>6
  <2>4. \A j \in 1 .. Len(s) : next'[s[j]] = IF j = i - 1 THEN x ELSE next[s[j]]
    BY <2>1, <2>3, <1>7
  <2>5. \A j \in 1 .. Len(s) : prev'[s[j]] = IF j = i THEN x ELSE prev[s[j]]
    BY <2>2, <2>3, <1>7
  <2>6. seq \in Seq(LnkNodes) /\ x \in LnkNodes
    OBVIOUS
  <2>7. LnkWith(s, i, x, seq, next, prev, next', prev')
    BY ONLY <2>4, <2>5, <2>6, <1>3, <1>7 DEF LnkWith
  <2>8. QED BY ONLY <2>7, <1>4, <1>8, ChainInserted
<1>10. maxNode[l] # 0 => nodeCnt'[l] <= maxNode[l]
  BY <1>1, <1>2 DEF HasRoom, ListOK, LnkType
<1>11. ASSUME NEW k \in Lists \ {l}
       PROVE  /\ listed'[k] = listed[k] /\ nodeCnt'[k] = nodeCnt[k]
              /\ first'[k] = first[k] /\ tail'[k] = tail[k]
              /\ NodesIn(seq) \cap NodesIn(listed[k]) = {}
              /\ \A n \in NodesIn(listed[k]) : next'[n] = next[n] /\ prev'[n] = prev[n]
  <2>1. /\ listed'[k] = listed[k] /\ nodeCnt'[k] = nodeCnt[k]
        /\ first'[k] = first[k] /\ tail'[k] = tail[k]
    BY <1>1 DEF Counted, LnkType
  <2>2. x \notin NodesIn(listed[k]) /\ NodesIn(s) \cap NodesIn(listed[k]) = {}
    BY NotListed DEF LnkInv, Apart
  <2>3. NodesIn(seq) \subseteq NodesIn(s) \cup {x}
    <3> HIDE DEF s
    <3> SUFFICES ASSUME NEW n \in NodesIn(seq) PROVE n \in NodesIn(s) \cup {x}
      OBVIOUS
    <3>0. PICK j \in 1 .. Len(s) + 1 : n = seq[j]
      BY <1>7 DEF NodesIn
    <3>1. CASE j < i
      <4>1. j \in 1 .. Len(s) /\ seq[j] = s[j]  BY <3>1, <1>1, <1>7
      <4>2. QED BY <4>1, <3>0 DEF NodesIn
    <3>2. CASE j = i
      BY <3>2, <3>0, <1>7, <1>1
    <3>3. CASE j > i
      <4>1. j - 1 \in 1 .. Len(s) /\ seq[j] = s[j - 1]  BY <3>3, <1>1, <1>7
      <4>2. QED BY <4>1, <3>0, ZenonT(60) DEF NodesIn
    <3>4. QED BY <3>1, <3>2, <3>3, <1>1, <1>7
  <2>4. NodesIn(listed[k]) \subseteq LnkNodes
    BY DEF LnkInv, LnkType, NodesIn
  <2>5. (i # 1 => s[i - 1] \in NodesIn(s)) /\ (i # Len(s) + 1 => s[i] \in NodesIn(s))
    BY <1>1 DEF NodesIn
  <2>6. QED BY <2>1, <2>2, <2>3, <2>4, <2>5
<1>12. QED BY <1>2, <1>9, <1>10, <1>11, OneList

(* What the removals come to: the node at the place i goes. *)
Gone(l, i, x, seq) ==
  /\ i \in 1 .. Len(listed[l]) /\ x = listed[l][i]
  /\ seq \in Seq(LnkNodes) /\ Len(seq) = Len(listed[l]) - 1 /\ Uncounted(l, seq)
  /\ \A j \in 1 .. Len(listed[l]) - 1 :
        seq[j] = IF j < i THEN listed[l][j] ELSE listed[l][j + 1]
  /\ next' \in [LnkNodes -> NodeOrNull] /\ prev' \in [LnkNodes -> NodeOrNull]
  /\ \A n \in LnkNodes \ {x} :
        /\ next'[n] = IF i # 1 /\ n = listed[l][i - 1] THEN next[x] ELSE next[n]
        /\ prev'[n] = IF i # Len(listed[l]) /\ n = listed[l][i + 1] THEN prev[x] ELSE prev[n]
  /\ first' = IF i = 1 THEN [first EXCEPT ![l] = next[x]] ELSE first
  /\ tail' = IF i = Len(listed[l]) THEN [tail EXCEPT ![l] = prev[x]] ELSE tail

LEMMA Removed ==
  ASSUME LnkInv, NEW l \in Lists, NEW i, NEW x, NEW seq, Gone(l, i, x, seq)
  PROVE  LnkInv'
<1> DEFINE s == listed[l]
<1> USE DEF Gone
<1>1. /\ s \in Seq(LnkNodes) /\ Len(s) \in Nat
      /\ \A j \in 1 .. Len(s) : s[j] \in LnkNodes
      /\ LnkType /\ ListOK(l)
  BY DEF LnkInv, LnkType
<1>2. x \in LnkNodes /\ next[x] \in NodeOrNull /\ prev[x] \in NodeOrNull
  BY <1>1 DEF LnkType
<1>3. listed'[l] = seq /\ nodeCnt'[l] = Len(s) - 1 /\ maxNode' = maxNode /\ LnkType'
  BY <1>1, <1>2 DEF Uncounted, LnkType, ListOK
<1>4. Chain(s, next, prev, first[l], tail[l])
  BY <1>1 DEF ListOK
<1>5. \A j, k \in 1 .. Len(s) : s[j] = s[k] => j = k
  BY <1>4 DEF Chain
<1>6. /\ i \in 1 .. Len(s) /\ Len(seq) = Len(s) - 1 /\ x = s[i]
      /\ \A j \in 1 .. Len(s) - 1 : seq[j] = IF j < i THEN s[j] ELSE s[j + 1]
      /\ \A n \in LnkNodes \ {x} :
            /\ next'[n] = IF i # 1 /\ n = s[i - 1] THEN next[x] ELSE next[n]
            /\ prev'[n] = IF i # Len(s) /\ n = s[i + 1] THEN prev[x] ELSE prev[n]
  OBVIOUS
<1>7. /\ first'[l] = (IF i = 1 THEN next[s[i]] ELSE first[l])
      /\ tail'[l] = (IF i = Len(s) THEN prev[s[i]] ELSE tail[l])
  BY <1>1 DEF LnkType
<1>8. Chain(seq, next', prev', first'[l], tail'[l])
  <2> HIDE DEF s
  <2>1. ASSUME NEW j \in 1 .. Len(s) PROVE i # 1 /\ s[j] = s[i - 1] <=> j = i - 1
    <3>1. i # 1 => i - 1 \in 1 .. Len(s)
      BY <1>1, <1>6
    <3>2. i = 1 => j # i - 1
      BY <1>1
    <3>3. QED BY <3>1, <3>2, <1>5
  <2>2. ASSUME NEW j \in 1 .. Len(s) PROVE i # Len(s) /\ s[j] = s[i + 1] <=> j = i + 1
    <3>1. i # Len(s) => i + 1 \in 1 .. Len(s)
      BY <1>1, <1>6
    <3>2. i = Len(s) => j # i + 1
      BY <1>1
    <3>3. QED BY <3>1, <3>2, <1>5
  <2>3. ASSUME NEW j \in 1 .. Len(s), j # i PROVE s[j] \in LnkNodes \ {x}
    BY <2>3, <1>1, <1>5, <1>6
  <2>4. \A j \in 1 .. Len(s) : j # i => next'[s[j]] = IF j = i - 1 THEN next[s[i]] ELSE next[s[j]]
    BY <2>1, <2>3, <1>6
  <2>5. \A j \in 1 .. Len(s) : j # i => prev'[s[j]] = IF j = i + 1 THEN prev[s[i]] ELSE prev[s[j]]
    BY <2>2, <2>3, <1>6
  <2>6. /\ i \in 1 .. Len(s) /\ Len(seq) = Len(s) - 1
        /\ \A j \in 1 .. Len(s) - 1 : seq[j] = IF j < i THEN s[j] ELSE s[j + 1]
    BY <1>6
  <2>7. seq \in Seq(LnkNodes)
    OBVIOUS
  <2>8. LnkWithout(s, i, seq, next, prev, next', prev')
    BY ONLY <2>4, <2>5, <2>6, <2>7 DEF LnkWithout
  <2>9. QED BY ONLY <2>8, <1>4, <1>7, ChainRemoved
<1>9. maxNode[l] # 0 => nodeCnt'[l] <= maxNode[l]
  BY <1>1, <1>3 DEF ListOK, LnkType
<1>10. ASSUME NEW k \in Lists \ {l}
       PROVE  /\ listed'[k] = listed[k] /\ nodeCnt'[k] = nodeCnt[k]
              /\ first'[k] = first[k] /\ tail'[k] = tail[k]
              /\ NodesIn(seq) \cap NodesIn(listed[k]) = {}
              /\ \A n \in NodesIn(listed[k]) : next'[n] = next[n] /\ prev'[n] = prev[n]
  <2>1. /\ listed'[k] = listed[k] /\ nodeCnt'[k] = nodeCnt[k]
        /\ first'[k] = first[k] /\ tail'[k] = tail[k]
    BY <1>1 DEF Uncounted, LnkType
  <2>2. NodesIn(s) \cap NodesIn(listed[k]) = {}
    BY DEF LnkInv, Apart
  <2>3. NodesIn(seq) \subseteq NodesIn(s)
    <3> HIDE DEF s, Gone
    <3>1. ASSUME NEW j \in 1 .. Len(s) - 1 PROVE seq[j] \in NodesIn(s)
      <4>1. j \in 1 .. Len(s) /\ j + 1 \in 1 .. Len(s)
        BY <1>1
      <4>2. seq[j] = s[j] \/ seq[j] = s[j + 1]
        BY <1>6
      <4>3. QED BY <4>1, <4>2 DEF NodesIn
    <3>2. \A n \in NodesIn(seq) : \E j \in 1 .. Len(s) - 1 : n = seq[j]
      BY <1>6 DEF NodesIn
    <3>3. QED BY <3>1, <3>2
  <2>4. NodesIn(listed[k]) \subseteq LnkNodes
    BY DEF LnkInv, LnkType, NodesIn
  <2>5. x \in NodesIn(s) /\ (i # 1 => s[i - 1] \in NodesIn(s)) /\ (i # Len(s) => s[i + 1] \in NodesIn(s))
    BY <1>1 DEF NodesIn
  <2>6. QED BY <2>1, <2>2, <2>3, <2>4, <2>5
<1>11. QED BY <1>3, <1>8, <1>9, <1>10, OneList, SMTT(30)

(* What the appends come to: the list dst gets the nodes of both.          *)
LEMMA Appended ==
  ASSUME LnkInv, NEW dst \in Lists, NEW src \in Lists, dst # src, Takes(dst, src),
         NEW seq, NEW fst \in NodeOrNull, NEW tl \in NodeOrNull, MoveAll(dst, src, fst, tl, seq),
         Chain(seq, next', prev', fst, tl),
         Len(seq) = Len(listed[dst]) + Len(listed[src]),
         NodesIn(seq) \subseteq NodesIn(listed[dst]) \cup NodesIn(listed[src]),
         next' \in [LnkNodes -> NodeOrNull], prev' \in [LnkNodes -> NodeOrNull],
         \A n \in LnkNodes \ (NodesIn(listed[dst]) \cup NodesIn(listed[src])) :
            next'[n] = next[n] /\ prev'[n] = prev[n]
  PROVE  LnkInv'
<1>1. LnkType /\ seq \in Seq(LnkNodes)
  BY DEF LnkInv, Chain
<1>2. /\ Len(seq) = nodeCnt[dst] + nodeCnt[src]
      /\ nodeCnt[dst] \in Nat /\ nodeCnt[src] \in Nat /\ maxNode[dst] \in Nat
  BY DEF LnkInv, ListOK, LnkType
<1>3. LnkType'
  <2>1. first' \in [Lists -> NodeOrNull] /\ tail' \in [Lists -> NodeOrNull]
    BY <1>1 DEF MoveAll, LnkType, NodeOrNull
  <2>2. listed' \in [Lists -> Seq(LnkNodes)]
    <3>1. << >> \in Seq(LnkNodes)
      OBVIOUS
    <3>2. QED BY <3>1, <1>1 DEF MoveAll, LnkType
  <2>3. nodeCnt' \in [Lists -> Nat] /\ maxNode' \in [Lists -> Nat]
    <3>1. nodeCnt[dst] + nodeCnt[src] \in Nat
      BY <1>1 DEF LnkType
    <3>2. QED BY <3>1, <1>1 DEF MoveAll, LnkType
  <2>4. QED BY <2>1, <2>2, <2>3 DEF LnkType
<1>4. /\ listed'[dst] = seq /\ nodeCnt'[dst] = Len(seq) /\ first'[dst] = fst /\ tail'[dst] = tl
      /\ listed'[src] = << >> /\ nodeCnt'[src] = 0 /\ first'[src] = NoNode /\ tail'[src] = NoNode
      /\ maxNode' = maxNode
  BY <1>1, <1>2 DEF MoveAll, LnkType
<1>5. ASSUME NEW k \in Lists \ {dst, src}
      PROVE  /\ listed'[k] = listed[k] /\ nodeCnt'[k] = nodeCnt[k]
             /\ first'[k] = first[k] /\ tail'[k] = tail[k]
             /\ NodesIn(seq) \cap NodesIn(listed[k]) = {}
             /\ \A n \in NodesIn(listed[k]) : next'[n] = next[n] /\ prev'[n] = prev[n]
  <2>1. /\ listed'[k] = listed[k] /\ nodeCnt'[k] = nodeCnt[k]
        /\ first'[k] = first[k] /\ tail'[k] = tail[k]
    BY <1>1 DEF MoveAll, LnkType
  <2>2. NodesIn(listed[dst]) \cap NodesIn(listed[k]) = {} /\ NodesIn(listed[src]) \cap NodesIn(listed[k]) = {}
    BY DEF LnkInv, Apart
  <2>3. NodesIn(listed[k]) \subseteq LnkNodes
    BY DEF LnkInv, LnkType, NodesIn
  <2>4. QED BY <2>1, <2>2, <2>3
<1>6. NodesIn(<< >>) = {}
  BY DEF NodesIn
<1>7. ASSUME NEW k \in Lists PROVE ListOK(k)'
  <2>1. CASE k = dst
    <3>1. maxNode[dst] # 0 => Len(seq) <= maxNode[dst]
      <4>1. nodeCnt[src] + nodeCnt[dst] <= maxNode[dst]
        BY DEF Takes
      <4>2. Len(seq) = nodeCnt[src] + nodeCnt[dst]
        BY ONLY <1>2
      <4>3. QED BY <4>1, <4>2
    <3>2. QED BY <2>1, <3>1, <1>4 DEF ListOK
  <2>2. CASE k = src
    <3>1. Chain(<< >>, next', prev', NoNode, NoNode)
      BY DEF Chain
    <3>2. maxNode[src] \in Nat
      BY <1>1 DEF LnkType
    <3>3. QED BY <2>2, <3>1, <3>2, <1>4 DEF ListOK
  <2>3. CASE k # dst /\ k # src
    <3>1. Chain(listed[k], next, prev, first[k], tail[k])
      BY DEF LnkInv, ListOK
    <3>2. Chain(listed[k], next', prev', first[k], tail[k])
      BY <2>3, <3>1, <1>5, ChainKept
    <3>3. QED BY <2>3, <3>2, <1>4, <1>5 DEF LnkInv, ListOK
  <2>4. QED BY <2>1, <2>2, <2>3
<1>8. Apart'
  <2> SUFFICES ASSUME NEW k \in Lists, NEW m \in Lists, k # m
               PROVE  NodesIn(listed'[k]) \cap NodesIn(listed'[m]) = {}
    BY DEF Apart
  <2>1. CASE k = src \/ m = src  BY <2>1, <1>4, <1>6
  <2>2. CASE k = dst /\ m # src  BY <2>2, <1>4, <1>5
  <2>3. CASE m = dst /\ k # src  BY <2>3, <1>4, <1>5
  <2>4. CASE k \notin {dst, src} /\ m \notin {dst, src}
    BY <2>4, <1>5 DEF LnkInv, Apart
  <2>5. QED BY <2>1, <2>2, <2>3, <2>4
<1>9. QED BY <1>3, <1>7, <1>8 DEF LnkInv

-----------------------------------------------------------------------------
(* The calls *)

(* What a call knows of its list and of a new node.                        *)
LEMMA ListFacts ==
  ASSUME LnkInv, NEW l \in Lists
  PROVE  /\ listed[l] \in Seq(LnkNodes) /\ Len(listed[l]) \in Nat
         /\ \A i \in 1 .. Len(listed[l]) : listed[l][i] \in LnkNodes /\ listed[l][i] # NoNode
         /\ \A i, j \in 1 .. Len(listed[l]) : listed[l][i] = listed[l][j] => i = j
         /\ nodeCnt[l] = Len(listed[l])
         /\ first[l] = IF Len(listed[l]) = 0 THEN NoNode ELSE listed[l][1]
         /\ tail[l] = IF Len(listed[l]) = 0 THEN NoNode ELSE listed[l][Len(listed[l])]
         /\ \A i \in 1 .. Len(listed[l]) :
               /\ next[listed[l][i]] = IF i = Len(listed[l]) THEN NoNode ELSE listed[l][i + 1]
               /\ prev[listed[l][i]] = IF i = 1 THEN NoNode ELSE listed[l][i - 1]
         /\ \A x \in LnkNodes : x \notin Listed => \A i \in 1 .. Len(listed[l]) : listed[l][i] # x
         /\ next \in [LnkNodes -> NodeOrNull] /\ prev \in [LnkNodes -> NodeOrNull]
         /\ first[l] \in NodeOrNull /\ tail[l] \in NodeOrNull
<1>1. LnkType /\ ListOK(l)
  BY DEF LnkInv
<1>2. /\ listed[l] \in Seq(LnkNodes) /\ Len(listed[l]) \in Nat
      /\ \A i \in 1 .. Len(listed[l]) : listed[l][i] \in LnkNodes /\ listed[l][i] # NoNode
  BY <1>1, LnkAssumption DEF LnkAssumption, LnkType
<1>3. \A x \in LnkNodes : x \notin Listed => \A i \in 1 .. Len(listed[l]) : listed[l][i] # x
  BY NotListed DEF NodesIn
<1>4. QED BY <1>1, <1>2, <1>3 DEF LnkType, ListOK, Chain

LEMMA InsertFirstStep ==
  ASSUME LnkInv, NEW l \in Lists, NEW x \in LnkNodes, InsertFirst(l, x) PROVE LnkInv'
<1> DEFINE s == listed[l]
           seq == <<x>> \o s
           i == 1
<1>1. x \notin Listed /\ HasRoom(l) /\ Counted(l, seq)
  BY DEF InsertFirst
<1>2. /\ seq \in Seq(LnkNodes) /\ Len(seq) = Len(s) + 1
      /\ \A j \in 1 .. Len(s) + 1 : seq[j] = IF j < i THEN s[j] ELSE IF j = i THEN x ELSE s[j - 1]
  <2>1. <<x>> \in Seq(LnkNodes) /\ Len(<<x>>) = 1 /\ <<x>>[1] = x
    OBVIOUS
  <2>2. s \in Seq(LnkNodes) /\ Len(s) \in Nat
    BY ListFacts
  <2>3. QED BY <2>1, <2>2, ConcatProperties
<1>3. /\ next' = Linked(next, x, first[l]) /\ prev' = Linked(Linked(prev, x, NoNode), first[l], x)
      /\ first' = [first EXCEPT ![l] = x]
      /\ tail' = IF first[l] # NoNode THEN tail ELSE [tail EXCEPT ![l] = x]
  BY DEF InsertFirst
<1>4. /\ next \in [LnkNodes -> NodeOrNull] /\ prev \in [LnkNodes -> NodeOrNull] /\ first[l] \in NodeOrNull
      /\ Linked(prev, x, NoNode) \in [LnkNodes -> NodeOrNull]
  BY ListFacts, LinkedIs DEF NodeOrNull
<1>5. /\ next' \in [LnkNodes -> NodeOrNull] /\ prev' \in [LnkNodes -> NodeOrNull]
      /\ \A n \in LnkNodes : next'[n] = IF n = x THEN first[l] ELSE next[n]
      /\ \A n \in LnkNodes : prev'[n] = IF n = first[l] THEN x ELSE IF n = x THEN NoNode ELSE prev[n]
  BY <1>3, <1>4, LinkedIs DEF NodeOrNull
<1>6. /\ Len(s) \in Nat /\ first[l] # x
      /\ Len(s) = 0 => first[l] = NoNode
      /\ Len(s) # 0 => first[l] = s[1] /\ first[l] # NoNode /\ 1 \in 1 .. Len(s)
      /\ NoNode \notin LnkNodes
  BY <1>1, ListFacts, LnkAssumption DEF LnkAssumption
<1>7. i \in 1 .. Len(s) + 1 /\ (i = Len(s) + 1 <=> Len(s) = 0)
  BY <1>6
<1>8. /\ next'[x] = IF i = Len(s) + 1 THEN NoNode ELSE s[i]
      /\ prev'[x] = IF i = 1 THEN NoNode ELSE s[i - 1]
      /\ \A n \in LnkNodes \ {x} :
            /\ next'[n] = IF i # 1 /\ n = s[i - 1] THEN x ELSE next[n]
            /\ prev'[n] = IF i # Len(s) + 1 /\ n = s[i] THEN x ELSE prev[n]
  BY <1>5, <1>6, <1>7
<1>9. /\ first' = IF i = 1 THEN [first EXCEPT ![l] = x] ELSE first
      /\ tail' = IF i = Len(s) + 1 THEN [tail EXCEPT ![l] = x] ELSE tail
  BY <1>3, <1>6, <1>7
<1> HIDE DEF seq, i
<1>10. QED BY <1>1, <1>2, <1>5, <1>7, <1>8, <1>9, Inserted

LEMMA InsertTailStep ==
  ASSUME LnkInv, NEW l \in Lists, NEW x \in LnkNodes, InsertTail(l, x) PROVE LnkInv'
<1> DEFINE s == listed[l]
           seq == Append(s, x)
           i == Len(s) + 1
<1>1. x \notin Listed /\ HasRoom(l) /\ Counted(l, seq)
  BY DEF InsertTail
<1>2. /\ seq \in Seq(LnkNodes) /\ Len(seq) = Len(s) + 1
      /\ \A j \in 1 .. Len(s) + 1 : seq[j] = IF j < i THEN s[j] ELSE IF j = i THEN x ELSE s[j - 1]
  <2>1. s \in Seq(LnkNodes) /\ Len(s) \in Nat
    BY ListFacts
  <2>2. QED BY <2>1, AppendProperties
<1>3. /\ next' = Linked(Linked(next, x, NoNode), tail[l], x) /\ prev' = Linked(prev, x, tail[l])
      /\ tail' = [tail EXCEPT ![l] = x]
      /\ first' = IF tail[l] # NoNode THEN first ELSE [first EXCEPT ![l] = x]
  BY DEF InsertTail
<1>4. /\ next \in [LnkNodes -> NodeOrNull] /\ prev \in [LnkNodes -> NodeOrNull] /\ tail[l] \in NodeOrNull
      /\ Linked(next, x, NoNode) \in [LnkNodes -> NodeOrNull]
  BY ListFacts, LinkedIs DEF NodeOrNull
<1>5. /\ next' \in [LnkNodes -> NodeOrNull] /\ prev' \in [LnkNodes -> NodeOrNull]
      /\ \A n \in LnkNodes : prev'[n] = IF n = x THEN tail[l] ELSE prev[n]
      /\ \A n \in LnkNodes : next'[n] = IF n = tail[l] THEN x ELSE IF n = x THEN NoNode ELSE next[n]
  BY <1>3, <1>4, LinkedIs DEF NodeOrNull
<1>6. /\ Len(s) \in Nat /\ tail[l] # x
      /\ Len(s) = 0 => tail[l] = NoNode
      /\ Len(s) # 0 => tail[l] = s[Len(s)] /\ tail[l] # NoNode /\ Len(s) \in 1 .. Len(s)
      /\ NoNode \notin LnkNodes
  BY <1>1, ListFacts, LnkAssumption DEF LnkAssumption
<1>7. i \in 1 .. Len(s) + 1 /\ (i = 1 <=> Len(s) = 0) /\ i - 1 = Len(s)
  BY <1>6
<1>8. /\ next'[x] = IF i = Len(s) + 1 THEN NoNode ELSE s[i]
      /\ prev'[x] = IF i = 1 THEN NoNode ELSE s[i - 1]
      /\ \A n \in LnkNodes \ {x} :
            /\ next'[n] = IF i # 1 /\ n = s[i - 1] THEN x ELSE next[n]
            /\ prev'[n] = IF i # Len(s) + 1 /\ n = s[i] THEN x ELSE prev[n]
  BY <1>5, <1>6, <1>7
<1>9. /\ first' = IF i = 1 THEN [first EXCEPT ![l] = x] ELSE first
      /\ tail' = IF i = Len(s) + 1 THEN [tail EXCEPT ![l] = x] ELSE tail
  BY <1>3, <1>6, <1>7
<1> HIDE DEF seq, i
<1>10. QED BY <1>1, <1>2, <1>5, <1>7, <1>8, <1>9, Inserted, ZenonT(60)

LEMMA InsertNextStep ==
  ASSUME LnkInv, NEW l \in Lists, NEW org \in LnkNodes, NEW x \in LnkNodes, InsertNextNode(l, org, x)
  PROVE  LnkInv'
<1> DEFINE s == listed[l]
           p == PlaceOf(l, org)
           i == p + 1
           seq == InsertAt(s, i, x)
<1>1. x \notin Listed /\ HasRoom(l) /\ Counted(l, seq) /\ org \in Range(s)
  BY DEF InsertNextNode
<1>2. p \in 1 .. Len(s) /\ s[p] = org
  BY <1>1, PlaceOfIs
<1>3. /\ next' = Linked(Linked(next, org, x), x, next[org])
      /\ prev' = Linked(Linked(prev, x, org), next[org], x)
      /\ tail' = IF next[org] = NoNode THEN [tail EXCEPT ![l] = x] ELSE tail
      /\ first' = first
  BY DEF InsertNextNode
<1> HIDE DEF p
<1>4. /\ s \in Seq(LnkNodes) /\ Len(s) \in Nat /\ i \in 1 .. Len(s) + 1 /\ i # 1 /\ i - 1 = p
      /\ NoNode \notin LnkNodes /\ (i = Len(s) + 1 <=> p = Len(s)) /\ (p # Len(s) => i \in 1 .. Len(s))
  BY <1>2, ListFacts, LnkAssumption DEF LnkAssumption
<1>5. /\ seq \in Seq(LnkNodes) /\ Len(seq) = Len(s) + 1
      /\ \A j \in 1 .. Len(s) + 1 : seq[j] = IF j < i THEN s[j] ELSE IF j = i THEN x ELSE s[j - 1]
  <2> HIDE DEF i, s
  <2>1. x \in LnkNodes
    OBVIOUS
  <2>2. QED BY ONLY <1>4, <2>1, LnkInsertAtIs DEF seq
<1>6. /\ next[org] = IF p = Len(s) THEN NoNode ELSE s[i]
      /\ org # x
      /\ p # Len(s) => s[i] # x /\ s[i] \in LnkNodes
  BY <1>1, <1>2, <1>4, ListFacts
<1>7. /\ next \in [LnkNodes -> NodeOrNull] /\ prev \in [LnkNodes -> NodeOrNull] /\ next[org] \in NodeOrNull
      /\ Linked(next, org, x) \in [LnkNodes -> NodeOrNull]
      /\ Linked(prev, x, org) \in [LnkNodes -> NodeOrNull]
  BY ListFacts, LinkedIs DEF NodeOrNull
<1>8. /\ next' \in [LnkNodes -> NodeOrNull] /\ prev' \in [LnkNodes -> NodeOrNull]
      /\ \A n \in LnkNodes : next'[n] = IF n = x THEN next[org] ELSE IF n = org THEN x ELSE next[n]
      /\ \A n \in LnkNodes : prev'[n] = IF n = next[org] THEN x ELSE IF n = x THEN org ELSE prev[n]
  BY <1>3, <1>7, LinkedIs DEF NodeOrNull
<1>9. /\ next'[x] = IF i = Len(s) + 1 THEN NoNode ELSE s[i]
      /\ prev'[x] = IF i = 1 THEN NoNode ELSE s[i - 1]
      /\ \A n \in LnkNodes \ {x} :
            /\ next'[n] = IF i # 1 /\ n = s[i - 1] THEN x ELSE next[n]
            /\ prev'[n] = IF i # Len(s) + 1 /\ n = s[i] THEN x ELSE prev[n]
  <2> HIDE DEF i, s
  <2>1. next'[x] = IF i = Len(s) + 1 THEN NoNode ELSE s[i]
    BY <1>4, <1>6, <1>8
  <2>2. prev'[x] = IF i = 1 THEN NoNode ELSE s[i - 1]
    BY <1>2, <1>4, <1>6, <1>8
  <2>3. ASSUME NEW n \in LnkNodes \ {x}
        PROVE  next'[n] = IF i # 1 /\ n = s[i - 1] THEN x ELSE next[n]
    BY <1>2, <1>4, <1>8
  <2>4. ASSUME NEW n \in LnkNodes \ {x}
        PROVE  prev'[n] = IF i # Len(s) + 1 /\ n = s[i] THEN x ELSE prev[n]
    BY <1>4, <1>6, <1>8
  <2>5. QED BY <2>1, <2>2, <2>3, <2>4
<1>10. /\ first' = IF i = 1 THEN [first EXCEPT ![l] = x] ELSE first
       /\ tail' = IF i = Len(s) + 1 THEN [tail EXCEPT ![l] = x] ELSE tail
  <2>1. next[org] = NoNode <=> i = Len(s) + 1
    BY <1>4, <1>6
  <2>2. QED BY <2>1, <1>3, <1>4
<1> HIDE DEF seq, i
<1>11. QED BY <1>1, <1>4, <1>5, <1>8, <1>9, <1>10, Inserted

LEMMA InsertPrevStep ==
  ASSUME LnkInv, NEW l \in Lists, NEW org \in LnkNodes, NEW x \in LnkNodes, InsertPrevNode(l, org, x)
  PROVE  LnkInv'
<1> DEFINE s == listed[l]
           i == PlaceOf(l, org)
           seq == InsertAt(s, i, x)
<1>1. x \notin Listed /\ HasRoom(l) /\ Counted(l, seq) /\ org \in Range(s)
  BY DEF InsertPrevNode
<1>2. i \in 1 .. Len(s) /\ s[i] = org
  BY <1>1, PlaceOfIs
<1>3. /\ prev' = Linked(Linked(prev, org, x), x, prev[org])
      /\ next' = Linked(Linked(next, x, org), prev[org], x)
      /\ first' = IF prev[org] = NoNode THEN [first EXCEPT ![l] = x] ELSE first
      /\ tail' = tail
  BY DEF InsertPrevNode
<1> HIDE DEF i
<1>4. /\ s \in Seq(LnkNodes) /\ Len(s) \in Nat /\ i \in 1 .. Len(s) + 1 /\ i # Len(s) + 1
      /\ NoNode \notin LnkNodes /\ (i # 1 => i - 1 \in 1 .. Len(s))
  BY <1>2, ListFacts, LnkAssumption DEF LnkAssumption
<1>5. /\ seq \in Seq(LnkNodes) /\ Len(seq) = Len(s) + 1
      /\ \A j \in 1 .. Len(s) + 1 : seq[j] = IF j < i THEN s[j] ELSE IF j = i THEN x ELSE s[j - 1]
  <2> HIDE DEF s
  <2>1. QED BY <1>4, LnkInsertAtIs
<1>6. /\ prev[org] = IF i = 1 THEN NoNode ELSE s[i - 1]
      /\ org # x
      /\ i # 1 => s[i - 1] # x /\ s[i - 1] \in LnkNodes
  BY <1>1, <1>2, <1>4, ListFacts
<1>7. /\ next \in [LnkNodes -> NodeOrNull] /\ prev \in [LnkNodes -> NodeOrNull] /\ prev[org] \in NodeOrNull
      /\ Linked(prev, org, x) \in [LnkNodes -> NodeOrNull]
      /\ Linked(next, x, org) \in [LnkNodes -> NodeOrNull]
  BY ListFacts, LinkedIs DEF NodeOrNull
<1>8. /\ next' \in [LnkNodes -> NodeOrNull] /\ prev' \in [LnkNodes -> NodeOrNull]
      /\ \A n \in LnkNodes : prev'[n] = IF n = x THEN prev[org] ELSE IF n = org THEN x ELSE prev[n]
      /\ \A n \in LnkNodes : next'[n] = IF n = prev[org] THEN x ELSE IF n = x THEN org ELSE next[n]
  BY <1>3, <1>7, LinkedIs DEF NodeOrNull
<1>9. /\ next'[x] = IF i = Len(s) + 1 THEN NoNode ELSE s[i]
      /\ prev'[x] = IF i = 1 THEN NoNode ELSE s[i - 1]
      /\ \A n \in LnkNodes \ {x} :
            /\ next'[n] = IF i # 1 /\ n = s[i - 1] THEN x ELSE next[n]
            /\ prev'[n] = IF i # Len(s) + 1 /\ n = s[i] THEN x ELSE prev[n]
  <2> HIDE DEF s
  <2>1. next'[x] = IF i = Len(s) + 1 THEN NoNode ELSE s[i]
    BY <1>2, <1>4, <1>6, <1>8
  <2>2. prev'[x] = IF i = 1 THEN NoNode ELSE s[i - 1]
    BY <1>4, <1>6, <1>8
  <2>3. ASSUME NEW n \in LnkNodes \ {x}
        PROVE  next'[n] = IF i # 1 /\ n = s[i - 1] THEN x ELSE next[n]
    BY <1>4, <1>6, <1>8
  <2>4. ASSUME NEW n \in LnkNodes \ {x}
        PROVE  prev'[n] = IF i # Len(s) + 1 /\ n = s[i] THEN x ELSE prev[n]
    BY <1>2, <1>4, <1>8
  <2>5. QED BY <2>1, <2>2, <2>3, <2>4
<1>10. /\ first' = IF i = 1 THEN [first EXCEPT ![l] = x] ELSE first
       /\ tail' = IF i = Len(s) + 1 THEN [tail EXCEPT ![l] = x] ELSE tail
  <2>1. prev[org] = NoNode <=> i = 1
    BY <1>4, <1>6
  <2>2. QED BY <2>1, <1>3, <1>4
<1> HIDE DEF seq
<1>11. QED BY <1>1, <1>4, <1>5, <1>8, <1>9, <1>10, Inserted

LEMMA LnkNeighbours ==
  ASSUME NEW n \in Nat, n # 0
  PROVE  (1 # n => 1 + 1 \in 1 .. n) /\ (n # 1 => n - 1 \in 1 .. n)
OBVIOUS

LEMMA GetFirstStep ==
  ASSUME LnkInv, NEW l \in Lists, GetFirst(l) PROVE LnkInv'
<1> DEFINE s == listed[l]
           i == 1
           x == first[l]
           seq == Tail(s)
<1>1. nodeCnt[l] # 0 /\ Uncounted(l, seq)
  BY DEF GetFirst
<1>2. /\ s \in Seq(LnkNodes) /\ Len(s) \in Nat /\ Len(s) # 0 /\ i \in 1 .. Len(s)
      /\ x = s[i] /\ x \in LnkNodes /\ NoNode \notin LnkNodes
  BY <1>1, ListFacts, LnkAssumption DEF LnkAssumption
<1>3. /\ first' = [first EXCEPT ![l] = next[x]]
      /\ tail' = IF next[x] = NoNode THEN [tail EXCEPT ![l] = NoNode] ELSE tail
      /\ prev' = Linked(prev, next[x], NoNode) /\ next' = Linked(next, x, NoNode)
  BY DEF GetFirst
<1>f. /\ \A j \in 1 .. Len(s) : s[j] \in LnkNodes /\ s[j] # NoNode
      /\ \A j \in 1 .. Len(s) : /\ next[s[j]] = IF j = Len(s) THEN NoNode ELSE s[j + 1]
                               /\ prev[s[j]] = IF j = 1 THEN NoNode ELSE s[j - 1]
  BY ListFacts
<1>4. /\ next[x] = IF i = Len(s) THEN NoNode ELSE s[i + 1]
      /\ prev[x] = NoNode
      /\ i # Len(s) => i + 1 \in 1 .. Len(s) /\ s[i + 1] # NoNode
  <2> HIDE DEF x, s
  <2>1. Len(s) \in Nat /\ Len(s) # 0
    BY ONLY <1>2
  <2>2. (i # Len(s) => i + 1 \in 1 .. Len(s)) /\ i = 1
    BY ONLY <2>1, LnkNeighbours
  <2> HIDE DEF i
  <2>3. QED BY ONLY <1>2, <1>f, <2>2
<1>5. /\ seq \in Seq(LnkNodes) /\ Len(seq) = Len(s) - 1
      /\ \A j \in 1 .. Len(s) - 1 : seq[j] = IF j < i THEN s[j] ELSE s[j + 1]
  <2>1. s # << >>
    BY <1>2
  <2>2. /\ seq \in Seq(LnkNodes) /\ Len(seq) = Len(s) - 1
        /\ \A j \in 1 .. Len(seq) : seq[j] = s[j + 1]
    BY <1>2, <2>1, HeadTailProperties
  <2>3. QED BY <1>2, <2>2
<1>6. /\ next' \in [LnkNodes -> NodeOrNull] /\ prev' \in [LnkNodes -> NodeOrNull]
      /\ \A n \in LnkNodes : next'[n] = IF n = x THEN NoNode ELSE next[n]
      /\ \A n \in LnkNodes : prev'[n] = IF n = next[x] THEN NoNode ELSE prev[n]
  <2>1. next \in [LnkNodes -> NodeOrNull] /\ prev \in [LnkNodes -> NodeOrNull]
    BY ListFacts
  <2>2. QED BY <1>3, <2>1, LinkedIs DEF NodeOrNull
<1> HIDE DEF seq, x
<1>7. \A n \in LnkNodes \ {x} :
         /\ next'[n] = IF i # 1 /\ n = s[i - 1] THEN next[x] ELSE next[n]
         /\ prev'[n] = IF i # Len(s) /\ n = s[i + 1] THEN prev[x] ELSE prev[n]
  BY <1>2, <1>4, <1>6
<1>8. /\ first' = IF i = 1 THEN [first EXCEPT ![l] = next[x]] ELSE first
      /\ tail' = IF i = Len(s) THEN [tail EXCEPT ![l] = prev[x]] ELSE tail
  <2>1. next[x] = NoNode <=> i = Len(s)
    BY <1>4
  <2>2. QED BY <2>1, <1>3, <1>4
<1> HIDE DEF i
<1>9. Gone(l, i, x, seq)
  BY <1>1, <1>2, <1>5, <1>6, <1>7, <1>8 DEF Gone
<1>10. QED BY <1>9, Removed

LEMMA GetTailStep ==
  ASSUME LnkInv, NEW l \in Lists, GetTail(l) PROVE LnkInv'
<1> DEFINE s == listed[l]
           i == Len(s)
           x == tail[l]
           seq == Front(s)
<1>1. nodeCnt[l] # 0 /\ Uncounted(l, seq)
  BY DEF GetTail
<1>2. /\ s \in Seq(LnkNodes) /\ Len(s) \in Nat /\ Len(s) # 0 /\ i \in 1 .. Len(s)
      /\ x = s[i] /\ x \in LnkNodes /\ NoNode \notin LnkNodes
  BY <1>1, ListFacts, LnkAssumption DEF LnkAssumption
<1>3. /\ tail' = [tail EXCEPT ![l] = prev[x]]
      /\ first' = IF prev[x] = NoNode THEN [first EXCEPT ![l] = NoNode] ELSE first
      /\ next' = Linked(next, prev[x], NoNode) /\ prev' = Linked(prev, x, NoNode)
  BY DEF GetTail
<1>f. /\ \A j \in 1 .. Len(s) : s[j] \in LnkNodes /\ s[j] # NoNode
      /\ \A j \in 1 .. Len(s) : /\ next[s[j]] = IF j = Len(s) THEN NoNode ELSE s[j + 1]
                               /\ prev[s[j]] = IF j = 1 THEN NoNode ELSE s[j - 1]
  BY ListFacts
<1>4. /\ prev[x] = IF i = 1 THEN NoNode ELSE s[i - 1]
      /\ next[x] = NoNode
      /\ i # 1 => i - 1 \in 1 .. Len(s) /\ s[i - 1] # NoNode
  <2> HIDE DEF x, s
  <2>1. Len(s) \in Nat /\ Len(s) # 0
    BY ONLY <1>2
  <2>2. (i # 1 => i - 1 \in 1 .. Len(s)) /\ i = Len(s)
    BY ONLY <2>1, LnkNeighbours
  <2> HIDE DEF i
  <2>3. QED BY ONLY <1>2, <1>f, <2>2
<1>5. /\ seq \in Seq(LnkNodes) /\ Len(seq) = Len(s) - 1
      /\ \A j \in 1 .. Len(s) - 1 : seq[j] = IF j < i THEN s[j] ELSE s[j + 1]
  <2>1. \A j \in 1 .. Len(s) - 1 : s[j] \in LnkNodes
    BY <1>2, ListFacts
  <2>2. /\ SubSeq(s, 1, Len(s) - 1) \in Seq(LnkNodes)
        /\ Len(SubSeq(s, 1, Len(s) - 1)) = IF 1 <= Len(s) - 1 THEN (Len(s) - 1) - 1 + 1 ELSE 0
        /\ \A j \in 1 .. (Len(s) - 1) - 1 + 1 : SubSeq(s, 1, Len(s) - 1)[j] = s[1 + j - 1]
    BY <1>2, <2>1, SubSeqProperties
  <2>3. QED BY <1>2, <2>2 DEF Front
<1>6. /\ next' \in [LnkNodes -> NodeOrNull] /\ prev' \in [LnkNodes -> NodeOrNull]
      /\ \A n \in LnkNodes : prev'[n] = IF n = x THEN NoNode ELSE prev[n]
      /\ \A n \in LnkNodes : next'[n] = IF n = prev[x] THEN NoNode ELSE next[n]
  <2>1. next \in [LnkNodes -> NodeOrNull] /\ prev \in [LnkNodes -> NodeOrNull]
    BY ListFacts
  <2>2. QED BY <1>3, <2>1, LinkedIs DEF NodeOrNull
<1> HIDE DEF seq, x
<1>7. \A n \in LnkNodes \ {x} :
         /\ next'[n] = IF i # 1 /\ n = s[i - 1] THEN next[x] ELSE next[n]
         /\ prev'[n] = IF i # Len(s) /\ n = s[i + 1] THEN prev[x] ELSE prev[n]
  <2> HIDE DEF s
  <2>1. QED BY <1>2, <1>4, <1>6
<1>8. /\ first' = IF i = 1 THEN [first EXCEPT ![l] = next[x]] ELSE first
      /\ tail' = IF i = Len(s) THEN [tail EXCEPT ![l] = prev[x]] ELSE tail
  <2>1. prev[x] = NoNode <=> i = 1
    BY <1>4
  <2>2. QED BY <2>1, <1>3, <1>4
<1> HIDE DEF i
<1>9. Gone(l, i, x, seq)
  BY <1>1, <1>2, <1>5, <1>6, <1>7, <1>8 DEF Gone
<1>10. QED BY <1>9, Removed

LEMMA DelStep ==
  ASSUME LnkInv, NEW l \in Lists, NEW x \in LnkNodes, Del(l, x) PROVE LnkInv'
<1> DEFINE s == listed[l]
           i == PlaceOf(l, x)
           seq == RemoveAt(s, i)
<1>1. nodeCnt[l] # 0 /\ Uncounted(l, seq) /\ x \in Range(s)
  BY DEF Del
<1>2. i \in 1 .. Len(s) /\ s[i] = x
  BY <1>1, PlaceOfIs
<1>3. /\ first' = IF prev[x] = NoNode THEN [first EXCEPT ![l] = next[x]] ELSE first
      /\ tail' = IF next[x] = NoNode THEN [tail EXCEPT ![l] = prev[x]] ELSE tail
      /\ prev' = Linked(Linked(prev, next[x], prev[x]), x, NoNode)
      /\ next' = Linked(Linked(next, prev[x], next[x]), x, NoNode)
  BY DEF Del
<1> HIDE DEF i
<1>4. s \in Seq(LnkNodes) /\ Len(s) \in Nat /\ NoNode \notin LnkNodes
  BY ListFacts, LnkAssumption DEF LnkAssumption
<1>5. /\ seq \in Seq(LnkNodes) /\ Len(seq) = Len(s) - 1
      /\ \A j \in 1 .. Len(s) - 1 : seq[j] = IF j < i THEN s[j] ELSE s[j + 1]
  BY <1>2, <1>4, RemoveAtIs
<1>6. /\ next[x] = IF i = Len(s) THEN NoNode ELSE s[i + 1]
      /\ prev[x] = IF i = 1 THEN NoNode ELSE s[i - 1]
      /\ i # Len(s) => i + 1 \in 1 .. Len(s) /\ s[i + 1] # NoNode
      /\ i # 1 => i - 1 \in 1 .. Len(s) /\ s[i - 1] # NoNode
  BY <1>2, <1>4, ListFacts
<1>7. /\ next' \in [LnkNodes -> NodeOrNull] /\ prev' \in [LnkNodes -> NodeOrNull]
      /\ \A n \in LnkNodes : prev'[n] = IF n = x THEN NoNode ELSE IF n = next[x] THEN prev[x] ELSE prev[n]
      /\ \A n \in LnkNodes : next'[n] = IF n = x THEN NoNode ELSE IF n = prev[x] THEN next[x] ELSE next[n]
  <2>1. /\ next \in [LnkNodes -> NodeOrNull] /\ prev \in [LnkNodes -> NodeOrNull]
        /\ next[x] \in NodeOrNull /\ prev[x] \in NodeOrNull
    BY ListFacts
  <2>2. /\ Linked(prev, next[x], prev[x]) \in [LnkNodes -> NodeOrNull]
        /\ Linked(next, prev[x], next[x]) \in [LnkNodes -> NodeOrNull]
    BY <2>1, LinkedIs
  <2>3. QED BY <1>3, <2>1, <2>2, LinkedIs DEF NodeOrNull
<1> HIDE DEF seq
<1>8. \A n \in LnkNodes \ {x} :
         /\ next'[n] = IF i # 1 /\ n = s[i - 1] THEN next[x] ELSE next[n]
         /\ prev'[n] = IF i # Len(s) /\ n = s[i + 1] THEN prev[x] ELSE prev[n]
  <2> HIDE DEF s
  <2>1. QED BY <1>2, <1>4, <1>6, <1>7
<1>9. /\ first' = IF i = 1 THEN [first EXCEPT ![l] = next[x]] ELSE first
      /\ tail' = IF i = Len(s) THEN [tail EXCEPT ![l] = prev[x]] ELSE tail
  <2>1. (prev[x] = NoNode <=> i = 1) /\ (next[x] = NoNode <=> i = Len(s))
    BY <1>6
  <2>2. QED BY <2>1, <1>3
<1>10. Gone(l, i, x, seq)
  BY <1>1, <1>2, <1>5, <1>7, <1>8, <1>9 DEF Gone
<1>11. QED BY <1>10, Removed

LEMMA AppendFirstStep ==
  ASSUME LnkInv, NEW dst \in Lists, NEW src \in Lists, AppendFirst(dst, src) PROVE LnkInv'
<1> DEFINE s == listed[src]
           t == listed[dst]
<1>1. dst # src /\ Takes(dst, src) /\ nodeCnt[src] # 0
  BY DEF AppendFirst
<1>2. /\ next \in [LnkNodes -> NodeOrNull] /\ prev \in [LnkNodes -> NodeOrNull]
      /\ s \in Seq(LnkNodes) /\ t \in Seq(LnkNodes) /\ Len(s) \in Nat /\ Len(t) \in Nat
      /\ first[dst] \in NodeOrNull /\ tail[dst] \in NodeOrNull
      /\ first[src] \in NodeOrNull /\ tail[src] \in NodeOrNull
      /\ nodeCnt[dst] = Len(listed[dst]) /\ nodeCnt[src] = Len(listed[src])
  BY ListFacts
<1>3. /\ Chain(s, next, prev, first[src], tail[src]) /\ Chain(t, next, prev, first[dst], tail[dst])
      /\ NodesIn(s) \cap NodesIn(t) = {}
  BY <1>1 DEF LnkInv, ListOK, Apart
<1>4. CASE nodeCnt[dst] = 0
  <2>1. MoveAll(dst, src, first[src], tail[src], listed[src]) /\ next' = next /\ prev' = prev
    BY <1>4 DEF AppendFirst
  <2>2. Chain(listed[src], next', prev', first[src], tail[src])
    BY <1>3, <2>1
  <2>3. Len(listed[src]) = Len(listed[dst]) + Len(listed[src])
    BY <1>2, <1>4
  <2>4. QED BY <1>1, <1>2, <2>1, <2>2, <2>3, Appended
<1>5. CASE nodeCnt[dst] # 0
  <2> DEFINE r == s \o t
  <2>1. /\ MoveAll(dst, src, first[src], tail[dst], r)
        /\ next' = Linked(next, tail[src], first[dst]) /\ prev' = Linked(prev, first[dst], tail[src])
    BY <1>5 DEF AppendFirst
  <2>2. /\ next' \in [LnkNodes -> NodeOrNull] /\ prev' \in [LnkNodes -> NodeOrNull]
        /\ \A n \in LnkNodes : next'[n] = IF n = tail[src] THEN first[dst] ELSE next[n]
        /\ \A n \in LnkNodes : prev'[n] = IF n = first[dst] THEN tail[src] ELSE prev[n]
    BY <1>2, <2>1, LinkedIs
  <2>3. Len(s) # 0 /\ Len(t) # 0
    BY <1>1, <1>2, <1>5
  <2>4. Chain(r, next', prev', first[src], tail[dst])
    <3> HIDE DEF s, t
    <3>1. QED BY ONLY <1>3, <2>2, <2>3, ChainJoined DEF r
  <2>5. /\ Len(r) = Len(listed[dst]) + Len(listed[src])
        /\ NodesIn(r) \subseteq NodesIn(listed[dst]) \cup NodesIn(listed[src])
    <3>1. /\ Len(r) = Len(s) + Len(t)
          /\ \A j \in 1 .. Len(s) + Len(t) : r[j] = IF j <= Len(s) THEN s[j] ELSE t[j - Len(s)]
      <4> HIDE DEF s, t
      <4>1. QED BY ONLY <1>2, ConcatProperties DEF r
    <3>2. ASSUME NEW j \in 1 .. Len(s) + Len(t) PROVE r[j] \in NodesIn(s) \cup NodesIn(t)
      <4> HIDE DEF s, t, r
      <4>1. CASE j <= Len(s)
        <5>1. j \in 1 .. Len(s) /\ r[j] = s[j]
          BY <1>2, <3>1, <4>1
        <5>2. QED BY <5>1 DEF NodesIn
      <4>2. CASE ~ (j <= Len(s))
        <5>1. j - Len(s) \in 1 .. Len(t) /\ r[j] = t[j - Len(s)]
          BY <1>2, <3>1, <4>2
        <5>2. QED BY <5>1 DEF NodesIn
      <4>3. QED BY <4>1, <4>2
    <3>3. NodesIn(r) \subseteq NodesIn(s) \cup NodesIn(t)
      <4> HIDE DEF s, t, r
      <4>1. QED BY <3>1, <3>2 DEF NodesIn
    <3> HIDE DEF r
    <3>4. Len(s) + Len(t) = Len(listed[dst]) + Len(listed[src])
      <4>1. \A a, b \in Nat : a + b = b + a
        OBVIOUS
      <4>2. Len(listed[dst]) \in Nat /\ Len(listed[src]) \in Nat
        BY ONLY <1>2
      <4>3. QED BY ONLY <4>1, <4>2
    <3>5. NodesIn(s) \cup NodesIn(t) = NodesIn(listed[dst]) \cup NodesIn(listed[src])
      OBVIOUS
    <3> HIDE DEF s, t
    <3>6. QED BY ONLY <3>1, <3>3, <3>4, <3>5
  <2>6. tail[src] \in NodesIn(s) /\ first[dst] \in NodesIn(t)
    <3>1. tail[src] = s[Len(s)] /\ first[dst] = t[1] /\ Len(s) \in 1 .. Len(s) /\ 1 \in 1 .. Len(t)
      BY <1>2, <2>3, ListFacts
    <3>2. QED BY <3>1 DEF NodesIn
  <2>7. \A n \in LnkNodes \ (NodesIn(listed[dst]) \cup NodesIn(listed[src])) :
           next'[n] = next[n] /\ prev'[n] = prev[n]
    BY <2>2, <2>6
  <2> HIDE DEF r
  <2>8. QED BY <1>1, <1>2, <2>1, <2>2, <2>4, <2>5, <2>7, Appended
<1>6. QED BY <1>4, <1>5

LEMMA AppendTailStep ==
  ASSUME LnkInv, NEW dst \in Lists, NEW src \in Lists, AppendTail(dst, src) PROVE LnkInv'
<1> DEFINE s == listed[dst]
           t == listed[src]
<1>1. dst # src /\ Takes(dst, src) /\ nodeCnt[src] # 0
  BY DEF AppendTail
<1>2. /\ next \in [LnkNodes -> NodeOrNull] /\ prev \in [LnkNodes -> NodeOrNull]
      /\ s \in Seq(LnkNodes) /\ t \in Seq(LnkNodes) /\ Len(s) \in Nat /\ Len(t) \in Nat
      /\ first[dst] \in NodeOrNull /\ tail[dst] \in NodeOrNull
      /\ first[src] \in NodeOrNull /\ tail[src] \in NodeOrNull
      /\ nodeCnt[dst] = Len(listed[dst]) /\ nodeCnt[src] = Len(listed[src])
  BY ListFacts
<1>3. /\ Chain(s, next, prev, first[dst], tail[dst]) /\ Chain(t, next, prev, first[src], tail[src])
      /\ NodesIn(s) \cap NodesIn(t) = {}
  BY <1>1 DEF LnkInv, ListOK, Apart
<1>4. CASE nodeCnt[dst] = 0
  <2>1. MoveAll(dst, src, first[src], tail[src], listed[src]) /\ next' = next /\ prev' = prev
    BY <1>4 DEF AppendTail
  <2>2. Chain(listed[src], next', prev', first[src], tail[src])
    BY <1>3, <2>1
  <2>3. Len(listed[src]) = Len(listed[dst]) + Len(listed[src])
    BY <1>2, <1>4
  <2>4. QED BY <1>1, <1>2, <2>1, <2>2, <2>3, Appended
<1>5. CASE nodeCnt[dst] # 0
  <2> DEFINE r == s \o t
  <2>1. /\ MoveAll(dst, src, first[dst], tail[src], r)
        /\ next' = Linked(next, tail[dst], first[src]) /\ prev' = Linked(prev, first[src], tail[dst])
    BY <1>5 DEF AppendTail
  <2>2. /\ next' \in [LnkNodes -> NodeOrNull] /\ prev' \in [LnkNodes -> NodeOrNull]
        /\ \A n \in LnkNodes : next'[n] = IF n = tail[dst] THEN first[src] ELSE next[n]
        /\ \A n \in LnkNodes : prev'[n] = IF n = first[src] THEN tail[dst] ELSE prev[n]
    BY <1>2, <2>1, LinkedIs
  <2>3. Len(s) # 0 /\ Len(t) # 0
    BY <1>1, <1>2, <1>5
  <2>4. Chain(r, next', prev', first[dst], tail[src])
    <3> HIDE DEF s, t
    <3>1. QED BY ONLY <1>3, <2>2, <2>3, ChainJoined DEF r
  <2>5. /\ Len(r) = Len(listed[dst]) + Len(listed[src])
        /\ NodesIn(r) \subseteq NodesIn(listed[dst]) \cup NodesIn(listed[src])
    <3>1. /\ Len(r) = Len(s) + Len(t)
          /\ \A j \in 1 .. Len(s) + Len(t) : r[j] = IF j <= Len(s) THEN s[j] ELSE t[j - Len(s)]
      <4> HIDE DEF s, t
      <4>1. QED BY ONLY <1>2, ConcatProperties DEF r
    <3>2. ASSUME NEW j \in 1 .. Len(s) + Len(t) PROVE r[j] \in NodesIn(s) \cup NodesIn(t)
      <4> HIDE DEF s, t, r
      <4>1. CASE j <= Len(s)
        <5>1. j \in 1 .. Len(s) /\ r[j] = s[j]
          BY <1>2, <3>1, <4>1
        <5>2. QED BY <5>1 DEF NodesIn
      <4>2. CASE ~ (j <= Len(s))
        <5>1. j - Len(s) \in 1 .. Len(t) /\ r[j] = t[j - Len(s)]
          BY <1>2, <3>1, <4>2
        <5>2. QED BY <5>1 DEF NodesIn
      <4>3. QED BY <4>1, <4>2
    <3>3. NodesIn(r) \subseteq NodesIn(s) \cup NodesIn(t)
      <4> HIDE DEF s, t, r
      <4>1. QED BY <3>1, <3>2 DEF NodesIn
    <3> HIDE DEF r
    <3>4. Len(s) + Len(t) = Len(listed[dst]) + Len(listed[src])
      <4>1. \A a, b \in Nat : a + b = b + a
        OBVIOUS
      <4>2. Len(listed[dst]) \in Nat /\ Len(listed[src]) \in Nat
        BY ONLY <1>2
      <4>3. QED BY ONLY <4>1, <4>2
    <3>5. NodesIn(s) \cup NodesIn(t) = NodesIn(listed[dst]) \cup NodesIn(listed[src])
      OBVIOUS
    <3> HIDE DEF s, t
    <3>6. QED BY ONLY <3>1, <3>3, <3>4, <3>5
  <2>6. tail[dst] \in NodesIn(s) /\ first[src] \in NodesIn(t)
    <3>1. tail[dst] = s[Len(s)] /\ first[src] = t[1] /\ Len(s) \in 1 .. Len(s) /\ 1 \in 1 .. Len(t)
      BY <1>2, <2>3, ListFacts
    <3>2. QED BY <3>1 DEF NodesIn
  <2>7. \A n \in LnkNodes \ (NodesIn(listed[dst]) \cup NodesIn(listed[src])) :
           next'[n] = next[n] /\ prev'[n] = prev[n]
    BY <2>2, <2>6
  <2> HIDE DEF r
  <2>8. QED BY <1>1, <1>2, <2>1, <2>2, <2>4, <2>5, <2>7, Appended
<1>6. QED BY <1>4, <1>5

-----------------------------------------------------------------------------
(* The theorems *)

LEMMA LnkInitOK == LnkInit => LnkInv
<1> SUFFICES ASSUME LnkInit PROVE LnkInv
  OBVIOUS
<1>1. LnkType
  <2>1. next \in [LnkNodes -> NodeOrNull] /\ prev \in [LnkNodes -> NodeOrNull]
    BY DEF LnkInit, NodeOrNull
  <2>2. << >> \in Seq(LnkNodes) /\ MaxNodes \subseteq Nat
    BY LnkAssumption DEF LnkAssumption
  <2>3. QED BY <2>1, <2>2 DEF LnkInit, LnkType, NodeOrNull
<1>2. ASSUME NEW l \in Lists
      PROVE  /\ listed[l] = << >> /\ nodeCnt[l] = 0 /\ first[l] = NoNode /\ tail[l] = NoNode
             /\ maxNode[l] \in Nat
  BY <1>1 DEF LnkInit, LnkType
<1>3. ASSUME NEW nx, NEW pv PROVE Chain(<< >>, nx, pv, NoNode, NoNode)
  BY DEF Chain
<1>4. \A l \in Lists : ListOK(l)
  BY <1>2, <1>3 DEF ListOK
<1>5. NodesIn(<< >>) = {}
  BY DEF NodesIn
<1>6. QED BY <1>1, <1>2, <1>4, <1>5 DEF LnkInv, Apart

LEMMA LnkNextOK == LnkInv /\ [LnkNext]_lnkVars => LnkInv'
<1> SUFFICES ASSUME LnkInv, [LnkNext]_lnkVars PROVE LnkInv'
  OBVIOUS
<1>1. CASE \E dst, src \in Lists : AppendFirst(dst, src) \/ AppendTail(dst, src)
  BY <1>1, AppendFirstStep, AppendTailStep
<1>2. CASE \E l \in Lists, x \in LnkNodes : InsertFirst(l, x) \/ InsertTail(l, x) \/ Del(l, x)
  BY <1>2, InsertFirstStep, InsertTailStep, DelStep
<1>3. CASE \E l \in Lists, org, x \in LnkNodes : InsertNextNode(l, org, x) \/ InsertPrevNode(l, org, x)
  BY <1>3, InsertNextStep, InsertPrevStep
<1>4. CASE \E l \in Lists : GetFirst(l) \/ GetTail(l)
  BY <1>4, GetFirstStep, GetTailStep
<1>5. CASE UNCHANGED lnkVars
  <2>1. /\ next' = next /\ prev' = prev /\ first' = first /\ tail' = tail
        /\ nodeCnt' = nodeCnt /\ maxNode' = maxNode /\ listed' = listed
    BY <1>5 DEF lnkVars
  <2>2. LnkType'
    BY <2>1 DEF LnkInv, LnkType
  <2>3. ASSUME NEW l \in Lists PROVE ListOK(l)'
    BY <2>1 DEF LnkInv, ListOK
  <2>4. Apart'
    BY <2>1 DEF LnkInv, Apart
  <2>5. QED BY <2>2, <2>3, <2>4 DEF LnkInv
<1>6. QED BY <1>1, <1>2, <1>3, <1>4, <1>5 DEF LnkNext

LEMMA InvIsExact == LnkInv => ListsExact
<1> SUFFICES ASSUME LnkInv PROVE ListsExact
  OBVIOUS
<1>1. ASSUME NEW l \in Lists
      PROVE  /\ DOMAIN listed[l] = 1 .. Len(listed[l]) /\ Range(listed[l]) = NodesIn(listed[l])
             /\ Len(listed[l]) = 0 <=> listed[l] = << >>
  <2>1. listed[l] \in Seq(LnkNodes)
    BY ListFacts
  <2>2. QED BY <2>1, RangeNodes
<1>2. OneListEach
  <2>1. ASSUME NEW l \in Lists PROVE IsInjective(listed[l])
    <3>1. \A i, j \in 1 .. Len(listed[l]) : listed[l][i] = listed[l][j] => i = j
      BY ListFacts
    <3>2. DOMAIN listed[l] = 1 .. Len(listed[l])
      BY <1>1
    <3>3. QED BY <3>1, <3>2 DEF IsInjective
  <2>2. ASSUME NEW l \in Lists, NEW k \in Lists, l # k
        PROVE  Range(listed[l]) \cap Range(listed[k]) = {}
    <3>1. NodesIn(listed[l]) \cap NodesIn(listed[k]) = {}
      BY <2>2 DEF LnkInv, Apart
    <3>2. QED BY <3>1, <1>1
  <2>3. QED BY <2>1, <2>2 DEF OneListEach
<1>3. EndsAgree
  BY <1>1, ListFacts DEF EndsAgree
<1>4. LinksAgree
  BY <1>1, ListFacts DEF LinksAgree
<1>5. WithinLimit
  BY DEF WithinLimit, LnkInv, ListOK
<1>6. QED BY <1>2, <1>3, <1>4, <1>5 DEF ListsExact

(* Every list is a chain, and no node is in two of them, after any calls    *)
(* (the inductive invariant of comlib_lnkLst.c).                            *)
THEOREM ListsInductive == LnkSpec => []LnkInv
<1>1. QED BY LnkInitOK, LnkNextOK, PTL DEF LnkSpec

(* For any nodes, lists and limits, a walk of a list from either end meets  *)
(* exactly the nodes its callers put there, in their order, the count is    *)
(* their number and no list exceeds its limit (comlib_lnkLst.c).            *)
THEOREM ListsStayExact == LnkSpec => []ListsExact
<1>1. QED BY ListsInductive, InvIsExact, PTL

-----------------------------------------------------------------------------
(***************************************************************************)
(* RlyRlm.                                                                 *)
(*                                                                         *)
(* RlmSends and RlmReceives for any hosts, realms, rules and keys.  A send *)
(* and a receive look at one bucket per step while host threads change the *)
(* hosts: what a call has passed over is said by the hosts that were open, *)
(* or had a message, for the whole call (up and had).  That a turn comes   *)
(* follows from the sum of what a host waited and how far it is still      *)
(* ahead of the place kept (TurnsOK, WaitsOK): each call moves the place   *)
(* as far towards the host as it counts, or starts the count anew.         *)
(***************************************************************************)

(* How far i is from s, going round n places. *)
Gap(n, s, i) == IF i >= s THEN i - s ELSE i - s + n

RlmBkts == [host : Hosts, gen : Nat]
RlmType ==
  [rule : {"none", "RR", "PS", "HASH", "DHT"}, reg : Seq(RlmBkts), word : Nat, mask : Nat, nxtRcv : Nat]
HostType ==
  [live : BOOLEAN, gen : Nat, open : BOOLEAN, regs : SUBSET RlmNames, rcv : Seq({"data", "big"})]
SndType ==
  [pc : {"look", "done"}, rlm : RlmNames, start : Nat, at : Nat, left : Nat, up : SUBSET Hosts, to : Nat]
RcvType ==
  [pc : {"look", "done"}, rlm : RlmNames, at : Nat, left : Nat, had : SUBSET Hosts,
   res : {"none", "message", "error"}]

RlmTyped ==
  /\ rlmLst \in Seq(RlmNames)
  /\ rlmCb \in [RlmNames -> RlmType]
  /\ rlmHost \in [Hosts -> HostType]
  /\ sndCall \in {noCall} \cup SndType
  /\ rcvCall \in {noCall} \cup RcvType
  /\ turns \in [RlmNames -> [Hosts -> Nat]] /\ waits \in [RlmNames -> [Hosts -> Nat]]

(* The places of the buckets of a realm, and those that a rule may keep.   *)
Bkts(m) == 1 .. Len(rlmCb[m].reg)
Places(m) == IF rlmCb[m].reg = << >> THEN {1} ELSE Bkts(m)

ListOnce == \A i, j \in 1 .. Len(rlmLst) : rlmLst[i] = rlmLst[j] => i = j

(* A destroyed host has no state; a bucket is not younger than its host.   *)
HostsOK == \A h \in Hosts : ~rlmHost[h].live => ~rlmHost[h].open /\ rlmHost[h].rcv = << >>

BktsOK(m) ==
  /\ RlmListed(m) <=> rlmCb[m].rule # "none"
  /\ rlmCb[m].rule = "none" => rlmCb[m].reg = << >>
  /\ \A i, j \in Bkts(m) : rlmCb[m].reg[i].host = rlmCb[m].reg[j].host => i = j
  /\ \A i \in Bkts(m) : rlmCb[m].reg[i].gen <= rlmHost[rlmCb[m].reg[i].host].gen
  /\ \A h \in Hosts : rlmHost[h].live =>
       (m \in rlmHost[h].regs <=>
          \E i \in Bkts(m) : rlmCb[m].reg[i].host = h /\ rlmCb[m].reg[i].gen = rlmHost[h].gen)
  /\ RegCnt(m) <= MaxRegHostCnt
  /\ rlmCb[m].word \in Places(m) /\ rlmCb[m].nxtRcv \in Places(m)
  /\ rlmCb[m].mask # 0 => rlmCb[m].rule = "HASH" /\ rlmCb[m].mask = RegCnt(m) - 1

TurnsOK(m) ==
  /\ \A h \in Hosts :
       (rlmCb[m].rule # "RR" \/ ~rlmHost[h].open \/ \A i \in Bkts(m) : rlmCb[m].reg[i].host # h)
         => turns[m][h] = 0
  /\ \A i \in Bkts(m) :
       turns[m][rlmCb[m].reg[i].host] + Gap(RegCnt(m), rlmCb[m].word, i) < RegCnt(m)

WaitsOK(m) ==
  /\ \A h \in Hosts : rlmHost[h].rcv = << >> => waits[m][h] = 0
  /\ \A i \in Bkts(m) :
       waits[m][rlmCb[m].reg[i].host] + Gap(RegCnt(m), rlmCb[m].nxtRcv, i) < RegCnt(m)

(* The send is at a bucket of its realm; those it has passed were not open *)
(* all the time, and those that were not have not been passed over since.  *)
SndLook ==
  LET m == sndCall.rlm
      n == RegCnt(m)
  IN /\ sndCall.start \in Bkts(m) /\ sndCall.at \in Bkts(m) /\ sndCall.to = 0
     /\ rlmCb[m].rule = "RR" => sndCall.start = rlmCb[m].word
     /\ \/ rlmCb[m].rule = "PS" /\ sndCall.left = n + 1 /\ sndCall.at = sndCall.start
        \/ sndCall.left \in 1 .. n /\ Gap(n, sndCall.start, sndCall.at) = n - sndCall.left
     /\ \A i \in Bkts(m) :
          Gap(n, sndCall.start, i) < Gap(n, sndCall.start, sndCall.at) =>
            rlmCb[m].reg[i].host \notin sndCall.up
     /\ \A h \in Hosts : h \notin sndCall.up => turns[m][h] = 0

SndDone ==
  LET m == sndCall.rlm
      n == RegCnt(m)
  IN /\ sndCall.start \in Bkts(m) /\ sndCall.to \in 0 .. n
     /\ \A i \in Bkts(m) : rlmCb[m].reg[i].host \in sndCall.up =>
          sndCall.to # 0 /\ Gap(n, sndCall.start, sndCall.to) <= Gap(n, sndCall.start, i)

SndOK ==
  /\ sndCall.pc # "idle" =>
       /\ RlmListed(sndCall.rlm) /\ Bkts(sndCall.rlm) # {}
       /\ \A h \in sndCall.up : rlmHost[h].open
  /\ sndCall.pc = "look" => SndLook
  /\ sndCall.pc = "done" => SndDone

(* The receive has looked at all buckets once, or at those between the     *)
(* place kept and its own.                                                 *)
RcvLook ==
  LET m == rcvCall.rlm
      n == RegCnt(m)
      seen == MaxRegHostCnt - rcvCall.left
  IN /\ rcvCall.at \in Bkts(m)
     /\ rcvCall.left \in 1 .. MaxRegHostCnt
     /\ seen < n => Gap(n, rlmCb[m].nxtRcv, rcvCall.at) = seen
     /\ \A i \in Bkts(m) :
          Gap(n, rlmCb[m].nxtRcv, i) < seen => rlmCb[m].reg[i].host \notin rcvCall.had
     /\ \A i \in Bkts(m) :
          rlmCb[m].reg[i].host \notin rcvCall.had => waits[m][rlmCb[m].reg[i].host] = 0
     /\ \A h \in rcvCall.had : rlmHost[h].rcv # << >> /\ \E i \in Bkts(m) : rlmCb[m].reg[i].host = h
     /\ rcvCall.res = "none"

RcvOK ==
  /\ rcvCall.pc # "idle" => RlmListed(rcvCall.rlm) /\ Bkts(rcvCall.rlm) # {}
  /\ rcvCall.pc = "look" => RcvLook
  /\ rcvCall.pc = "done" /\ rcvCall.res = "none" => rcvCall.had = {}

RlmInv ==
  /\ RlmTyped /\ ListOnce /\ HostsOK
  /\ \A m \in RlmNames : BktsOK(m) /\ TurnsOK(m) /\ WaitsOK(m)
  /\ SndOK /\ RcvOK

(* Places around a ring of n *)
LEMMA GapIs ==
  ASSUME NEW n \in Nat, NEW s \in 1 .. n, NEW i \in 1 .. n
  PROVE  /\ Gap(n, s, i) \in 0 .. n - 1
         /\ (i + n - s) % n = Gap(n, s, i)
         /\ Gap(n, s, i) = 0 <=> i = s
         /\ \A j \in 1 .. n : Gap(n, s, i) = Gap(n, s, j) => i = j
<1>1. Gap(n, s, i) \in 0 .. n - 1 /\ (Gap(n, s, i) = 0 <=> i = s)
  BY DEF Gap
<1>2. \A j \in 1 .. n : Gap(n, s, i) = Gap(n, s, j) => i = j
  BY DEF Gap
<1>3. (i + n - s) % n = Gap(n, s, i)
  <2>1. n \in Nat \ {0}
    OBVIOUS
  <2>2. CASE i >= s
    <3>1. i - s \in 0 .. n - 1 /\ i + n - s = (i - s) + n
      BY <2>2
    <3>2. ((i - s) + n) % n = i - s
      BY <2>1, <3>1
    <3>3. QED BY <2>2, <3>1, <3>2 DEF Gap
  <2>3. CASE ~(i >= s)
    <3>1. i - s + n \in 0 .. n - 1 /\ i + n - s = i - s + n
      BY <2>3
    <3>2. (i - s + n) % n = i - s + n
      BY <2>1, <3>1
    <3>3. QED BY <2>3, <3>1, <3>2 DEF Gap
  <2>4. QED BY <2>2, <2>3
<1>4. QED BY <1>1, <1>2, <1>3

(* The place after a, and how far the others are from it. *)
LEMMA GapAfter ==
  ASSUME NEW n \in Nat, NEW s \in 1 .. n, NEW a \in 1 .. n,
         NEW b, b = IF a = n THEN 1 ELSE a + 1
  PROVE  /\ b \in 1 .. n
         /\ Gap(n, s, a) + 1 < n => Gap(n, s, b) = Gap(n, s, a) + 1
         /\ \A i \in 1 .. n : i # a =>
              /\ Gap(n, b, i) + 1 < n
              /\ Gap(n, s, a) <= Gap(n, s, i) => Gap(n, b, i) < Gap(n, s, i)
         /\ Gap(n, b, a) < n
BY DEF Gap

LEMMA RlmFacts ==
  ASSUME RlmTyped
  PROVE  /\ \A m \in RlmNames :
              /\ rlmCb[m] \in RlmType
              /\ rlmCb[m].rule \in {"none", "RR", "PS", "HASH", "DHT"}
              /\ rlmCb[m].reg \in Seq(RlmBkts) /\ RegCnt(m) \in Nat /\ Bkts(m) = 1 .. RegCnt(m)
              /\ DOMAIN rlmCb[m].reg = Bkts(m)
              /\ rlmCb[m].reg = << >> <=> RegCnt(m) = 0
              /\ rlmCb[m].word \in Nat /\ rlmCb[m].mask \in Nat /\ rlmCb[m].nxtRcv \in Nat
              /\ \A i \in Bkts(m) :
                   /\ rlmCb[m].reg[i] \in RlmBkts
                   /\ rlmCb[m].reg[i].host \in Hosts /\ rlmCb[m].reg[i].gen \in Nat
              /\ \A h \in Hosts : turns[m][h] \in Nat /\ waits[m][h] \in Nat
              /\ HostsOf(m) = {rlmCb[m].reg[i].host : i \in Bkts(m)}
         /\ \A h \in Hosts :
              /\ rlmHost[h] \in HostType
              /\ rlmHost[h].live \in BOOLEAN /\ rlmHost[h].open \in BOOLEAN /\ rlmHost[h].gen \in Nat
              /\ rlmHost[h].regs \in SUBSET RlmNames /\ rlmHost[h].rcv \in Seq({"data", "big"})
         /\ sndCall.pc # "idle" => sndCall \in SndType
         /\ rcvCall.pc # "idle" => rcvCall \in RcvType
         /\ sndCall.pc \in {"idle", "look", "done"} /\ rcvCall.pc \in {"idle", "look", "done"}
<1>1. ASSUME NEW m \in RlmNames
      PROVE  /\ rlmCb[m] \in RlmType
             /\ rlmCb[m].rule \in {"none", "RR", "PS", "HASH", "DHT"}
             /\ rlmCb[m].reg \in Seq(RlmBkts) /\ RegCnt(m) \in Nat /\ Bkts(m) = 1 .. RegCnt(m)
             /\ DOMAIN rlmCb[m].reg = Bkts(m)
             /\ rlmCb[m].reg = << >> <=> RegCnt(m) = 0
             /\ rlmCb[m].word \in Nat /\ rlmCb[m].mask \in Nat /\ rlmCb[m].nxtRcv \in Nat
  <2>1. rlmCb[m] \in RlmType
    BY DEF RlmTyped
  <2>2. /\ rlmCb[m].rule \in {"none", "RR", "PS", "HASH", "DHT"}
        /\ rlmCb[m].reg \in Seq(RlmBkts)
        /\ rlmCb[m].word \in Nat /\ rlmCb[m].mask \in Nat /\ rlmCb[m].nxtRcv \in Nat
    BY <2>1 DEF RlmType
  <2>3. /\ RegCnt(m) \in Nat /\ Bkts(m) = 1 .. RegCnt(m) /\ DOMAIN rlmCb[m].reg = Bkts(m)
        /\ rlmCb[m].reg = << >> <=> RegCnt(m) = 0
    BY <2>2, EmptySeq DEF RegCnt, Bkts
  <2>4. QED BY <2>1, <2>2, <2>3
<1>2. ASSUME NEW m \in RlmNames, NEW i \in Bkts(m)
      PROVE  /\ rlmCb[m].reg[i] \in RlmBkts
             /\ rlmCb[m].reg[i].host \in Hosts /\ rlmCb[m].reg[i].gen \in Nat
  <2>1. rlmCb[m].reg \in Seq(RlmBkts) /\ i \in 1 .. Len(rlmCb[m].reg)
    BY <1>1 DEF RegCnt
  <2>2. rlmCb[m].reg[i] \in RlmBkts
    BY <2>1, ElementOfSeq
  <2>3. QED BY <2>2 DEF RlmBkts
<1>3. \A m \in RlmNames : \A h \in Hosts : turns[m][h] \in Nat /\ waits[m][h] \in Nat
  BY DEF RlmTyped
<1>4. \A m \in RlmNames : HostsOf(m) = {rlmCb[m].reg[i].host : i \in Bkts(m)}
  BY <1>1 DEF HostsOf
<1>5. ASSUME NEW h \in Hosts
      PROVE  /\ rlmHost[h] \in HostType
             /\ rlmHost[h].live \in BOOLEAN /\ rlmHost[h].open \in BOOLEAN /\ rlmHost[h].gen \in Nat
             /\ rlmHost[h].regs \in SUBSET RlmNames /\ rlmHost[h].rcv \in Seq({"data", "big"})
  <2>1. rlmHost[h] \in HostType
    BY DEF RlmTyped
  <2>2. QED BY <2>1 DEF HostType
<1>6. /\ sndCall.pc # "idle" => sndCall \in SndType
      /\ sndCall.pc \in {"idle", "look", "done"}
  BY DEF RlmTyped, noCall, SndType
<1>7. /\ rcvCall.pc # "idle" => rcvCall \in RcvType
      /\ rcvCall.pc \in {"idle", "look", "done"}
  BY DEF RlmTyped, noCall, RcvType
<1>8. QED BY <1>1, <1>2, <1>3, <1>4, <1>5, <1>6, <1>7

(* What the properties say follows. *)
LEMMA RlmInvSends == RlmInv => RlmSends
<1> SUFFICES ASSUME RlmInv PROVE RlmSends
  OBVIOUS
<1>1. RlmTyped /\ SndOK /\ \A m \in RlmNames : BktsOK(m) /\ TurnsOK(m)
  BY DEF RlmInv
<1>2. RoutedByRule
  <2> SUFFICES ASSUME sndCall.pc = "done"
               PROVE  \A i \in DOMAIN rlmCb[sndCall.rlm].reg :
                        rlmCb[sndCall.rlm].reg[i].host \in sndCall.up =>
                          /\ sndCall.to # 0
                          /\ Distance(sndCall.rlm, sndCall.start, sndCall.to)
                               =< Distance(sndCall.rlm, sndCall.start, i)
    BY DEF RoutedByRule
  <2>1. PICK m \in RlmNames : m = sndCall.rlm
    BY <1>1, RlmFacts DEF SndType
  <2>2. DOMAIN rlmCb[m].reg = 1 .. RegCnt(m) /\ Bkts(m) = 1 .. RegCnt(m) /\ RegCnt(m) \in Nat
    BY <1>1, RlmFacts
  <2>3. /\ sndCall.start \in 1 .. RegCnt(m) /\ sndCall.to \in 0 .. RegCnt(m)
        /\ \A i \in 1 .. RegCnt(m) : rlmCb[m].reg[i].host \in sndCall.up =>
             sndCall.to # 0 /\ Gap(RegCnt(m), sndCall.start, sndCall.to) <= Gap(RegCnt(m), sndCall.start, i)
    BY <1>1, <2>1, <2>2 DEF SndOK, SndDone
  <2>4. \A i \in 1 .. RegCnt(m) : Distance(m, sndCall.start, i) = Gap(RegCnt(m), sndCall.start, i)
    <3> TAKE i \in 1 .. RegCnt(m)
    <3>1. RegCnt(m) \in Nat /\ sndCall.start \in 1 .. RegCnt(m)
      BY <2>2, <2>3
    <3>3. (i + RegCnt(m) - sndCall.start) % RegCnt(m) = Gap(RegCnt(m), sndCall.start, i)
      BY <3>1, GapIs
    <3>2. QED BY <3>3 DEF Distance
  <2>5. QED BY <2>1, <2>2, <2>3, <2>4
<1>3. TurnComes
  <2> SUFFICES ASSUME NEW m \in RlmNames, NEW h \in HostsOf(m) PROVE turns[m][h] < RegCnt(m)
    BY DEF TurnComes
  <2>1. PICK i \in Bkts(m) : h = rlmCb[m].reg[i].host
    BY <1>1, RlmFacts
  <2>2. rlmCb[m].word \in 1 .. RegCnt(m) /\ RegCnt(m) \in Nat /\ Bkts(m) = 1 .. RegCnt(m) /\ h \in Hosts
    BY <1>1, <2>1, RlmFacts DEF BktsOK, Places
  <2>3. Gap(RegCnt(m), rlmCb[m].word, i) \in Nat
    BY <2>1, <2>2, SMT DEF Gap
  <2>6. turns[m][h] \in Nat
    BY <1>1, <2>2, RlmFacts
  <2>4. turns[m][h] + Gap(RegCnt(m), rlmCb[m].word, i) < RegCnt(m)
    BY <1>1, <2>1 DEF TurnsOK
  <2>5. QED BY <2>2, <2>3, <2>4, <2>6
<1>4. Spread
  <2> SUFFICES ASSUME NEW m \in RlmNames, rlmCb[m].rule = "HASH", RegCnt(m) > 0
               PROVE  {Home(m, key) : key \in 0 .. RegCnt(m) - 1} = 1 .. RegCnt(m)
    BY DEF Spread
  <2>1. RegCnt(m) \in Nat \ {0} /\ rlmCb[m].mask \in Nat
    BY <1>1, RlmFacts
  <2>2. rlmCb[m].mask # 0 => rlmCb[m].mask + 1 = RegCnt(m)
    BY <1>1, <2>1 DEF BktsOK
  <2>3. \A key \in 0 .. RegCnt(m) - 1 : Home(m, key) = key + 1
    BY <2>1, <2>2 DEF Home
  <2>4. \A i \in 1 .. RegCnt(m) : i - 1 \in 0 .. RegCnt(m) - 1 /\ i = (i - 1) + 1
    BY <2>1
  <2>5. \A key \in 0 .. RegCnt(m) - 1 : key + 1 \in 1 .. RegCnt(m)
    BY <2>1
  <2>6. QED BY <2>3, <2>4, <2>5
<1>5. QED BY <1>2, <1>3, <1>4 DEF RlmSends

LEMMA RlmInvReceives == RlmInv => RlmReceives
<1> SUFFICES ASSUME RlmInv PROVE RlmReceives
  OBVIOUS
<1>1. RlmTyped /\ RcvOK /\ \A m \in RlmNames : BktsOK(m) /\ WaitsOK(m)
  BY DEF RlmInv
<1>2. \A m \in RlmNames : \A h \in HostsOf(m) : waits[m][h] < RegCnt(m)
  <2> TAKE m \in RlmNames
  <2> TAKE h \in HostsOf(m)
  <2>1. PICK i \in Bkts(m) : h = rlmCb[m].reg[i].host
    BY <1>1, RlmFacts
  <2>2. rlmCb[m].nxtRcv \in 1 .. RegCnt(m) /\ RegCnt(m) \in Nat /\ Bkts(m) = 1 .. RegCnt(m) /\ h \in Hosts
    BY <1>1, <2>1, RlmFacts DEF BktsOK, Places
  <2>3. Gap(RegCnt(m), rlmCb[m].nxtRcv, i) \in Nat
    BY <2>1, <2>2, SMT DEF Gap
  <2>6. waits[m][h] \in Nat
    BY <1>1, <2>2, RlmFacts
  <2>4. waits[m][h] + Gap(RegCnt(m), rlmCb[m].nxtRcv, i) < RegCnt(m)
    BY <1>1, <2>1 DEF WaitsOK
  <2>5. QED BY <2>2, <2>3, <2>4, <2>6
<1>3. MessageComes
  BY <1>1, <1>2 DEF MessageComes, RcvOK
<1>4. BucketsAgree
  <2> SUFFICES ASSUME NEW m \in RlmNames
               PROVE  /\ RlmListed(m) <=> rlmCb[m].rule # "none"
                      /\ \A i, j \in DOMAIN rlmCb[m].reg :
                           rlmCb[m].reg[i].host = rlmCb[m].reg[j].host => i = j
                      /\ \A h \in Hosts : rlmHost[h].live =>
                           (m \in rlmHost[h].regs <=>
                              \E i \in DOMAIN rlmCb[m].reg :
                                rlmCb[m].reg[i] = [host |-> h, gen |-> rlmHost[h].gen])
                      /\ RegCnt(m) > 0 =>
                           rlmCb[m].word \in DOMAIN rlmCb[m].reg /\ rlmCb[m].nxtRcv \in DOMAIN rlmCb[m].reg
    BY DEF BucketsAgree
  <2>1. DOMAIN rlmCb[m].reg = Bkts(m) /\ RegCnt(m) \in Nat /\ (rlmCb[m].reg = << >> <=> RegCnt(m) = 0)
    BY <1>1, RlmFacts
  <2>2. BktsOK(m)
    BY <1>1
  <2>3. \A i \in Bkts(m), h \in Hosts :
          rlmCb[m].reg[i] = [host |-> h, gen |-> rlmHost[h].gen] <=>
            rlmCb[m].reg[i].host = h /\ rlmCb[m].reg[i].gen = rlmHost[h].gen
    <3>1. \A i \in Bkts(m) : rlmCb[m].reg[i] \in RlmBkts
      BY <1>1, RlmFacts
    <3>2. QED BY <3>1 DEF RlmBkts
  <2>4. \A h \in Hosts : rlmHost[h].live =>
          (m \in rlmHost[h].regs <=>
             \E i \in Bkts(m) : rlmCb[m].reg[i] = [host |-> h, gen |-> rlmHost[h].gen])
    BY <2>2, <2>3 DEF BktsOK
  <2>5. RegCnt(m) > 0 => rlmCb[m].word \in Bkts(m) /\ rlmCb[m].nxtRcv \in Bkts(m)
    BY <2>1, <2>2 DEF BktsOK, Places
  <2>6. QED BY <2>1, <2>2, <2>4, <2>5 DEF BktsOK
<1>5. QED BY <1>3, <1>4 DEF RlmReceives

LEMMA RlmInitOK == RlmInit => RlmInv
<1> SUFFICES ASSUME RlmInit PROVE RlmInv
  OBVIOUS
<1>1. /\ noRlm \in RlmType /\ noRlm.reg = << >> /\ noRlm.rule = "none" /\ noRlm.word = 1
      /\ noRlm.mask = 0 /\ noRlm.nxtRcv = 1
  BY EmptySeq DEF noRlm, RlmType
<1>2. noHost \in HostType /\ noHost.rcv = << >> /\ ~noHost.open /\ ~noHost.live
  BY EmptySeq DEF noHost, HostType
<1>3. RlmTyped
  <2>1. rlmLst \in Seq(RlmNames)
    BY EmptySeq DEF RlmInit
  <2>2. rlmCb \in [RlmNames -> RlmType] /\ rlmHost \in [Hosts -> HostType]
    BY <1>1, <1>2 DEF RlmInit
  <2>3. turns \in [RlmNames -> [Hosts -> Nat]] /\ waits \in [RlmNames -> [Hosts -> Nat]]
    BY DEF RlmInit
  <2>4. QED BY <2>1, <2>2, <2>3 DEF RlmTyped, RlmInit
<1>4. ListOnce /\ HostsOK
  BY <1>2, EmptySeq DEF RlmInit, ListOnce, HostsOK
<1>5. ASSUME NEW m \in RlmNames PROVE BktsOK(m) /\ TurnsOK(m) /\ WaitsOK(m)
  <2>1. rlmCb[m] = noRlm /\ \A h \in Hosts : rlmHost[h] = noHost /\ turns[m][h] = 0 /\ waits[m][h] = 0
    BY DEF RlmInit
  <2>2. RegCnt(m) = 0 /\ Bkts(m) = {} /\ Places(m) = {1}
    BY <1>1, <2>1 DEF RegCnt, Bkts, Places
  <2>3. ~RlmListed(m)
    BY DEF RlmListed, RlmInit
  <2>4. BktsOK(m)
    BY <1>1, <1>2, <2>1, <2>2, <2>3, RlmAssumption DEF BktsOK
  <2>5. TurnsOK(m) /\ WaitsOK(m)
    BY <2>1, <2>2 DEF TurnsOK, WaitsOK
  <2>6. QED BY <2>4, <2>5
<1>6. SndOK /\ RcvOK
  BY DEF RlmInit, SndOK, RcvOK, noCall
<1>7. QED BY <1>3, <1>4, <1>5, <1>6 DEF RlmInv

(* What stays as it is while nothing that it says anything of changes.     *)
LEMMA SameReg ==
  ASSUME NEW m \in RlmNames, rlmCb'[m].reg = rlmCb[m].reg
  PROVE  RegCnt(m)' = RegCnt(m) /\ Bkts(m)' = Bkts(m) /\ Places(m)' = Places(m)
BY DEF RegCnt, Bkts, Places

LEMMA BktsKept ==
  ASSUME NEW m \in RlmNames, BktsOK(m), RlmListed(m)' <=> RlmListed(m),
         rlmCb'[m].reg = rlmCb[m].reg, rlmCb'[m].rule = rlmCb[m].rule, rlmCb'[m].mask = rlmCb[m].mask,
         rlmCb'[m].word \in Places(m), rlmCb'[m].nxtRcv \in Places(m),
         \A h \in Hosts : /\ rlmHost'[h].gen = rlmHost[h].gen /\ rlmHost'[h].live = rlmHost[h].live
                          /\ m \in rlmHost'[h].regs <=> m \in rlmHost[h].regs,
         \A i \in Bkts(m) : rlmCb[m].reg[i].host \in Hosts
  PROVE  BktsOK(m)'
<1>1. RegCnt(m)' = RegCnt(m) /\ Bkts(m)' = Bkts(m) /\ Places(m)' = Places(m)
  BY SameReg
<1>2. \A i, j \in Bkts(m)' : rlmCb'[m].reg[i].host = rlmCb'[m].reg[j].host => i = j
  BY <1>1 DEF BktsOK
<1>3. \A i \in Bkts(m)' : rlmCb'[m].reg[i].gen <= rlmHost'[rlmCb'[m].reg[i].host].gen
  BY <1>1 DEF BktsOK
<1>4. \A h \in Hosts : rlmHost'[h].live =>
       (m \in rlmHost'[h].regs <=>
          \E i \in Bkts(m)' : rlmCb'[m].reg[i].host = h /\ rlmCb'[m].reg[i].gen = rlmHost'[h].gen)
  BY <1>1 DEF BktsOK
<1>5. /\ RlmListed(m)' <=> rlmCb'[m].rule # "none"
      /\ rlmCb'[m].rule = "none" => rlmCb'[m].reg = << >>
      /\ RegCnt(m)' <= MaxRegHostCnt
      /\ rlmCb'[m].word \in Places(m)' /\ rlmCb'[m].nxtRcv \in Places(m)'
      /\ rlmCb'[m].mask # 0 => rlmCb'[m].rule = "HASH" /\ rlmCb'[m].mask = RegCnt(m)' - 1
  BY <1>1 DEF BktsOK
<1>6. QED BY <1>2, <1>3, <1>4, <1>5 DEF BktsOK

LEMMA TurnsKept ==
  ASSUME NEW m \in RlmNames, TurnsOK(m), turns'[m] = turns[m],
         rlmCb'[m].reg = rlmCb[m].reg, rlmCb'[m].rule = rlmCb[m].rule, rlmCb'[m].word = rlmCb[m].word,
         \A h \in Hosts : rlmHost'[h].open = rlmHost[h].open
  PROVE  TurnsOK(m)'
<1>1. RegCnt(m)' = RegCnt(m) /\ Bkts(m)' = Bkts(m)
  BY SameReg
<1>2. QED BY <1>1 DEF TurnsOK

LEMMA WaitsKept ==
  ASSUME NEW m \in RlmNames, WaitsOK(m), waits'[m] = waits[m],
         rlmCb'[m].reg = rlmCb[m].reg, rlmCb'[m].nxtRcv = rlmCb[m].nxtRcv,
         \A h \in Hosts : rlmHost'[h].rcv = << >> => rlmHost[h].rcv = << >>
  PROVE  WaitsOK(m)'
<1>1. RegCnt(m)' = RegCnt(m) /\ Bkts(m)' = Bkts(m)
  BY SameReg
<1>2. QED BY <1>1 DEF WaitsOK

LEMMA SndKept ==
  ASSUME RlmTyped, SndOK, sndCall' = sndCall, rlmLst' = rlmLst, turns' = turns,
         \A m \in RlmNames : /\ rlmCb'[m].reg = rlmCb[m].reg /\ rlmCb'[m].rule = rlmCb[m].rule
                             /\ rlmCb'[m].word = rlmCb[m].word,
         \A h \in Hosts : rlmHost'[h].open = rlmHost[h].open
  PROVE  SndOK'
<1>1. CASE sndCall.pc = "idle"
  BY <1>1 DEF SndOK
<1>2. CASE sndCall.pc # "idle"
  <2>1. sndCall \in SndType
    BY <1>2, RlmFacts
  <2>2. PICK m \in RlmNames : m = sndCall.rlm
    BY <2>1 DEF SndType
  <2>3. RegCnt(m)' = RegCnt(m) /\ Bkts(m)' = Bkts(m)
    BY SameReg
  <2>4. /\ (RlmListed(m)' <=> RlmListed(m))
        /\ \A h \in sndCall.up : rlmHost'[h].open = rlmHost[h].open
    BY <2>1 DEF RlmListed, SndType
  <2>5. sndCall.pc = "look" => SndLook'
    BY <2>2, <2>3 DEF SndOK, SndLook
  <2>6. sndCall.pc = "done" => SndDone'
    BY <2>2, <2>3 DEF SndOK, SndDone
  <2>7. QED BY <2>2, <2>3, <2>4, <2>5, <2>6 DEF SndOK
<1>3. QED BY <1>1, <1>2

LEMMA RcvKept ==
  ASSUME RlmTyped, RcvOK, rcvCall' = rcvCall, rlmLst' = rlmLst, waits' = waits,
         \A m \in RlmNames : rlmCb'[m].reg = rlmCb[m].reg /\ rlmCb'[m].nxtRcv = rlmCb[m].nxtRcv,
         \A h \in Hosts : rlmHost'[h].rcv = << >> => rlmHost[h].rcv = << >>
  PROVE  RcvOK'
<1>1. CASE rcvCall.pc = "idle"
  BY <1>1 DEF RcvOK
<1>2. CASE rcvCall.pc # "idle"
  <2>1. rcvCall \in RcvType
    BY <1>2, RlmFacts
  <2>2. PICK m \in RlmNames : m = rcvCall.rlm
    BY <2>1 DEF RcvType
  <2>3. RegCnt(m)' = RegCnt(m) /\ Bkts(m)' = Bkts(m)
    BY SameReg
  <2>4. /\ (RlmListed(m)' <=> RlmListed(m))
        /\ \A h \in rcvCall.had : rlmHost'[h].rcv = << >> => rlmHost[h].rcv = << >>
    BY <2>1 DEF RlmListed, RcvType
  <2>5. rcvCall.pc = "look" => RcvLook'
    BY <2>2, <2>3, <2>4 DEF RcvOK, RcvLook
  <2>7. QED BY <2>2, <2>3, <2>4, <2>5 DEF RcvOK
<1>3. QED BY <1>1, <1>2

(* Steps of a send or of a receive that change the call alone.             *)
LEMMA SndAlone ==
  ASSUME RlmInv, sndCall' \in {noCall} \cup SndType, SndOK',
         UNCHANGED <<uses, rlmLst, rlmCb, rlmHost, rcvCall, rdLeak, turns, waits, rlmMemErr>>
  PROVE  RlmInv'
<1>1. RlmTyped' /\ ListOnce' /\ HostsOK'
  BY DEF RlmInv, RlmTyped, ListOnce, HostsOK
<1>2. \A m \in RlmNames : BktsOK(m)' /\ TurnsOK(m)' /\ WaitsOK(m)'
  <2>1. \A m \in RlmNames : BktsOK(m)'
    BY DEF RlmInv, BktsOK, RlmListed, RegCnt, Bkts, Places
  <2>2. \A m \in RlmNames : TurnsOK(m)' /\ WaitsOK(m)'
    BY DEF RlmInv, TurnsOK, WaitsOK, RegCnt, Bkts
  <2>3. QED BY <2>1, <2>2
<1>3. RcvOK'
  BY RcvKept DEF RlmInv
<1>4. QED BY <1>1, <1>2, <1>3 DEF RlmInv

LEMMA RcvAlone ==
  ASSUME RlmInv, rcvCall' \in {noCall} \cup RcvType, RcvOK',
         UNCHANGED <<uses, rlmLst, rlmCb, rlmHost, sndCall, turns, waits>>
  PROVE  RlmInv'
<1>1. RlmTyped' /\ ListOnce' /\ HostsOK'
  BY DEF RlmInv, RlmTyped, ListOnce, HostsOK
<1>2. \A m \in RlmNames : BktsOK(m)' /\ TurnsOK(m)' /\ WaitsOK(m)'
  <2>1. \A m \in RlmNames : BktsOK(m)'
    BY DEF RlmInv, BktsOK, RlmListed, RegCnt, Bkts, Places
  <2>2. \A m \in RlmNames : TurnsOK(m)' /\ WaitsOK(m)'
    BY DEF RlmInv, TurnsOK, WaitsOK, RegCnt, Bkts
  <2>3. QED BY <2>1, <2>2
<1>3. SndOK'
  BY SndKept DEF RlmInv
<1>4. QED BY <1>1, <1>2, <1>3 DEF RlmInv

(* A place where a send may start is a bucket. *)
LEMMA StartIsBkt ==
  ASSUME RlmTyped, NEW m \in RlmNames, BktsOK(m), RegCnt(m) > 0, NEW key \in RlmKeys
  PROVE  Start(m, key) \in Bkts(m)
<1>1. /\ RegCnt(m) \in Nat \ {0} /\ key \in Nat /\ Bkts(m) = 1 .. RegCnt(m)
      /\ rlmCb[m].mask \in Nat /\ rlmCb[m].reg # << >>
  BY RlmFacts, RlmAssumption
<1>2. rlmCb[m].mask # 0 => rlmCb[m].mask + 1 = RegCnt(m)
  BY <1>1 DEF BktsOK
<1>3. key % RegCnt(m) \in 0 .. RegCnt(m) - 1
  BY <1>1
<1>4. Home(m, key) \in Bkts(m)
  BY <1>1, <1>2, <1>3, SMTT(30) DEF Home
<1>5. rlmCb[m].word \in Bkts(m)
  BY <1>1 DEF BktsOK, Places
<1>6. QED BY <1>4, <1>5 DEF Start

LEMMA SndBeginOK ==
  ASSUME RlmInv, NEW m \in RlmNames, NEW key \in RlmKeys, SndBegin(m, key) PROVE RlmInv'
<1> DEFINE s == Start(m, key)
           n == RegCnt(m)
<1>1. /\ RlmTyped /\ BktsOK(m) /\ TurnsOK(m) /\ RlmListed(m) /\ n > 0 /\ rlmCb[m].rule # "DHT"
      /\ sndCall' = [pc |-> "look", rlm |-> m, start |-> s, at |-> s,
                     left |-> n + (IF rlmCb[m].rule = "PS" THEN 1 ELSE 0), up |-> OpenHosts(m), to |-> 0]
      /\ UNCHANGED <<uses, rlmLst, rlmCb, rlmHost, rcvCall, rdLeak, turns, waits, rlmMemErr>>
  BY DEF RlmInv, SndBegin
<1>2. /\ n \in Nat /\ Bkts(m) = 1 .. n /\ HostsOf(m) = {rlmCb[m].reg[i].host : i \in Bkts(m)}
      /\ \A i \in Bkts(m) : rlmCb[m].reg[i].host \in Hosts
  BY <1>1, RlmFacts
<1>3. s \in Bkts(m)
  BY <1>1, StartIsBkt
<1>4. /\ OpenHosts(m) \subseteq Hosts /\ \A h \in OpenHosts(m) : rlmHost[h].open
      /\ \A h \in Hosts : h \notin OpenHosts(m) =>
            ~rlmHost[h].open \/ \A i \in Bkts(m) : rlmCb[m].reg[i].host # h
  BY <1>2 DEF OpenHosts
<1>5. \A h \in Hosts : h \notin OpenHosts(m) => turns[m][h] = 0
  BY <1>1, <1>4 DEF TurnsOK
<1>6. rlmCb[m].rule = "RR" => s = rlmCb[m].word
  BY DEF Start
<1>7. Gap(n, s, s) = 0 /\ \A i \in Bkts(m) : Gap(n, s, i) >= 0
  BY <1>2, <1>3 DEF Gap
<1> HIDE DEF s, n
<1>8. /\ sndCall'.pc = "look" /\ sndCall'.rlm = m /\ sndCall'.start = s /\ sndCall'.at = s
      /\ sndCall'.left = n + (IF rlmCb[m].rule = "PS" THEN 1 ELSE 0)
      /\ sndCall'.up = OpenHosts(m) /\ sndCall'.to = 0
  BY <1>1
<1>9. sndCall' \in SndType
  BY <1>1, <1>2, <1>3, <1>4 DEF SndType
<1>10. RegCnt(m)' = n /\ Bkts(m)' = Bkts(m) /\ (RlmListed(m)' <=> RlmListed(m))
  BY <1>1 DEF RegCnt, Bkts, RlmListed, n
<1>11. SndLook'
  <2>1. \A i \in Bkts(m) : ~(Gap(n, s, i) < Gap(n, s, s))
    <3>1. \A i \in Bkts(m) : Gap(n, s, i) \in Int
      BY <1>2, <1>3 DEF Gap
    <3>2. QED BY <1>7, <3>1
  <2>2. \/ rlmCb[m].rule = "PS" /\ sndCall'.left = n + 1
        \/ sndCall'.left \in 1 .. n /\ Gap(n, s, s) = n - sndCall'.left
    BY <1>1, <1>2, <1>7, <1>8 DEF n
  <2>3. QED BY <1>1, <1>3, <1>5, <1>6, <1>8, <1>10, <2>1, <2>2 DEF SndLook
<1>12. SndOK'
  BY <1>1, <1>3, <1>4, <1>8, <1>10, <1>11 DEF SndOK
<1>13. QED BY <1>1, <1>9, <1>12, SndAlone

(* The send is at bucket a of its realm m. *)
LEMMA SndAtBkt ==
  ASSUME RlmInv, sndCall.pc = "look",
         NEW m \in RlmNames, m = sndCall.rlm, NEW n, n = RegCnt(m), NEW a, a = sndCall.at
  PROVE  /\ RlmTyped /\ RlmListed(m) /\ Bkts(m) # {} /\ BktsOK(m) /\ TurnsOK(m)
         /\ sndCall \in SndType /\ n \in Nat \ {0} /\ Bkts(m) = 1 .. n
         /\ \A i \in Bkts(m) : rlmCb[m].reg[i].host \in Hosts
         /\ Bucket(sndCall) = rlmCb[m].reg[a]
         /\ sndCall.start \in 1 .. n /\ a \in 1 .. n /\ sndCall.to = 0
         /\ After(m, a) = IF a = n THEN 1 ELSE a + 1
         /\ \A h \in sndCall.up : rlmHost[h].open
         /\ rlmCb[m].rule = "RR" => sndCall.start = rlmCb[m].word
         /\ \/ rlmCb[m].rule = "PS" /\ sndCall.left = n + 1 /\ a = sndCall.start
            \/ sndCall.left \in 1 .. n /\ Gap(n, sndCall.start, a) = n - sndCall.left
         /\ \A i \in 1 .. n :
              Gap(n, sndCall.start, i) < Gap(n, sndCall.start, a) => rlmCb[m].reg[i].host \notin sndCall.up
         /\ \A h \in Hosts : h \notin sndCall.up => turns[m][h] = 0
<1>1. RlmTyped /\ SndOK /\ SndLook /\ BktsOK(m) /\ TurnsOK(m)
  BY DEF RlmInv, SndOK
<1>2. /\ sndCall \in SndType /\ n \in Nat /\ Bkts(m) = 1 .. n
      /\ \A i \in Bkts(m) : rlmCb[m].reg[i].host \in Hosts
  BY <1>1, RlmFacts
<1>3. RlmListed(m) /\ Bkts(m) # {} /\ \A h \in sndCall.up : rlmHost[h].open
  BY <1>1 DEF SndOK
<1>4. n # 0
  BY <1>2, <1>3
<1>5. Bucket(sndCall) = rlmCb[m].reg[a] /\ After(m, a) = IF a = n THEN 1 ELSE a + 1
  BY DEF Bucket, After
<1>6. QED BY <1>1, <1>2, <1>3, <1>4, <1>5 DEF SndLook

LEMMA SndNextOK ==
  ASSUME RlmInv, SndNext PROVE RlmInv'
<1>1. /\ sndCall.pc = "look" /\ ~rlmHost[Bucket(sndCall).host].open
      /\ sndCall' = [sndCall EXCEPT
           !.left = sndCall.left - 1,
           !.at = IF rlmCb[sndCall.rlm].rule = "PS" /\ sndCall.left = RegCnt(sndCall.rlm) + 1
                    THEN sndCall.at ELSE After(sndCall.rlm, sndCall.at),
           !.pc = IF sndCall.left = 1 THEN "done" ELSE "look"]
      /\ UNCHANGED <<uses, rlmLst, rlmCb, rlmHost, rcvCall, rdLeak, turns, waits, rlmMemErr>>
  BY DEF SndNext
<1>2. sndCall \in SndType
  BY <1>1, RlmFacts DEF RlmInv
<1>3. PICK m \in RlmNames : m = sndCall.rlm
  BY <1>2 DEF SndType
<1>4. PICK n : n = RegCnt(m)
  OBVIOUS
<1>5. PICK a : a = sndCall.at
  OBVIOUS
<1>6. PICK s : s = sndCall.start
  OBVIOUS
<1>7. PICK up : up = sndCall.up
  OBVIOUS
<1>8. PICK l : l = sndCall.left
  OBVIOUS
<1>9. /\ RlmTyped /\ RlmListed(m) /\ Bkts(m) # {} /\ BktsOK(m)
      /\ n \in Nat \ {0} /\ Bkts(m) = 1 .. n /\ \A i \in Bkts(m) : rlmCb[m].reg[i].host \in Hosts
      /\ Bucket(sndCall) = rlmCb[m].reg[a]
      /\ s \in 1 .. n /\ a \in 1 .. n /\ sndCall.to = 0
      /\ After(m, a) = IF a = n THEN 1 ELSE a + 1
      /\ \A h \in up : rlmHost[h].open
      /\ rlmCb[m].rule = "RR" => s = rlmCb[m].word
      /\ \/ rlmCb[m].rule = "PS" /\ l = n + 1 /\ a = s
         \/ l \in 1 .. n /\ Gap(n, s, a) = n - l
      /\ \A i \in 1 .. n : Gap(n, s, i) < Gap(n, s, a) => rlmCb[m].reg[i].host \notin up
      /\ \A h \in Hosts : h \notin up => turns[m][h] = 0
  BY <1>1, <1>3, <1>4, <1>5, <1>6, <1>7, <1>8, SndAtBkt, SMTT(30)
<1>10. PICK b : b = IF rlmCb[m].rule = "PS" /\ l = n + 1 THEN a ELSE After(m, a)
  OBVIOUS
<1>11. /\ sndCall'.pc = (IF l = 1 THEN "done" ELSE "look") /\ sndCall'.rlm = m /\ sndCall'.start = s
       /\ sndCall'.at = b /\ sndCall'.left = l - 1 /\ sndCall'.up = up /\ sndCall'.to = 0
       /\ sndCall' \in [pc : {"look", "done"}, rlm : {m}, start : {s}, at : {b}, left : {l - 1}, up : {up}, to : {0}]
  BY <1>1, <1>2, <1>3, <1>4, <1>5, <1>6, <1>7, <1>8, <1>9, <1>10 DEF SndType
<1>12. b \in 1 .. n /\ l \in Nat /\ l >= 1 /\ up \in SUBSET Hosts
  BY <1>2, <1>7, <1>9, <1>10 DEF SndType
<1>13. sndCall' \in SndType
  <2>1. s \in Nat /\ b \in Nat /\ l - 1 \in Nat
    BY <1>9, <1>12
  <2>2. (IF l = 1 THEN "done" ELSE "look") \in {"look", "done"}
    OBVIOUS
  <2>3. QED BY <1>11, <1>12, <2>1, <2>2 DEF SndType
<1>14. RegCnt(m)' = n /\ Bkts(m)' = 1 .. n /\ (RlmListed(m)' <=> RlmListed(m)) /\ Bkts(m)' # {}
  BY <1>1, <1>4, <1>9 DEF RegCnt, Bkts, RlmListed
<1>15. rlmCb[m].reg[a].host \notin up
  BY <1>1, <1>9
<1>16. /\ \A i \in 1 .. n : Gap(n, s, i) \in 0 .. n - 1
       /\ \A i \in 1 .. n : Gap(n, s, i) = Gap(n, s, a) => i = a
       /\ Gap(n, s, s) = 0
  <2>1. n \in Nat /\ s \in 1 .. n /\ a \in 1 .. n
    BY <1>9
  <2>2. QED BY <2>1 DEF Gap
<1>17. \A i \in 1 .. n : Gap(n, s, i) <= Gap(n, s, a) => rlmCb[m].reg[i].host \notin up
  BY <1>9, <1>15, <1>16
<1>18. CASE l = 1
  <2>1. \A i \in 1 .. n : rlmCb[m].reg[i].host \notin up
    BY <1>9, <1>16, <1>17, <1>18
  <2>2. SndDone'
    BY <1>1, <1>9, <1>11, <1>14, <2>1 DEF SndDone
  <2>3. SndOK'
    BY <1>1, <1>9, <1>11, <1>14, <1>18, <2>2 DEF SndOK
  <2>4. QED BY <1>1, <1>13, <2>3, SndAlone
<1>19. CASE l # 1
  <2>1. \/ rlmCb[m].rule = "PS" /\ l = n + 1 /\ b = s /\ a = s
        \/ l \in 2 .. n /\ b = IF a = n THEN 1 ELSE a + 1
    BY <1>9, <1>10, <1>12, <1>19
  <2>2. l - 1 \in 1 .. n /\ Gap(n, s, b) = n - (l - 1) /\ Gap(n, s, b) <= Gap(n, s, a) + 1
    <3>1. CASE l = n + 1 /\ b = s /\ a = s
      BY <1>9, <1>16, <3>1
    <3>2. CASE l \in 2 .. n /\ b = IF a = n THEN 1 ELSE a + 1
      <4>1. Gap(n, s, a) = n - l /\ Gap(n, s, a) + 1 < n
        BY <1>9, <3>2
      <4>2. Gap(n, s, b) = Gap(n, s, a) + 1
        <5>1. n \in Nat /\ s \in 1 .. n /\ a \in 1 .. n
          BY <1>9
        <5>2. QED BY <3>2, <4>1, <5>1, GapAfter, SMTT(30)
      <4>3. QED BY <1>9, <3>2, <4>1, <4>2
    <3>3. QED BY <2>1, <3>1, <3>2
  <2>3. \A i \in 1 .. n : Gap(n, s, i) < Gap(n, s, b) => rlmCb[m].reg[i].host \notin up
    BY <1>9, <1>12, <1>16, <1>17, <2>2, SMTT(30)
  <2>4. SndLook'
    <3>1. /\ s \in 1 .. n /\ b \in 1 .. n
          /\ rlmCb'[m].rule = "RR" => s = rlmCb'[m].word
          /\ l - 1 \in 1 .. n /\ Gap(n, s, b) = n - (l - 1)
          /\ \A i \in 1 .. n : Gap(n, s, i) < Gap(n, s, b) => rlmCb'[m].reg[i].host \notin up
          /\ \A h \in Hosts : h \notin up => turns'[m][h] = 0
      BY <1>1, <1>9, <1>12, <2>2, <2>3
    <3>2. QED BY <1>11, <1>14, <3>1 DEF SndLook
  <2>5. SndOK'
    BY <1>1, <1>9, <1>11, <1>14, <1>19, <2>4 DEF SndOK
  <2>6. QED BY <1>1, <1>13, <2>5, SndAlone
<1>20. QED BY <1>18, <1>19

LEMMA SndReturnOK ==
  ASSUME RlmInv, SndReturn PROVE RlmInv'
<1>1. sndCall' = noCall /\ UNCHANGED <<uses, rlmLst, rlmCb, rlmHost, rcvCall, rdLeak, turns, waits, rlmMemErr>>
  BY DEF SndReturn
<1>2. SndOK'
  BY <1>1 DEF SndOK, noCall
<1>3. QED BY <1>1, <1>2, SndAlone

(* A call that takes the host at place a moves the place kept to the next, *)
(* b; a host at place i that it passed over counts one more.               *)
LEMMA TurnStep ==
  ASSUME NEW n \in Nat, NEW w \in 1 .. n, NEW a \in 1 .. n, NEW i \in 1 .. n, NEW t \in Nat,
         NEW b, b = IF a = n THEN 1 ELSE a + 1,
         t + Gap(n, w, i) < n, Gap(n, w, i) < Gap(n, w, a) => t = 0
  PROVE  Gap(n, b, i) < n /\ (i # a => t + 1 + Gap(n, b, i) < n)
<1>1. b \in 1 .. n /\ Gap(n, b, i) \in 0 .. n - 1 /\ Gap(n, w, i) \in 0 .. n - 1 /\ Gap(n, w, a) \in 0 .. n - 1
  BY DEF Gap
<1>2. i # a => Gap(n, b, i) + 1 < n
  BY DEF Gap
<1>3. i # a /\ Gap(n, w, a) <= Gap(n, w, i) => Gap(n, b, i) < Gap(n, w, i)
  BY DEF Gap
<1>4. CASE t = 0
  BY <1>1, <1>2, <1>4
<1>5. CASE t # 0
  BY <1>1, <1>3, <1>5
<1>6. QED BY <1>4, <1>5

(* A step in one realm: its record becomes c.                              *)
LEMMA CbStep ==
  ASSUME RlmTyped, NEW m \in RlmNames, NEW c \in RlmType, rlmCb' = [rlmCb EXCEPT ![m] = c]
  PROVE  /\ rlmCb' \in [RlmNames -> RlmType]
         /\ rlmCb'[m] = c
         /\ \A k \in RlmNames : k # m => rlmCb'[k] = rlmCb[k]
BY DEF RlmTyped

(* A step in one host. *)
LEMMA HostStep ==
  ASSUME RlmTyped, NEW h \in Hosts, NEW c \in HostType, rlmHost' = [rlmHost EXCEPT ![h] = c]
  PROVE  /\ rlmHost' \in [Hosts -> HostType]
         /\ rlmHost'[h] = c
         /\ \A k \in Hosts : k # h => rlmHost'[k] = rlmHost[k]
BY DEF RlmTyped

LEMMA SndRouteOK ==
  ASSUME RlmInv, SndRoute PROVE RlmInv'
<1>1. /\ sndCall.pc = "look" /\ rlmHost[Bucket(sndCall).host].open
      /\ rlmCb' = [rlmCb EXCEPT ![sndCall.rlm].word = NextWord(sndCall.rlm, sndCall.at)]
      /\ turns' = [turns EXCEPT ![sndCall.rlm] = [g \in Hosts |->
           IF g = Bucket(sndCall).host \/ ~rlmHost[g].open \/ rlmCb[sndCall.rlm].rule # "RR"
              \/ g \notin HostsOf(sndCall.rlm)
             THEN 0 ELSE turns[sndCall.rlm][g] + 1]]
      /\ sndCall' = [sndCall EXCEPT !.pc = "done", !.to = sndCall.at]
      /\ UNCHANGED <<uses, rlmLst, rlmHost, rcvCall, rdLeak, waits, rlmMemErr>>
  BY DEF SndRoute
<1>2. sndCall \in SndType
  BY <1>1, RlmFacts DEF RlmInv
<1>3. PICK m \in RlmNames : m = sndCall.rlm
  BY <1>2 DEF SndType
<1>4. PICK n : n = RegCnt(m)
  OBVIOUS
<1>5. PICK a : a = sndCall.at
  OBVIOUS
<1>6. PICK s : s = sndCall.start
  OBVIOUS
<1>7. PICK up : up = sndCall.up
  OBVIOUS
<1>8. PICK h : h = rlmCb[m].reg[a].host
  OBVIOUS
<1>9. /\ RlmTyped /\ RlmListed(m) /\ Bkts(m) # {} /\ BktsOK(m) /\ TurnsOK(m)
      /\ n \in Nat \ {0} /\ Bkts(m) = 1 .. n /\ \A i \in Bkts(m) : rlmCb[m].reg[i].host \in Hosts
      /\ Bucket(sndCall).host = h
      /\ s \in 1 .. n /\ a \in 1 .. n
      /\ After(m, a) = IF a = n THEN 1 ELSE a + 1
      /\ \A g \in up : rlmHost[g].open
      /\ rlmCb[m].rule = "RR" => s = rlmCb[m].word
      /\ \A i \in 1 .. n : Gap(n, s, i) < Gap(n, s, a) => rlmCb[m].reg[i].host \notin up
      /\ \A g \in Hosts : g \notin up => turns[m][g] = 0
  BY <1>1, <1>3, <1>4, <1>5, <1>6, <1>7, <1>8, SndAtBkt
<1>10. /\ rlmCb[m] \in RlmType /\ rlmCb[m].word \in Bkts(m) /\ rlmCb[m].word \in Nat
       /\ HostsOf(m) = {rlmCb[m].reg[i].host : i \in Bkts(m)} /\ Places(m) = Bkts(m)
       /\ \A g \in Hosts : turns[m][g] \in Nat
  <2>1. rlmCb[m].reg # << >>
    BY <1>4, <1>9, RlmFacts
  <2>2. QED BY <1>9, <2>1, RlmFacts DEF BktsOK, Places
<1>11. PICK w : w = NextWord(m, a)
  OBVIOUS
<1>12. /\ rlmCb[m].rule = "RR" => w = IF a = n THEN 1 ELSE a + 1
       /\ rlmCb[m].rule # "RR" => w = rlmCb[m].word
       /\ w \in Bkts(m) /\ w \in Nat
  <2>1. (IF a = n THEN 1 ELSE a + 1) \in 1 .. n
    BY <1>9
  <2>2. QED BY <1>9, <1>10, <1>11, <2>1 DEF NextWord
<1>13. PICK c : c = [rlmCb[m] EXCEPT !.word = w]
  OBVIOUS
<1>14. /\ c \in RlmType /\ c.reg = rlmCb[m].reg /\ c.rule = rlmCb[m].rule /\ c.mask = rlmCb[m].mask
       /\ c.nxtRcv = rlmCb[m].nxtRcv /\ c.word = w
  BY <1>10, <1>12, <1>13 DEF RlmType
<1>15. /\ rlmCb' \in [RlmNames -> RlmType] /\ rlmCb'[m] = c
       /\ \A k \in RlmNames : k # m => rlmCb'[k] = rlmCb[k]
  <2>1. rlmCb' = [rlmCb EXCEPT ![m] = c]
    BY <1>1, <1>3, <1>5, <1>11, <1>13
  <2>2. QED BY <1>9, <1>14, <2>1, CbStep
<1>16. \A k \in RlmNames : /\ rlmCb'[k].reg = rlmCb[k].reg /\ rlmCb'[k].rule = rlmCb[k].rule
                           /\ rlmCb'[k].mask = rlmCb[k].mask /\ rlmCb'[k].nxtRcv = rlmCb[k].nxtRcv
  BY <1>14, <1>15
<1>17. PICK t : t = [g \in Hosts |-> IF g = h \/ ~rlmHost[g].open \/ rlmCb[m].rule # "RR" \/ g \notin HostsOf(m)
                                       THEN 0 ELSE turns[m][g] + 1]
  OBVIOUS
<1>18. t \in [Hosts -> Nat]
  BY <1>10, <1>17
<1>19. turns' \in [RlmNames -> [Hosts -> Nat]] /\ turns'[m] = t
       /\ \A k \in RlmNames : k # m => turns'[k] = turns[k]
  <2>1. turns' = [turns EXCEPT ![m] = t]
    BY <1>1, <1>3, <1>9, <1>17
  <2>2. turns \in [RlmNames -> [Hosts -> Nat]]
    BY <1>9 DEF RlmTyped
  <2>3. QED BY <1>18, <2>1, <2>2
<1>20. /\ sndCall' \in SndType /\ sndCall'.pc = "done" /\ sndCall'.rlm = m /\ sndCall'.start = s
       /\ sndCall'.up = up /\ sndCall'.to = a
  <2>1. a \in Nat
    BY <1>9
  <2>2. sndCall' = [sndCall EXCEPT !.pc = "done", !.to = a]
    BY <1>1, <1>5
  <2>3. QED BY <1>2, <1>3, <1>6, <1>7, <2>1, <2>2 DEF SndType
<1>21. RlmTyped' /\ ListOnce' /\ HostsOK'
  BY <1>1, <1>15, <1>19, <1>20 DEF RlmInv, RlmTyped, ListOnce, HostsOK
<1>22. \A k \in RlmNames : BktsOK(k)'
  <2> TAKE k \in RlmNames
  <2>1. BktsOK(k) /\ \A i \in Bkts(k) : rlmCb[k].reg[i].host \in Hosts
    BY <1>9, RlmFacts DEF RlmInv
  <2>2. rlmCb'[k].word \in Places(k) /\ rlmCb'[k].nxtRcv \in Places(k)
    BY <1>10, <1>12, <1>14, <1>15, <2>1 DEF BktsOK
  <2>3. RlmListed(k)' <=> RlmListed(k)
    BY <1>1 DEF RlmListed
  <2>4. QED BY <1>1, <1>16, <2>1, <2>2, <2>3, BktsKept
<1>23. \A k \in RlmNames : k # m => TurnsOK(k)'
  <2> TAKE k \in RlmNames
  <2> HAVE k # m
  <2>1. TurnsOK(k)
    BY DEF RlmInv
  <2>2. QED BY <1>1, <1>15, <1>19, <2>1, TurnsKept
<1>24. RegCnt(m)' = n /\ Bkts(m)' = 1 .. n /\ RlmListed(m)'
  BY <1>1, <1>4, <1>9, <1>16, SameReg DEF RlmListed
<1>25. TurnsOK(m)'
  <2>1. \A g \in Hosts :
          (c.rule # "RR" \/ ~rlmHost[g].open \/ \A i \in Bkts(m) : c.reg[i].host # g) => t[g] = 0
    BY <1>10, <1>14, <1>17
  <2>2. ASSUME NEW i \in 1 .. n
        PROVE  t[rlmCb[m].reg[i].host] + Gap(n, w, i) < n
    <3>1. PICK g \in Hosts : g = rlmCb[m].reg[i].host
      BY <1>9
    <3>2. turns[m][g] \in Nat /\ turns[m][g] + Gap(n, rlmCb[m].word, i) < n
      BY <1>4, <1>9, <1>10, <3>1 DEF TurnsOK
    <3>3. CASE rlmCb[m].rule # "RR"
      <4>1. t[g] = 0 /\ w = rlmCb[m].word
        BY <1>12, <1>17, <3>3
      <4>2. Gap(n, w, i) < n
        <5>1. n \in Nat /\ w \in 1 .. n
          BY <1>9, <1>12
        <5>2. QED BY <5>1 DEF Gap
      <4>3. Gap(n, w, i) \in Int
        <5>1. n \in Nat /\ w \in 1 .. n
          BY <1>9, <1>12
        <5>2. QED BY <5>1 DEF Gap
      <4>4. QED BY <3>1, <4>1, <4>2, <4>3
    <3>4. CASE rlmCb[m].rule = "RR"
      <4>1. s = rlmCb[m].word /\ w = IF a = n THEN 1 ELSE a + 1
        BY <1>9, <1>12, <3>4
      <4>2. Gap(n, s, i) < Gap(n, s, a) => turns[m][g] = 0
        BY <1>9, <3>1
      <4>3. n \in Nat /\ s \in 1 .. n /\ a \in 1 .. n
        BY <1>9
      <4>4. Gap(n, w, i) < n /\ (i # a => turns[m][g] + 1 + Gap(n, w, i) < n)
        BY <3>2, <4>1, <4>2, <4>3, TurnStep, SMTT(30)
      <4>5. t[g] = 0 \/ (g # h /\ t[g] = turns[m][g] + 1)
        BY <1>17
      <4>6. g # h => i # a
        BY <1>8, <3>1
      <4>7. Gap(n, w, i) \in Int
        <5>1. n \in Nat /\ w \in 1 .. n
          BY <1>9, <1>12
        <5>2. QED BY <5>1 DEF Gap
      <4>8. QED BY <3>1, <4>4, <4>5, <4>6, <4>7
    <3>5. QED BY <3>3, <3>4
  <2>3. /\ rlmCb'[m] = c /\ turns'[m] = t /\ Bkts(m)' = Bkts(m) /\ Bkts(m) = 1 .. n /\ RegCnt(m)' = n
        /\ rlmHost' = rlmHost /\ c.word = w /\ c.reg = rlmCb[m].reg
    BY <1>1, <1>9, <1>14, <1>15, <1>19, <1>24
  <2>4. QED BY <2>1, <2>2, <2>3 DEF TurnsOK
<1>26. \A k \in RlmNames : WaitsOK(k)'
  <2> TAKE k \in RlmNames
  <2>1. WaitsOK(k)
    BY DEF RlmInv
  <2>2. QED BY <1>1, <1>16, <2>1, WaitsKept
<1>27. SndOK'
  <2>1. \A i \in 1 .. n : rlmCb[m].reg[i].host \in up => Gap(n, s, a) <= Gap(n, s, i)
    <3>1. n \in Nat /\ s \in 1 .. n /\ a \in 1 .. n
      BY <1>9
    <3>2. \A i \in 1 .. n : Gap(n, s, i) \in Int
      BY <3>1 DEF Gap
    <3>3. QED BY <1>9, <3>1, <3>2
  <2>2. SndDone'
    BY <1>9, <1>14, <1>15, <1>20, <1>24, <2>1 DEF SndDone
  <2>3. \A g \in up : rlmHost'[g].open
    BY <1>1, <1>9
  <2>4. QED BY <1>9, <1>20, <1>24, <2>2, <2>3 DEF SndOK
<1>28. RcvOK'
  BY <1>1, <1>9, <1>16, RcvKept DEF RlmInv
<1>29. QED BY <1>21, <1>22, <1>23, <1>25, <1>26, <1>27, <1>28 DEF RlmInv

(* Hosts whose count starts anew. *)
LEMMA TurnsFewer ==
  ASSUME RlmTyped, NEW m \in RlmNames, TurnsOK(m),
         rlmCb'[m].reg = rlmCb[m].reg, rlmCb'[m].rule = rlmCb[m].rule, rlmCb'[m].word = rlmCb[m].word,
         rlmCb[m].word \in Places(m),
         \A h \in Hosts : \/ turns'[m][h] = 0
                          \/ turns'[m][h] = turns[m][h] /\ rlmHost'[h].open = rlmHost[h].open
  PROVE  TurnsOK(m)'
<1>1. RegCnt(m)' = RegCnt(m) /\ Bkts(m)' = Bkts(m)
  BY SameReg
<1>2. \A h \in Hosts :
       (rlmCb'[m].rule # "RR" \/ ~rlmHost'[h].open \/ \A i \in Bkts(m)' : rlmCb'[m].reg[i].host # h)
         => turns'[m][h] = 0
  BY <1>1 DEF TurnsOK
<1>3. ASSUME NEW i \in Bkts(m)
      PROVE  turns'[m][rlmCb[m].reg[i].host] + Gap(RegCnt(m), rlmCb[m].word, i) < RegCnt(m)
  <2>1. PICK g \in Hosts : g = rlmCb[m].reg[i].host
    BY RlmFacts
  <2>2. PICK x : x = Gap(RegCnt(m), rlmCb[m].word, i)
    OBVIOUS
  <2>3. PICK n : n = RegCnt(m)
    OBVIOUS
  <2>4. n \in Nat /\ i \in 1 .. n /\ rlmCb[m].word \in 1 .. n /\ turns[m][g] \in Nat
    BY <2>3, RlmFacts DEF Places
  <2>5. x \in Nat /\ x < n
    BY <2>2, <2>3, <2>4 DEF Gap
  <2>6. turns[m][g] + x < n
    BY <2>1, <2>2, <2>3 DEF TurnsOK
  <2>7. turns'[m][g] + x < n
    BY <2>4, <2>5, <2>6
  <2>8. QED BY <2>1, <2>2, <2>3, <2>7
<1>4. QED BY <1>1, <1>2, <1>3 DEF TurnsOK

LEMMA WaitsFewer ==
  ASSUME RlmTyped, NEW m \in RlmNames, WaitsOK(m),
         rlmCb'[m].reg = rlmCb[m].reg, rlmCb'[m].nxtRcv = rlmCb[m].nxtRcv,
         rlmCb[m].nxtRcv \in Places(m),
         \A h \in Hosts : \/ waits'[m][h] = 0
                          \/ waits'[m][h] = waits[m][h] /\ rlmHost'[h].rcv = rlmHost[h].rcv
  PROVE  WaitsOK(m)'
<1>1. RegCnt(m)' = RegCnt(m) /\ Bkts(m)' = Bkts(m)
  BY SameReg
<1>2. \A h \in Hosts : rlmHost'[h].rcv = << >> => waits'[m][h] = 0
  BY <1>1 DEF WaitsOK
<1>3. ASSUME NEW i \in Bkts(m)
      PROVE  waits'[m][rlmCb[m].reg[i].host] + Gap(RegCnt(m), rlmCb[m].nxtRcv, i) < RegCnt(m)
  <2>1. PICK g \in Hosts : g = rlmCb[m].reg[i].host
    BY RlmFacts
  <2>2. PICK x : x = Gap(RegCnt(m), rlmCb[m].nxtRcv, i)
    OBVIOUS
  <2>3. PICK n : n = RegCnt(m)
    OBVIOUS
  <2>4. n \in Nat /\ i \in 1 .. n /\ rlmCb[m].nxtRcv \in 1 .. n /\ waits[m][g] \in Nat
    BY <2>3, RlmFacts DEF Places
  <2>5. x \in Nat /\ x < n
    BY <2>2, <2>3, <2>4 DEF Gap
  <2>6. waits[m][g] + x < n
    BY <2>1, <2>2, <2>3 DEF WaitsOK
  <2>7. waits'[m][g] + x < n
    BY <2>4, <2>5, <2>6
  <2>8. QED BY <2>1, <2>2, <2>3, <2>7
<1>4. QED BY <1>1, <1>2, <1>3 DEF WaitsOK

LEMMA SetStatusOK ==
  ASSUME RlmInv, NEW h \in Hosts, SetStatus(h) PROVE RlmInv'
<1>1. /\ RlmTyped /\ rlmHost[h].live
      /\ rlmHost' = [rlmHost EXCEPT ![h].open = ~rlmHost[h].open]
      /\ turns' = [m \in RlmNames |-> [turns[m] EXCEPT ![h] = 0]]
      /\ sndCall' = IF sndCall.pc = "idle" THEN sndCall ELSE [sndCall EXCEPT !.up = sndCall.up \ {h}]
      /\ UNCHANGED <<uses, rlmLst, rlmCb, rcvCall, rdLeak, waits, rlmMemErr>>
  BY DEF SetStatus, RlmInv
<1>2. PICK c : c = [rlmHost[h] EXCEPT !.open = ~rlmHost[h].open]
  OBVIOUS
<1>3. /\ c \in HostType /\ c.live = rlmHost[h].live /\ c.gen = rlmHost[h].gen /\ c.regs = rlmHost[h].regs
      /\ c.rcv = rlmHost[h].rcv
  <2>1. rlmHost[h] \in HostType
    BY <1>1, RlmFacts
  <2>2. QED BY <1>2, <2>1 DEF HostType
<1>4. /\ rlmHost' \in [Hosts -> HostType] /\ rlmHost'[h] = c
      /\ \A k \in Hosts : k # h => rlmHost'[k] = rlmHost[k]
  BY <1>1, <1>2, <1>3, HostStep
<1>5. \A k \in Hosts : /\ rlmHost'[k].live = rlmHost[k].live /\ rlmHost'[k].gen = rlmHost[k].gen
                       /\ rlmHost'[k].regs = rlmHost[k].regs /\ rlmHost'[k].rcv = rlmHost[k].rcv
  BY <1>3, <1>4
<1>6. /\ turns' \in [RlmNames -> [Hosts -> Nat]]
      /\ \A m \in RlmNames : turns'[m][h] = 0 /\ \A k \in Hosts : k # h => turns'[m][k] = turns[m][k]
  BY <1>1 DEF RlmTyped
<1>7. /\ sndCall' \in {noCall} \cup SndType
      /\ sndCall.pc # "idle" =>
           /\ sndCall'.pc = sndCall.pc /\ sndCall'.rlm = sndCall.rlm /\ sndCall'.start = sndCall.start
           /\ sndCall'.at = sndCall.at /\ sndCall'.left = sndCall.left /\ sndCall'.up = sndCall.up \ {h}
           /\ sndCall'.to = sndCall.to
  <2>1. CASE sndCall.pc = "idle"
    BY <1>1, <2>1 DEF RlmTyped
  <2>2. CASE sndCall.pc # "idle"
    <3>1. sndCall \in SndType /\ sndCall' = [sndCall EXCEPT !.up = sndCall.up \ {h}]
      BY <1>1, <2>2, RlmFacts
    <3>2. sndCall.up \ {h} \in SUBSET Hosts
      BY <3>1 DEF SndType
    <3>3. QED BY <2>2, <3>1, <3>2 DEF SndType
  <2>3. QED BY <2>1, <2>2
<1>8. RlmTyped' /\ ListOnce' /\ HostsOK'
  <2>1. RlmTyped' /\ ListOnce'
    BY <1>1, <1>4, <1>6, <1>7 DEF RlmInv, RlmTyped, ListOnce
  <2>2. HostsOK'
    BY <1>1, <1>4, <1>5 DEF RlmInv, HostsOK
  <2>3. QED BY <2>1, <2>2
<1>9. \A m \in RlmNames : BktsOK(m)' /\ TurnsOK(m)' /\ WaitsOK(m)'
  <2> TAKE m \in RlmNames
  <2>1. BktsOK(m) /\ TurnsOK(m) /\ WaitsOK(m) /\ (RlmListed(m)' <=> RlmListed(m)) /\ rlmCb'[m] = rlmCb[m]
    BY <1>1 DEF RlmInv, RlmListed
  <2>2. rlmCb[m].word \in Places(m) /\ rlmCb[m].nxtRcv \in Places(m)
    BY <2>1 DEF BktsOK
  <2>3. \A i \in Bkts(m) : rlmCb[m].reg[i].host \in Hosts
    BY <1>1, RlmFacts
  <2>4. BktsOK(m)'
    BY <1>5, <2>1, <2>2, <2>3, BktsKept
  <2>5. TurnsOK(m)'
    BY <1>1, <1>4, <1>6, <2>1, <2>2, TurnsFewer
  <2>6. WaitsOK(m)'
    BY <1>1, <1>5, <2>1, WaitsKept
  <2>7. QED BY <2>4, <2>5, <2>6
<1>10. SndOK'
  <2>1. CASE sndCall.pc = "idle"
    BY <1>1, <2>1 DEF SndOK
  <2>2. CASE sndCall.pc # "idle"
    <3>1. sndCall \in SndType /\ SndOK
      BY <1>1, <2>2, RlmFacts DEF RlmInv
    <3>2. PICK m \in RlmNames : m = sndCall.rlm
      BY <3>1 DEF SndType
    <3>3. /\ RegCnt(m)' = RegCnt(m) /\ Bkts(m)' = Bkts(m) /\ (RlmListed(m)' <=> RlmListed(m))
          /\ rlmCb' = rlmCb
      BY <1>1 DEF RegCnt, Bkts, RlmListed
    <3>4. \A k \in sndCall'.up : k \in sndCall.up /\ k \in Hosts /\ k # h /\ rlmHost'[k].open = rlmHost[k].open
      BY <1>4, <1>7, <2>2, <3>1 DEF SndType
    <3>5. \A k \in Hosts : k \notin sndCall'.up => turns'[m][k] = 0 \/ (k \notin sndCall.up /\ turns'[m][k] = turns[m][k])
      BY <1>6, <1>7, <2>2
    <3>6. sndCall.pc = "look" => SndLook'
      BY <1>7, <2>2, <3>1, <3>2, <3>3, <3>4, <3>5 DEF SndOK, SndLook
    <3>7. sndCall.pc = "done" => SndDone'
      BY <1>7, <2>2, <3>1, <3>2, <3>3, <3>4 DEF SndOK, SndDone
    <3>8. QED BY <1>7, <2>2, <3>1, <3>2, <3>3, <3>4, <3>6, <3>7 DEF SndOK
  <2>3. QED BY <2>1, <2>2
<1>11. RcvOK'
  BY <1>1, <1>5, RcvKept DEF RlmInv
<1>12. QED BY <1>8, <1>9, <1>10, <1>11 DEF RlmInv

LEMMA DeliverOK ==
  ASSUME RlmInv, NEW h \in Hosts, NEW kind \in {"data", "big"}, Deliver(h, kind) PROVE RlmInv'
<1>1. /\ RlmTyped /\ rlmHost[h].live
      /\ rlmHost' = [rlmHost EXCEPT ![h].rcv = Append(rlmHost[h].rcv, kind)]
      /\ UNCHANGED <<uses, rlmLst, rlmCb, sndCall, rcvCall, rdLeak, turns, waits, rlmMemErr>>
  BY DEF Deliver, RlmInv
<1>2. PICK c : c = [rlmHost[h] EXCEPT !.rcv = Append(rlmHost[h].rcv, kind)]
  OBVIOUS
<1>3. /\ c \in HostType /\ c.live = rlmHost[h].live /\ c.gen = rlmHost[h].gen /\ c.regs = rlmHost[h].regs
      /\ c.open = rlmHost[h].open /\ c.rcv # << >>
  <2>1. rlmHost[h] \in HostType /\ rlmHost[h].rcv \in Seq({"data", "big"})
    BY <1>1, RlmFacts
  <2>2. /\ Append(rlmHost[h].rcv, kind) \in Seq({"data", "big"})
        /\ Append(rlmHost[h].rcv, kind) # << >>
    BY <2>1
  <2>3. QED BY <1>2, <2>1, <2>2 DEF HostType
<1>4. /\ rlmHost' \in [Hosts -> HostType] /\ rlmHost'[h] = c
      /\ \A k \in Hosts : k # h => rlmHost'[k] = rlmHost[k]
  BY <1>1, <1>2, <1>3, HostStep
<1>5. \A k \in Hosts : /\ rlmHost'[k].live = rlmHost[k].live /\ rlmHost'[k].gen = rlmHost[k].gen
                       /\ rlmHost'[k].regs = rlmHost[k].regs /\ rlmHost'[k].open = rlmHost[k].open
                       /\ rlmHost'[k].rcv = << >> => rlmHost[k].rcv = << >>
  BY <1>3, <1>4
<1>6. RlmTyped' /\ ListOnce' /\ HostsOK'
  <2>1. RlmTyped' /\ ListOnce'
    BY <1>1, <1>4 DEF RlmInv, RlmTyped, ListOnce
  <2>2. HostsOK'
    BY <1>1, <1>3, <1>4 DEF RlmInv, HostsOK
  <2>3. QED BY <2>1, <2>2
<1>7. \A m \in RlmNames : BktsOK(m)' /\ TurnsOK(m)' /\ WaitsOK(m)'
  <2> TAKE m \in RlmNames
  <2>1. BktsOK(m) /\ TurnsOK(m) /\ WaitsOK(m) /\ (RlmListed(m)' <=> RlmListed(m)) /\ rlmCb'[m] = rlmCb[m]
    BY <1>1 DEF RlmInv, RlmListed
  <2>2. rlmCb[m].word \in Places(m) /\ rlmCb[m].nxtRcv \in Places(m)
    BY <2>1 DEF BktsOK
  <2>3. \A i \in Bkts(m) : rlmCb[m].reg[i].host \in Hosts
    BY <1>1, RlmFacts
  <2>4. BktsOK(m)'
    BY <1>5, <2>1, <2>2, <2>3, BktsKept
  <2>5. TurnsOK(m)'
    BY <1>1, <1>5, <2>1, TurnsKept
  <2>6. WaitsOK(m)'
    BY <1>1, <1>5, <2>1, WaitsKept
  <2>7. QED BY <2>4, <2>5, <2>6
<1>8. SndOK'
  BY <1>1, <1>5, SndKept DEF RlmInv
<1>9. RcvOK'
  BY <1>1, <1>5, RcvKept DEF RlmInv
<1>10. QED BY <1>6, <1>7, <1>8, <1>9 DEF RlmInv

LEMMA RcvReturnOK ==
  ASSUME RlmInv, RcvReturn PROVE RlmInv'
<1>1. rcvCall' = noCall /\ UNCHANGED <<uses, rlmLst, rlmCb, rlmHost, sndCall, rdLeak, turns, waits, rlmMemErr>>
  BY DEF RcvReturn
<1>2. RcvOK'
  BY <1>1 DEF RcvOK, noCall
<1>3. QED BY <1>1, <1>2, RcvAlone

LEMMA RcvBeginOK ==
  ASSUME RlmInv, NEW m \in RlmNames, RcvBegin(m) PROVE RlmInv'
<1> DEFINE s == rlmCb[m].nxtRcv
           n == RegCnt(m)
<1>1. /\ RlmTyped /\ BktsOK(m) /\ WaitsOK(m) /\ RlmListed(m) /\ n > 0
      /\ rcvCall' = [pc |-> "look", rlm |-> m, at |-> s, left |-> MaxRegHostCnt, had |-> Waiting(m), res |-> "none"]
      /\ UNCHANGED <<uses, rlmLst, rlmCb, rlmHost, sndCall, rdLeak, turns, waits, rlmMemErr>>
  BY DEF RlmInv, RcvBegin
<1>2. /\ n \in Nat \ {0} /\ Bkts(m) = 1 .. n /\ HostsOf(m) = {rlmCb[m].reg[i].host : i \in Bkts(m)}
      /\ \A i \in Bkts(m) : rlmCb[m].reg[i].host \in Hosts
      /\ rlmCb[m].reg # << >>
  BY <1>1, RlmFacts
<1>3. s \in 1 .. n
  BY <1>1, <1>2 DEF BktsOK, Places
<1>4. /\ Waiting(m) \subseteq Hosts
      /\ \A h \in Waiting(m) : rlmHost[h].rcv # << >> /\ \E i \in Bkts(m) : rlmCb[m].reg[i].host = h
      /\ \A i \in Bkts(m) : rlmCb[m].reg[i].host \notin Waiting(m) => rlmHost[rlmCb[m].reg[i].host].rcv = << >>
  BY <1>2 DEF Waiting
<1>5. \A i \in Bkts(m) : rlmCb[m].reg[i].host \notin Waiting(m) => waits[m][rlmCb[m].reg[i].host] = 0
  BY <1>1, <1>2, <1>4 DEF WaitsOK
<1> HIDE DEF s, n
<1>6. Gap(n, s, s) = 0 /\ \A i \in 1 .. n : Gap(n, s, i) \in Nat
  BY <1>2, <1>3 DEF Gap
<1>7. MaxRegHostCnt \in Nat \ {0}
  BY RlmAssumption
<1>8. /\ rcvCall'.pc = "look" /\ rcvCall'.rlm = m /\ rcvCall'.at = s /\ rcvCall'.left = MaxRegHostCnt
      /\ rcvCall'.had = Waiting(m) /\ rcvCall'.res = "none"
  BY <1>1
<1>9. rcvCall' \in RcvType
  <2>1. s \in Nat
    BY <1>2, <1>3
  <2>2. QED BY <1>1, <1>4, <1>7, <2>1 DEF RcvType
<1>10. RegCnt(m)' = n /\ Bkts(m)' = 1 .. n /\ RlmListed(m)' /\ rlmCb' = rlmCb /\ rlmHost' = rlmHost /\ waits' = waits
  BY <1>1, <1>2 DEF RegCnt, Bkts, RlmListed, n
<1>11. RcvLook'
  <2>1. /\ MaxRegHostCnt \in 1 .. MaxRegHostCnt /\ MaxRegHostCnt - MaxRegHostCnt = 0
        /\ \A i \in 1 .. n : ~(Gap(n, s, i) < 0)
    BY <1>6, <1>7
  <2>2. QED BY <1>2, <1>3, <1>4, <1>5, <1>6, <1>8, <1>10, <2>1 DEF RcvLook, s
<1>12. RcvOK'
  BY <1>1, <1>3, <1>8, <1>10, <1>11 DEF RcvOK
<1>13. QED BY <1>1, <1>9, <1>12, RcvAlone

(* The receive is at bucket a of its realm m. *)
LEMMA RcvAtBkt ==
  ASSUME RlmInv, rcvCall.pc = "look",
         NEW m \in RlmNames, m = rcvCall.rlm, NEW n, n = RegCnt(m), NEW a, a = rcvCall.at
  PROVE  /\ RlmTyped /\ RlmListed(m) /\ Bkts(m) # {} /\ BktsOK(m) /\ WaitsOK(m)
         /\ rcvCall \in RcvType /\ n \in Nat \ {0} /\ Bkts(m) = 1 .. n /\ n <= MaxRegHostCnt
         /\ \A i \in Bkts(m) : rlmCb[m].reg[i].host \in Hosts
         /\ Bucket(rcvCall) = rlmCb[m].reg[a]
         /\ rlmCb[m].nxtRcv \in 1 .. n /\ a \in 1 .. n /\ rcvCall.left \in 1 .. MaxRegHostCnt
         /\ After(m, a) = IF a = n THEN 1 ELSE a + 1
         /\ MaxRegHostCnt - rcvCall.left < n => Gap(n, rlmCb[m].nxtRcv, a) = MaxRegHostCnt - rcvCall.left
         /\ \A i \in 1 .. n : Gap(n, rlmCb[m].nxtRcv, i) < MaxRegHostCnt - rcvCall.left =>
              rlmCb[m].reg[i].host \notin rcvCall.had
         /\ \A i \in 1 .. n : rlmCb[m].reg[i].host \notin rcvCall.had => waits[m][rlmCb[m].reg[i].host] = 0
         /\ \A h \in rcvCall.had : rlmHost[h].rcv # << >> /\ \E i \in 1 .. n : rlmCb[m].reg[i].host = h
         /\ rcvCall.res = "none"
<1>1. RlmTyped /\ RcvOK /\ RcvLook /\ BktsOK(m) /\ WaitsOK(m)
  BY DEF RlmInv, RcvOK
<1>2. /\ rcvCall \in RcvType /\ n \in Nat /\ Bkts(m) = 1 .. n
      /\ \A i \in Bkts(m) : rlmCb[m].reg[i].host \in Hosts
  BY <1>1, RlmFacts
<1>3. RlmListed(m) /\ Bkts(m) # {}
  BY <1>1 DEF RcvOK
<1>4. n # 0 /\ rlmCb[m].reg # << >>
  BY <1>1, <1>2, <1>3, RlmFacts
<1>5. Bucket(rcvCall) = rlmCb[m].reg[a] /\ After(m, a) = IF a = n THEN 1 ELSE a + 1
  BY DEF Bucket, After
<1>6. n <= MaxRegHostCnt /\ rlmCb[m].nxtRcv \in 1 .. n
  BY <1>1, <1>2, <1>4 DEF BktsOK, Places
<1>7. QED BY <1>1, <1>2, <1>3, <1>4, <1>5, <1>6 DEF RcvLook

LEMMA RcvNextOK ==
  ASSUME RlmInv, RcvNext PROVE RlmInv'
<1>1. /\ rcvCall.pc = "look" /\ rlmHost[Bucket(rcvCall).host].rcv = << >>
      /\ rcvCall' = [rcvCall EXCEPT
           !.left = rcvCall.left - 1,
           !.at = After(rcvCall.rlm, rcvCall.at),
           !.pc = IF rcvCall.left = 1 THEN "done" ELSE "look"]
      /\ UNCHANGED <<uses, rlmLst, rlmCb, rlmHost, sndCall, rdLeak, turns, waits, rlmMemErr>>
  BY DEF RcvNext
<1>2. rcvCall \in RcvType
  BY <1>1, RlmFacts DEF RlmInv
<1>3. PICK m \in RlmNames : m = rcvCall.rlm
  BY <1>2 DEF RcvType
<1>4. PICK n : n = RegCnt(m)
  OBVIOUS
<1>5. PICK a : a = rcvCall.at
  OBVIOUS
<1>6. PICK s : s = rlmCb[m].nxtRcv
  OBVIOUS
<1>7. PICK had : had = rcvCall.had
  OBVIOUS
<1>8. PICK l : l = rcvCall.left
  OBVIOUS
<1>9. /\ RlmTyped /\ RlmListed(m) /\ Bkts(m) # {} /\ BktsOK(m) /\ WaitsOK(m)
      /\ n \in Nat \ {0} /\ Bkts(m) = 1 .. n /\ n <= MaxRegHostCnt
      /\ \A i \in Bkts(m) : rlmCb[m].reg[i].host \in Hosts
      /\ Bucket(rcvCall) = rlmCb[m].reg[a]
      /\ s \in 1 .. n /\ a \in 1 .. n /\ l \in 1 .. MaxRegHostCnt
      /\ After(m, a) = IF a = n THEN 1 ELSE a + 1
      /\ MaxRegHostCnt - l < n => Gap(n, s, a) = MaxRegHostCnt - l
      /\ \A i \in 1 .. n : Gap(n, s, i) < MaxRegHostCnt - l => rlmCb[m].reg[i].host \notin had
      /\ \A i \in 1 .. n : rlmCb[m].reg[i].host \notin had => waits[m][rlmCb[m].reg[i].host] = 0
      /\ \A h \in had : rlmHost[h].rcv # << >> /\ \E i \in 1 .. n : rlmCb[m].reg[i].host = h
      /\ rcvCall.res = "none"
  BY <1>1, <1>3, <1>4, <1>5, <1>6, <1>7, <1>8, RcvAtBkt, SMTT(30)
<1>10. PICK b : b = After(m, a)
  OBVIOUS
<1>11. b \in 1 .. n /\ l - 1 \in Nat /\ MaxRegHostCnt \in Nat \ {0} /\ n \in Nat /\ s \in 1 .. n /\ a \in 1 .. n
  BY <1>9, <1>10, RlmAssumption
<1>12. /\ rcvCall'.pc = (IF l = 1 THEN "done" ELSE "look") /\ rcvCall'.rlm = m /\ rcvCall'.at = b
       /\ rcvCall'.left = l - 1 /\ rcvCall'.had = had /\ rcvCall'.res = "none"
       /\ rcvCall' \in RcvType
  <2>1. b \in Nat
    BY <1>11
  <2>2. rcvCall' = [rcvCall EXCEPT !.left = l - 1, !.at = b, !.pc = IF l = 1 THEN "done" ELSE "look"]
    BY <1>1, <1>3, <1>5, <1>8, <1>10
  <2>3. QED BY <1>2, <1>3, <1>7, <1>9, <1>11, <2>1, <2>2 DEF RcvType
<1>13. RegCnt(m)' = n /\ Bkts(m)' = 1 .. n /\ RlmListed(m)' /\ rlmCb' = rlmCb /\ rlmHost' = rlmHost /\ waits' = waits
  BY <1>1, <1>4, <1>9 DEF RegCnt, Bkts, RlmListed
<1>14. rlmCb[m].reg[a].host \notin had
  BY <1>1, <1>9
<1>15. /\ \A i \in 1 .. n : Gap(n, s, i) \in 0 .. n - 1
       /\ \A i \in 1 .. n : Gap(n, s, i) = Gap(n, s, a) => i = a
  BY <1>11 DEF Gap
<1>16. \A i \in 1 .. n : Gap(n, s, i) < MaxRegHostCnt - (l - 1) => rlmCb[m].reg[i].host \notin had
  <2> TAKE i \in 1 .. n
  <2> HAVE Gap(n, s, i) < MaxRegHostCnt - (l - 1)
  <2>1. Gap(n, s, i) < MaxRegHostCnt - l \/ Gap(n, s, i) = MaxRegHostCnt - l
    BY <1>9, <1>11, <1>15
  <2>2. CASE Gap(n, s, i) < MaxRegHostCnt - l
    BY <1>9, <2>2
  <2>3. CASE Gap(n, s, i) = MaxRegHostCnt - l
    <3>1. MaxRegHostCnt - l < n
      BY <1>15, <1>11, <2>3
    <3>2. i = a
      BY <1>9, <1>15, <2>3, <3>1
    <3>3. QED BY <1>14, <3>2
  <2>4. QED BY <2>1, <2>2, <2>3
<1>17. CASE l = 1
  <2>1. \A i \in 1 .. n : rlmCb[m].reg[i].host \notin had
    BY <1>9, <1>11, <1>15, <1>16, <1>17
  <2>2. had = {}
    BY <1>9, <2>1
  <2>3. RcvOK'
    BY <1>9, <1>12, <1>13, <1>17, <2>2 DEF RcvOK
  <2>4. QED BY <1>1, <1>12, <2>3, RcvAlone
<1>18. CASE l # 1
  <2>1. l - 1 \in 1 .. MaxRegHostCnt
    BY <1>9, <1>11, <1>18
  <2>2. MaxRegHostCnt - (l - 1) < n => Gap(n, s, b) = MaxRegHostCnt - (l - 1)
    <3> HAVE MaxRegHostCnt - (l - 1) < n
    <3>1. MaxRegHostCnt - l < n /\ MaxRegHostCnt - (l - 1) = MaxRegHostCnt - l + 1
      BY <1>9, <1>11
    <3>2. Gap(n, s, a) + 1 < n
      BY <1>9, <3>1
    <3>3. Gap(n, s, b) = Gap(n, s, a) + 1
      <4>1. b = IF a = n THEN 1 ELSE a + 1
        BY <1>9, <1>10
      <4>2. QED BY <1>11, <3>2, <4>1, GapAfter
    <3>4. QED BY <1>9, <3>1, <3>3
  <2>3. /\ s = rlmCb'[m].nxtRcv
        /\ \A i \in 1 .. n : rlmCb'[m].reg[i].host \notin had => waits'[m][rlmCb'[m].reg[i].host] = 0
        /\ \A h \in had : rlmHost'[h].rcv # << >> /\ \E i \in 1 .. n : rlmCb'[m].reg[i].host = h
        /\ \A i \in 1 .. n : Gap(n, s, i) < MaxRegHostCnt - (l - 1) => rlmCb'[m].reg[i].host \notin had
    BY <1>6, <1>9, <1>13, <1>16
  <2>4. RcvLook'
    BY <1>11, <1>12, <1>13, <2>1, <2>2, <2>3 DEF RcvLook
  <2>5. RcvOK'
    BY <1>9, <1>12, <1>13, <1>18, <2>4 DEF RcvOK
  <2>6. QED BY <1>1, <1>12, <2>5, RcvAlone
<1>19. QED BY <1>17, <1>18

(* The receive took the head of the queue of its host: what changed in the *)
(* hosts.                                                                  *)
LEMMA RcvFromHost ==
  ASSUME RlmTyped, HostsOK, NEW h \in Hosts, rlmHost[h].rcv # << >>,
         rlmHost' = [rlmHost EXCEPT ![h].rcv = Tail(rlmHost[h].rcv)]
  PROVE  /\ rlmHost' \in [Hosts -> HostType] /\ HostsOK'
         /\ \A k \in Hosts : /\ rlmHost'[k].live = rlmHost[k].live /\ rlmHost'[k].gen = rlmHost[k].gen
                             /\ rlmHost'[k].regs = rlmHost[k].regs /\ rlmHost'[k].open = rlmHost[k].open
         /\ \A k \in Hosts : k # h => rlmHost'[k].rcv = rlmHost[k].rcv
<1>1. PICK c : c = [rlmHost[h] EXCEPT !.rcv = Tail(rlmHost[h].rcv)]
  OBVIOUS
<1>2. /\ c \in HostType /\ c.live = rlmHost[h].live /\ c.gen = rlmHost[h].gen /\ c.regs = rlmHost[h].regs
      /\ c.open = rlmHost[h].open
  <2>1. rlmHost[h] \in HostType /\ rlmHost[h].rcv \in Seq({"data", "big"})
    BY RlmFacts
  <2>2. Tail(rlmHost[h].rcv) \in Seq({"data", "big"})
    BY <2>1
  <2>3. QED BY <1>1, <2>1, <2>2 DEF HostType
<1>3. /\ rlmHost' \in [Hosts -> HostType] /\ rlmHost'[h] = c
      /\ \A k \in Hosts : k # h => rlmHost'[k] = rlmHost[k]
  BY <1>1, <1>2, HostStep
<1>4. rlmHost[h].live
  BY DEF HostsOK
<1>5. HostsOK'
  BY <1>2, <1>3, <1>4 DEF HostsOK
<1>6. QED BY <1>2, <1>3, <1>5

LEMMA RcvTakeOK ==
  ASSUME RlmInv, RcvTake PROVE RlmInv'
<1>1. /\ rcvCall.pc = "look" /\ rlmHost[Bucket(rcvCall).host].rcv # << >>
      /\ rlmHost' = [rlmHost EXCEPT ![Bucket(rcvCall).host].rcv = Tail(rlmHost[Bucket(rcvCall).host].rcv)]
      /\ rlmCb' = [rlmCb EXCEPT ![rcvCall.rlm].nxtRcv = After(rcvCall.rlm, rcvCall.at)]
      /\ waits' = [k \in RlmNames |-> [g \in Hosts |->
           IF g = Bucket(rcvCall).host \/ rlmHost[g].rcv = << >> THEN 0
           ELSE IF k = rcvCall.rlm /\ g \in HostsOf(rcvCall.rlm) THEN waits[k][g] + 1 ELSE waits[k][g]]]
      /\ rcvCall' = [rcvCall EXCEPT !.pc = "done", !.res = "message"]
      /\ UNCHANGED <<uses, rlmLst, sndCall, rdLeak, turns, rlmMemErr>>
  BY DEF RcvTake, NextRcv
<1>2. rcvCall \in RcvType
  BY <1>1, RlmFacts DEF RlmInv
<1>3. PICK m \in RlmNames : m = rcvCall.rlm
  BY <1>2 DEF RcvType
<1>4. PICK n : n = RegCnt(m)
  OBVIOUS
<1>5. PICK a : a = rcvCall.at
  OBVIOUS
<1>6. PICK s : s = rlmCb[m].nxtRcv
  OBVIOUS
<1>7. PICK had : had = rcvCall.had
  OBVIOUS
<1>8. PICK l : l = rcvCall.left
  OBVIOUS
<1>9. PICK h : h = rlmCb[m].reg[a].host
  OBVIOUS
<1>10. /\ RlmTyped /\ RlmListed(m) /\ Bkts(m) # {} /\ BktsOK(m) /\ WaitsOK(m)
       /\ n \in Nat \ {0} /\ Bkts(m) = 1 .. n
       /\ \A i \in Bkts(m) : rlmCb[m].reg[i].host \in Hosts
       /\ Bucket(rcvCall).host = h
       /\ s \in 1 .. n /\ a \in 1 .. n /\ l \in 1 .. MaxRegHostCnt
       /\ After(m, a) = IF a = n THEN 1 ELSE a + 1
       /\ MaxRegHostCnt - l < n => Gap(n, s, a) = MaxRegHostCnt - l
       /\ \A i \in 1 .. n : Gap(n, s, i) < MaxRegHostCnt - l => rlmCb[m].reg[i].host \notin had
       /\ \A i \in 1 .. n : rlmCb[m].reg[i].host \notin had => waits[m][rlmCb[m].reg[i].host] = 0
       /\ h \in Hosts
  BY <1>1, <1>3, <1>4, <1>5, <1>6, <1>7, <1>8, <1>9, RcvAtBkt, SMTT(30)
<1>11. PICK b : b = After(m, a)
  OBVIOUS
<1>12. b \in 1 .. n /\ b \in Nat /\ MaxRegHostCnt \in Nat /\ n \in Nat /\ s \in 1 .. n /\ a \in 1 .. n
  BY <1>10, <1>11, RlmAssumption
<1>13. /\ rlmCb[m] \in RlmType /\ Places(m) = Bkts(m)
       /\ HostsOf(m) = {rlmCb[m].reg[i].host : i \in Bkts(m)}
       /\ \A k \in RlmNames : \A g \in Hosts : waits[k][g] \in Nat
  BY <1>4, <1>10, RlmFacts DEF Places
<1>14. PICK c : c = [rlmCb[m] EXCEPT !.nxtRcv = b]
  OBVIOUS
<1>15. /\ c \in RlmType /\ c.reg = rlmCb[m].reg /\ c.rule = rlmCb[m].rule /\ c.mask = rlmCb[m].mask
       /\ c.nxtRcv = b /\ c.word = rlmCb[m].word
  BY <1>12, <1>13, <1>14 DEF RlmType
<1>16. /\ rlmCb' \in [RlmNames -> RlmType] /\ rlmCb'[m] = c
       /\ \A k \in RlmNames : k # m => rlmCb'[k] = rlmCb[k]
  <2>1. rlmCb' = [rlmCb EXCEPT ![m] = c]
    BY <1>1, <1>3, <1>5, <1>11, <1>14
  <2>2. QED BY <1>10, <1>15, <2>1, CbStep
<1>17. \A k \in RlmNames : /\ rlmCb'[k].reg = rlmCb[k].reg /\ rlmCb'[k].rule = rlmCb[k].rule
                           /\ rlmCb'[k].mask = rlmCb[k].mask /\ rlmCb'[k].word = rlmCb[k].word
  BY <1>15, <1>16
<1>18. /\ rlmHost' \in [Hosts -> HostType] /\ HostsOK'
       /\ \A k \in Hosts : /\ rlmHost'[k].live = rlmHost[k].live /\ rlmHost'[k].gen = rlmHost[k].gen
                           /\ rlmHost'[k].regs = rlmHost[k].regs /\ rlmHost'[k].open = rlmHost[k].open
       /\ \A k \in Hosts : k # h => rlmHost'[k].rcv = rlmHost[k].rcv
  <2>1. rlmHost[h].rcv # << >> /\ rlmHost' = [rlmHost EXCEPT ![h].rcv = Tail(rlmHost[h].rcv)] /\ HostsOK
    BY <1>1, <1>10 DEF RlmInv
  <2>2. QED BY <1>10, <2>1, RcvFromHost
<1>19. /\ waits' \in [RlmNames -> [Hosts -> Nat]]
       /\ \A k \in RlmNames : \A g \in Hosts :
            /\ g = h \/ rlmHost[g].rcv = << >> => waits'[k][g] = 0
            /\ g # h => waits'[k][g] = 0 \/ (k # m /\ waits'[k][g] = waits[k][g])
                          \/ (k = m /\ g \in HostsOf(m) /\ waits'[k][g] = waits[k][g] + 1)
                          \/ (k = m /\ g \notin HostsOf(m) /\ waits'[k][g] = waits[k][g])
  <2>1. waits' = [k \in RlmNames |-> [g \in Hosts |->
          IF g = h \/ rlmHost[g].rcv = << >> THEN 0
          ELSE IF k = m /\ g \in HostsOf(m) THEN waits[k][g] + 1 ELSE waits[k][g]]]
    BY <1>1, <1>3, <1>10
  <2>2. QED BY <1>13, <2>1
<1>20. /\ rcvCall' \in RcvType /\ rcvCall'.pc = "done" /\ rcvCall'.rlm = m /\ rcvCall'.res = "message"
  BY <1>1, <1>2, <1>3 DEF RcvType
<1>21. RlmTyped' /\ ListOnce' /\ HostsOK'
  BY <1>1, <1>16, <1>18, <1>19, <1>20 DEF RlmInv, RlmTyped, ListOnce
<1>22. \A k \in RlmNames : BktsOK(k)'
  <2> TAKE k \in RlmNames
  <2>1. BktsOK(k) /\ \A i \in Bkts(k) : rlmCb[k].reg[i].host \in Hosts
    BY <1>10, RlmFacts DEF RlmInv
  <2>2. rlmCb'[k].word \in Places(k) /\ rlmCb'[k].nxtRcv \in Places(k)
    <3>1. rlmCb[k].word \in Places(k) /\ rlmCb[k].nxtRcv \in Places(k)
      BY <2>1 DEF BktsOK
    <3>2. k = m => rlmCb'[k].nxtRcv \in Places(k)
      BY <1>10, <1>12, <1>13, <1>15, <1>16
    <3>3. QED BY <1>16, <1>17, <3>1, <3>2
  <2>3. RlmListed(k)' <=> RlmListed(k)
    BY <1>1 DEF RlmListed
  <2>4. QED BY <1>17, <1>18, <2>1, <2>2, <2>3, BktsKept
<1>23. \A k \in RlmNames : TurnsOK(k)'
  <2> TAKE k \in RlmNames
  <2>1. TurnsOK(k)
    BY DEF RlmInv
  <2>2. QED BY <1>1, <1>17, <1>18, <2>1, TurnsKept
<1>24. \A k \in RlmNames : k # m => WaitsOK(k)'
  <2> TAKE k \in RlmNames
  <2> HAVE k # m
  <2>1. WaitsOK(k) /\ rlmCb[k].nxtRcv \in Places(k)
    BY DEF RlmInv, BktsOK
  <2>2. \A g \in Hosts : \/ waits'[k][g] = 0
                         \/ waits'[k][g] = waits[k][g] /\ rlmHost'[g].rcv = rlmHost[g].rcv
    BY <1>18, <1>19
  <2>3. QED BY <1>10, <1>16, <2>1, <2>2, WaitsFewer
<1>25. RegCnt(m)' = n /\ Bkts(m)' = 1 .. n /\ RlmListed(m)' /\ Bkts(m)' # {}
  <2>1. RlmListed(m)' <=> RlmListed(m)
    BY <1>1 DEF RlmListed
  <2>2. QED BY <1>4, <1>10, <1>17, <2>1, SameReg
<1>26. WaitsOK(m)'
  <2>1. \A g \in Hosts : rlmHost'[g].rcv = << >> => waits'[m][g] = 0
    BY <1>18, <1>19
  <2>2. ASSUME NEW i \in 1 .. n
        PROVE  waits'[m][rlmCb[m].reg[i].host] + Gap(n, b, i) < n
    <3>1. PICK g \in Hosts : g = rlmCb[m].reg[i].host
      BY <1>10
    <3>2. PICK t : t = waits[m][g]
      OBVIOUS
    <3>3. t \in Nat /\ t + Gap(n, s, i) < n
      BY <1>4, <1>6, <1>10, <1>13, <3>1, <3>2 DEF WaitsOK
    <3>4. Gap(n, s, i) \in 0 .. n - 1 /\ Gap(n, s, a) \in 0 .. n - 1 /\ Gap(n, b, i) \in 0 .. n - 1
      BY <1>12 DEF Gap
    <3>5. Gap(n, s, i) < Gap(n, s, a) => t = 0
      <4> HAVE Gap(n, s, i) < Gap(n, s, a)
      <4>1. Gap(n, s, i) < MaxRegHostCnt - l
        BY <1>10, <1>12, <3>4
      <4>2. QED BY <1>10, <3>1, <3>2, <4>1
    <3>6. b = IF a = n THEN 1 ELSE a + 1
      BY <1>10, <1>11
    <3>7. Gap(n, b, i) < n /\ (i # a => t + 1 + Gap(n, b, i) < n)
      BY <1>12, <3>3, <3>5, <3>6, TurnStep
    <3>8. g # h => i # a
      BY <1>9, <3>1
    <3>9. g \in HostsOf(m)
      BY <1>10, <1>13, <3>1
    <3>10. waits'[m][g] = 0 \/ (g # h /\ waits'[m][g] = t + 1)
      BY <1>19, <3>2, <3>9
    <3>11. QED BY <3>1, <3>3, <3>4, <3>7, <3>8, <3>10
  <2>3. rlmCb'[m].nxtRcv = b /\ rlmCb'[m].reg = rlmCb[m].reg
    BY <1>15, <1>16
  <2>4. QED BY <1>25, <2>1, <2>2, <2>3 DEF WaitsOK
<1>27. SndOK'
  BY <1>1, <1>10, <1>17, <1>18, SndKept DEF RlmInv
<1>28. RcvOK'
  BY <1>20, <1>25 DEF RcvOK
<1>29. QED BY <1>21, <1>22, <1>23, <1>24, <1>26, <1>27, <1>28 DEF RlmInv

LEMMA RcvTooSmallOK ==
  ASSUME RlmInv, RcvTooSmall PROVE RlmInv'
<1>1. /\ RlmTyped /\ rcvCall.pc = "look" /\ rlmHost[Bucket(rcvCall).host].rcv # << >>
      /\ rlmHost' = [rlmHost EXCEPT ![Bucket(rcvCall).host].rcv = Tail(rlmHost[Bucket(rcvCall).host].rcv)]
      /\ waits' = [k \in RlmNames |-> [waits[k] EXCEPT ![Bucket(rcvCall).host] = 0]]
      /\ rcvCall' = [rcvCall EXCEPT !.pc = "done", !.res = "error"]
      /\ UNCHANGED <<uses, rlmLst, rlmCb, sndCall, rdLeak, turns, rlmMemErr>>
  BY DEF RcvTooSmall, RlmInv
<1>2. rcvCall \in RcvType
  BY <1>1, RlmFacts
<1>3. PICK m \in RlmNames : m = rcvCall.rlm
  BY <1>2 DEF RcvType
<1>4. PICK h \in Hosts : h = Bucket(rcvCall).host
  BY <1>1, <1>3, RcvAtBkt
<1>5. RlmListed(m) /\ Bkts(m) # {}
  BY <1>1, <1>3 DEF RlmInv, RcvOK
<1>6. /\ rlmHost' \in [Hosts -> HostType] /\ HostsOK'
      /\ \A k \in Hosts : /\ rlmHost'[k].live = rlmHost[k].live /\ rlmHost'[k].gen = rlmHost[k].gen
                          /\ rlmHost'[k].regs = rlmHost[k].regs /\ rlmHost'[k].open = rlmHost[k].open
      /\ \A k \in Hosts : k # h => rlmHost'[k].rcv = rlmHost[k].rcv
  <2>1. rlmHost[h].rcv # << >> /\ rlmHost' = [rlmHost EXCEPT ![h].rcv = Tail(rlmHost[h].rcv)] /\ HostsOK
    BY <1>1, <1>4 DEF RlmInv
  <2>2. QED BY <1>1, <2>1, RcvFromHost
<1>7. /\ waits' \in [RlmNames -> [Hosts -> Nat]]
      /\ \A k \in RlmNames : waits'[k][h] = 0 /\ \A g \in Hosts : g # h => waits'[k][g] = waits[k][g]
  BY <1>1, <1>4 DEF RlmTyped
<1>8. rcvCall' \in RcvType /\ rcvCall'.pc = "done" /\ rcvCall'.rlm = m /\ rcvCall'.res = "error"
  BY <1>1, <1>2, <1>3 DEF RcvType
<1>9. RlmTyped' /\ ListOnce' /\ HostsOK'
  BY <1>1, <1>6, <1>7, <1>8 DEF RlmInv, RlmTyped, ListOnce
<1>10. \A k \in RlmNames : BktsOK(k)' /\ TurnsOK(k)' /\ WaitsOK(k)'
  <2> TAKE k \in RlmNames
  <2>1. BktsOK(k) /\ TurnsOK(k) /\ WaitsOK(k) /\ (RlmListed(k)' <=> RlmListed(k)) /\ rlmCb'[k] = rlmCb[k]
    BY <1>1 DEF RlmInv, RlmListed
  <2>2. rlmCb[k].word \in Places(k) /\ rlmCb[k].nxtRcv \in Places(k)
    BY <2>1 DEF BktsOK
  <2>3. \A i \in Bkts(k) : rlmCb[k].reg[i].host \in Hosts
    BY <1>1, RlmFacts
  <2>4. BktsOK(k)'
    BY <1>6, <2>1, <2>2, <2>3, BktsKept
  <2>5. TurnsOK(k)'
    BY <1>1, <1>6, <2>1, TurnsKept
  <2>6. \A g \in Hosts : \/ waits'[k][g] = 0
                         \/ waits'[k][g] = waits[k][g] /\ rlmHost'[g].rcv = rlmHost[g].rcv
    BY <1>6, <1>7
  <2>7. WaitsOK(k)'
    BY <1>1, <2>1, <2>2, <2>6, WaitsFewer
  <2>8. QED BY <2>4, <2>5, <2>7
<1>11. SndOK'
  BY <1>1, <1>6, SndKept DEF RlmInv
<1>12. RcvOK'
  <2>1. (RlmListed(m)' <=> RlmListed(m)) /\ Bkts(m)' = Bkts(m)
    BY <1>1 DEF RlmListed, Bkts
  <2>2. QED BY <1>5, <1>8, <2>1 DEF RcvOK
<1>13. QED BY <1>9, <1>10, <1>11, <1>12 DEF RlmInv

(* The operations on realms and hosts find no call under way. *)
LEMMA NoCalls ==
  ASSUME Control, UNCHANGED <<sndCall, rcvCall>>
  PROVE  /\ SndOK' /\ RcvOK'
BY DEF Control, SndOK, RcvOK

LEMMA NothingElse ==
  ASSUME RlmInv, UNCHANGED <<rlmLst, rlmCb, rlmHost, sndCall, rcvCall, turns, waits>>
  PROVE  RlmInv'
<1>1. RlmTyped' /\ ListOnce' /\ HostsOK'
  BY DEF RlmInv, RlmTyped, ListOnce, HostsOK
<1>2. \A m \in RlmNames : BktsOK(m)' /\ TurnsOK(m)' /\ WaitsOK(m)'
  <2>1. \A m \in RlmNames : BktsOK(m)'
    BY DEF RlmInv, BktsOK, RlmListed, RegCnt, Bkts, Places
  <2>2. \A m \in RlmNames : TurnsOK(m)' /\ WaitsOK(m)'
    BY DEF RlmInv, TurnsOK, WaitsOK, RegCnt, Bkts
  <2>3. QED BY <2>1, <2>2
<1>3. SndOK' /\ RcvOK'
  BY SndKept, RcvKept DEF RlmInv
<1>4. QED BY <1>1, <1>2, <1>3 DEF RlmInv

LEMMA AddRlmOK ==
  ASSUME RlmInv, NEW m \in RlmNames, NEW rule \in RlmRules, AddRlm(m, rule) PROVE RlmInv'
<1>1. /\ RlmTyped /\ Control /\ ~RlmListed(m) /\ BktsOK(m) /\ TurnsOK(m) /\ WaitsOK(m) /\ ListOnce
      /\ rlmCb' = [rlmCb EXCEPT ![m] = NewRlm(rule)]
      /\ rlmLst' = Append(rlmLst, m)
      /\ UNCHANGED <<uses, rlmHost, sndCall, rcvCall, rdLeak, turns, waits, rlmMemErr>>
  BY DEF RlmInv, AddRlm, CanAdd
<1>2. rlmCb[m].rule = "none" /\ rlmCb[m].reg = << >>
  BY <1>1 DEF BktsOK
<1>3. PICK c : c = NewRlm(rule)
  OBVIOUS
<1>4. /\ c \in RlmType /\ c.reg = << >> /\ c.rule = rule /\ c.word = 1 /\ c.mask = 0 /\ c.nxtRcv = 1
      /\ rule \in {"RR", "PS", "HASH", "DHT"}
  <2>1. rule \in {"RR", "PS", "HASH", "DHT"}
    BY RlmAssumption
  <2>2. << >> \in Seq(RlmBkts)
    BY EmptySeq
  <2>3. QED BY <1>3, <2>1, <2>2 DEF NewRlm, noRlm, RlmType
<1>5. /\ rlmCb' \in [RlmNames -> RlmType] /\ rlmCb'[m] = c
      /\ \A k \in RlmNames : k # m => rlmCb'[k] = rlmCb[k]
  BY <1>1, <1>3, <1>4, CbStep
<1>6. /\ rlmLst \in Seq(RlmNames) /\ rlmLst' \in Seq(RlmNames) /\ Len(rlmLst') = Len(rlmLst) + 1
      /\ Len(rlmLst) \in Nat
      /\ \A i \in 1 .. Len(rlmLst) : rlmLst'[i] = rlmLst[i]
      /\ rlmLst'[Len(rlmLst) + 1] = m
      /\ DOMAIN rlmLst = 1 .. Len(rlmLst) /\ DOMAIN rlmLst' = 1 .. Len(rlmLst) + 1
  <2>1. rlmLst \in Seq(RlmNames)
    BY <1>1 DEF RlmTyped
  <2>2. QED BY <1>1, <2>1
<1>7. \A k \in RlmNames : RlmListed(k)' <=> (RlmListed(k) \/ k = m)
  <2> TAKE k \in RlmNames
  <2>1. RlmListed(k)' <=> \E i \in 1 .. Len(rlmLst) + 1 : rlmLst'[i] = k
    BY <1>6 DEF RlmListed
  <2>2. RlmListed(k) <=> \E i \in 1 .. Len(rlmLst) : rlmLst[i] = k
    BY <1>6 DEF RlmListed
  <2>3. QED BY <1>6, <2>1, <2>2
<1>8. ListOnce'
  <2>1. \A i \in 1 .. Len(rlmLst) : rlmLst[i] # m
    BY <1>1, <1>6 DEF RlmListed
  <2>2. \A i, j \in 1 .. Len(rlmLst) + 1 : rlmLst'[i] = rlmLst'[j] => i = j
    BY <1>1, <1>6, <2>1 DEF ListOnce
  <2>3. QED BY <1>6, <2>2 DEF ListOnce
<1>9. RlmTyped' /\ HostsOK'
  BY <1>1, <1>5, <1>6 DEF RlmInv, RlmTyped, HostsOK
<1>10. BktsOK(m)' /\ TurnsOK(m)' /\ WaitsOK(m)'
  <2>1. RegCnt(m)' = 0 /\ Bkts(m)' = {} /\ Places(m)' = {1} /\ RlmListed(m)' /\ Bkts(m) = {}
    BY <1>2, <1>4, <1>5, <1>7 DEF RegCnt, Bkts, Places
  <2>2. \A h \in Hosts : rlmHost[h].live => m \notin rlmHost[h].regs
    BY <1>1, <2>1 DEF BktsOK
  <2>3. BktsOK(m)'
    BY <1>1, <1>4, <1>5, <2>1, <2>2, RlmAssumption DEF BktsOK
  <2>4. \A h \in Hosts : turns[m][h] = 0 /\ (rlmHost[h].rcv = << >> => waits[m][h] = 0)
    BY <1>1, <1>2 DEF TurnsOK, WaitsOK
  <2>5. QED BY <1>1, <2>1, <2>3, <2>4 DEF TurnsOK, WaitsOK
<1>11. \A k \in RlmNames : k # m => BktsOK(k)' /\ TurnsOK(k)' /\ WaitsOK(k)'
  <2> TAKE k \in RlmNames
  <2> HAVE k # m
  <2>1. /\ BktsOK(k) /\ TurnsOK(k) /\ WaitsOK(k) /\ (RlmListed(k)' <=> RlmListed(k)) /\ rlmCb'[k] = rlmCb[k]
        /\ \A i \in Bkts(k) : rlmCb[k].reg[i].host \in Hosts
    BY <1>1, <1>5, <1>7, RlmFacts DEF RlmInv
  <2>2. rlmCb[k].word \in Places(k) /\ rlmCb[k].nxtRcv \in Places(k)
    BY <2>1 DEF BktsOK
  <2>3. BktsOK(k)'
    BY <1>1, <2>1, <2>2, BktsKept
  <2>4. TurnsOK(k)' /\ WaitsOK(k)'
    BY <1>1, <2>1, TurnsKept, WaitsKept
  <2>5. QED BY <2>3, <2>4
<1>12. SndOK' /\ RcvOK'
  BY <1>1, NoCalls
<1>13. QED BY <1>8, <1>9, <1>10, <1>11, <1>12 DEF RlmInv

LEMMA AddHostOK ==
  ASSUME RlmInv, NEW h \in Hosts, AddHost(h) PROVE RlmInv'
<1>1. /\ RlmTyped /\ HostsOK /\ Control /\ ~rlmHost[h].live
      /\ rlmHost' = [rlmHost EXCEPT ![h] = [noHost EXCEPT !.live = TRUE, !.gen = rlmHost[h].gen + 1]]
      /\ UNCHANGED <<uses, rlmLst, rlmCb, sndCall, rcvCall, rdLeak, turns, waits, rlmMemErr>>
  BY DEF RlmInv, AddHost
<1>2. PICK c : c = [noHost EXCEPT !.live = TRUE, !.gen = rlmHost[h].gen + 1]
  OBVIOUS
<1>3. /\ c \in HostType /\ c.live = TRUE /\ c.gen = rlmHost[h].gen + 1 /\ c.regs = {} /\ c.open = FALSE
      /\ c.rcv = << >>
      /\ rlmHost[h].gen \in Nat
  <2>1. rlmHost[h].gen \in Nat /\ << >> \in Seq({"data", "big"})
    BY <1>1, RlmFacts, EmptySeq
  <2>2. c = [live |-> TRUE, gen |-> rlmHost[h].gen + 1, open |-> FALSE, regs |-> {}, rcv |-> << >>]
    BY <1>2 DEF noHost
  <2>3. QED BY <2>1, <2>2 DEF HostType
<1>4. /\ rlmHost' \in [Hosts -> HostType] /\ rlmHost'[h] = c
      /\ \A k \in Hosts : k # h => rlmHost'[k] = rlmHost[k]
  BY <1>1, <1>2, <1>3, HostStep
<1>5. \A k \in Hosts : rlmHost'[k].open = rlmHost[k].open /\ rlmHost'[k].rcv = rlmHost[k].rcv
  <2>1. rlmHost[h].open \in BOOLEAN /\ ~rlmHost[h].open /\ rlmHost[h].rcv = << >>
    BY <1>1, RlmFacts DEF HostsOK
  <2>2. rlmHost[h].open = FALSE
    BY <2>1
  <2>3. QED BY <1>3, <1>4, <2>1, <2>2
<1>6. RlmTyped' /\ ListOnce' /\ HostsOK'
  BY <1>1, <1>3, <1>4 DEF RlmInv, RlmTyped, ListOnce, HostsOK
<1>7. \A m \in RlmNames : BktsOK(m)' /\ TurnsOK(m)' /\ WaitsOK(m)'
  <2> TAKE m \in RlmNames
  <2>1. /\ BktsOK(m) /\ TurnsOK(m) /\ WaitsOK(m) /\ (RlmListed(m)' <=> RlmListed(m)) /\ rlmCb'[m] = rlmCb[m]
    BY <1>1 DEF RlmInv, RlmListed
  <2>2. RegCnt(m)' = RegCnt(m) /\ Bkts(m)' = Bkts(m) /\ Places(m)' = Places(m)
    BY <2>1, SameReg
  <2>3. \A i \in Bkts(m) : /\ rlmCb[m].reg[i].gen \in Nat /\ rlmCb[m].reg[i].host \in Hosts
                           /\ rlmCb[m].reg[i].gen <= rlmHost[rlmCb[m].reg[i].host].gen
    BY <1>1, <2>1, RlmFacts DEF BktsOK
  <2>4. \A i \in Bkts(m) : rlmCb[m].reg[i].gen <= rlmHost'[rlmCb[m].reg[i].host].gen
    BY <1>3, <1>4, <2>3, SMTT(30)
  <2>5. \A k \in Hosts : rlmHost'[k].live =>
          (m \in rlmHost'[k].regs <=>
             \E i \in Bkts(m) : rlmCb[m].reg[i].host = k /\ rlmCb[m].reg[i].gen = rlmHost'[k].gen)
    <3>1. ~ \E i \in Bkts(m) : rlmCb[m].reg[i].host = h /\ rlmCb[m].reg[i].gen = rlmHost[h].gen + 1
      BY <1>3, <2>3
    <3>2. QED BY <1>3, <1>4, <2>1, <3>1 DEF BktsOK
  <2>6. BktsOK(m)'
    BY <2>1, <2>2, <2>4, <2>5 DEF BktsOK
  <2>7. TurnsOK(m)' /\ WaitsOK(m)'
    BY <1>1, <1>5, <2>1, TurnsKept, WaitsKept
  <2>8. QED BY <2>6, <2>7
<1>8. SndOK' /\ RcvOK'
  BY <1>1, NoCalls
<1>9. QED BY <1>6, <1>7, <1>8 DEF RlmInv

LEMMA DstryHostOK ==
  ASSUME RlmInv, NEW h \in Hosts, DstryHost(h) PROVE RlmInv'
<1>1. /\ RlmTyped /\ HostsOK /\ Control
      /\ rlmHost' = [rlmHost EXCEPT ![h] = [noHost EXCEPT !.gen = rlmHost[h].gen]]
      /\ turns' = [m \in RlmNames |-> [turns[m] EXCEPT ![h] = 0]]
      /\ waits' = [m \in RlmNames |-> [waits[m] EXCEPT ![h] = 0]]
      /\ UNCHANGED <<uses, rlmLst, rlmCb, sndCall, rcvCall, rdLeak, rlmMemErr>>
  BY DEF RlmInv, DstryHost
<1>2. PICK c : c = [noHost EXCEPT !.gen = rlmHost[h].gen]
  OBVIOUS
<1>3. c \in HostType /\ c.live = FALSE /\ c.gen = rlmHost[h].gen /\ c.open = FALSE /\ c.rcv = << >>
  <2>1. rlmHost[h].gen \in Nat /\ << >> \in Seq({"data", "big"})
    BY <1>1, RlmFacts, EmptySeq
  <2>2. QED BY <1>2, <2>1 DEF noHost, HostType
<1>4. /\ rlmHost' \in [Hosts -> HostType] /\ rlmHost'[h] = c
      /\ \A k \in Hosts : k # h => rlmHost'[k] = rlmHost[k]
  BY <1>1, <1>2, <1>3, HostStep
<1>5. /\ turns' \in [RlmNames -> [Hosts -> Nat]] /\ waits' \in [RlmNames -> [Hosts -> Nat]]
      /\ \A m \in RlmNames : /\ turns'[m][h] = 0 /\ waits'[m][h] = 0
                             /\ \A k \in Hosts : k # h => turns'[m][k] = turns[m][k] /\ waits'[m][k] = waits[m][k]
  BY <1>1 DEF RlmTyped
<1>6. RlmTyped' /\ ListOnce' /\ HostsOK'
  <2>1. RlmTyped' /\ ListOnce'
    BY <1>1, <1>4, <1>5 DEF RlmInv, RlmTyped, ListOnce
  <2>2. HostsOK'
    BY <1>1, <1>3, <1>4 DEF HostsOK
  <2>3. QED BY <2>1, <2>2
<1>7. \A m \in RlmNames : BktsOK(m)' /\ TurnsOK(m)' /\ WaitsOK(m)'
  <2> TAKE m \in RlmNames
  <2>1. /\ BktsOK(m) /\ TurnsOK(m) /\ WaitsOK(m) /\ (RlmListed(m)' <=> RlmListed(m)) /\ rlmCb'[m] = rlmCb[m]
    BY <1>1 DEF RlmInv, RlmListed
  <2>2. RegCnt(m)' = RegCnt(m) /\ Bkts(m)' = Bkts(m) /\ Places(m)' = Places(m)
    BY <2>1, SameReg
  <2>3. \A k \in Hosts : rlmHost'[k].gen = rlmHost[k].gen /\ (rlmHost'[k].live => k # h /\ rlmHost'[k] = rlmHost[k])
    BY <1>3, <1>4
  <2>4. \A i \in Bkts(m) : rlmCb[m].reg[i].host \in Hosts
    BY <1>1, RlmFacts
  <2>5. BktsOK(m)'
    BY <2>1, <2>2, <2>3, <2>4 DEF BktsOK
  <2>6. rlmCb[m].word \in Places(m) /\ rlmCb[m].nxtRcv \in Places(m)
    BY <2>1 DEF BktsOK
  <2>7. TurnsOK(m)'
    BY <1>1, <1>4, <1>5, <2>1, <2>6, TurnsFewer
  <2>8. WaitsOK(m)'
    BY <1>1, <1>4, <1>5, <2>1, <2>6, WaitsFewer
  <2>9. QED BY <2>5, <2>7, <2>8
<1>8. SndOK' /\ RcvOK'
  BY <1>1, NoCalls
<1>9. QED BY <1>6, <1>7, <1>8 DEF RlmInv

LEMMA RegHostOK ==
  ASSUME RlmInv, NEW m \in RlmNames, NEW h \in Hosts, NEW priFlg \in BOOLEAN, RegHost(m, h, priFlg)
  PROVE  RlmInv'
<1>1. PICK n : n = RegCnt(m) + 1
  OBVIOUS
<1>2. PICK bkt : bkt = [host |-> h, gen |-> rlmHost[h].gen]
  OBVIOUS
<1>3. PICK w : w = IF priFlg \/ n = 1 THEN n ELSE rlmCb[m].word
  OBVIOUS
<1>4. PICK k : k = IF rlmCb[m].rule = "HASH" THEN BitMask(m, n) ELSE rlmCb[m].mask
  OBVIOUS
<1>5. PICK reg : reg = rlmCb[m].reg
  OBVIOUS
<1>6. /\ RlmTyped /\ HostsOK /\ BktsOK(m) /\ TurnsOK(m) /\ WaitsOK(m) /\ Control
      /\ RlmListed(m) /\ rlmHost[h].live /\ h \notin HostsOf(m) /\ RegCnt(m) < MaxRegHostCnt
      /\ rlmCb' = [rlmCb EXCEPT ![m].reg = Append(@, bkt), ![m].word = w, ![m].mask = k]
      /\ rlmHost' = [rlmHost EXCEPT ![h].regs = @ \cup {m}]
      /\ turns' = [turns EXCEPT ![m] = [g \in Hosts |-> 0]]
      /\ waits' = [waits EXCEPT ![m][h] = 0]
      /\ UNCHANGED <<uses, rlmLst, sndCall, rcvCall, rdLeak, rlmMemErr>>
  BY <1>1, <1>2, <1>3, <1>4 DEF RlmInv, RegHost, CanReg
<1>7. /\ rlmCb[m] \in RlmType /\ reg \in Seq(RlmBkts) /\ RegCnt(m) \in Nat /\ Len(reg) = RegCnt(m)
      /\ Bkts(m) = 1 .. RegCnt(m) /\ DOMAIN reg = 1 .. RegCnt(m)
      /\ (reg = << >> <=> RegCnt(m) = 0)
      /\ \A i \in 1 .. RegCnt(m) : reg[i].host \in Hosts /\ reg[i].gen \in Nat /\ reg[i].host # h
      /\ rlmHost[h] \in HostType /\ rlmHost[h].gen \in Nat /\ rlmHost[h].regs \in SUBSET RlmNames
      /\ rlmCb[m].word \in Nat /\ rlmCb[m].mask \in Nat /\ rlmCb[m].nxtRcv \in Nat
  <2>1. HostsOf(m) = {reg[i].host : i \in Bkts(m)}
    BY <1>5, <1>6, RlmFacts
  <2>2. Len(reg) = RegCnt(m)
    BY <1>5 DEF RegCnt
  <2>3. QED BY <1>5, <1>6, <2>1, <2>2, RlmFacts
<1>8. PICK reg2 : reg2 = Append(reg, bkt)
  OBVIOUS
<1>9. /\ bkt \in RlmBkts /\ reg2 \in Seq(RlmBkts) /\ Len(reg2) = n /\ n \in Nat \ {0} /\ n = RegCnt(m) + 1
      /\ \A i \in 1 .. RegCnt(m) : reg2[i] = reg[i]
      /\ reg2[n] = bkt /\ bkt.host = h /\ bkt.gen = rlmHost[h].gen
      /\ reg2 # << >>
  <2>1. bkt \in RlmBkts /\ bkt.host = h /\ bkt.gen = rlmHost[h].gen
    BY <1>2, <1>7 DEF RlmBkts
  <2>2. reg2 \in Seq(RlmBkts) /\ Len(reg2) = Len(reg) + 1 /\ reg2[Len(reg) + 1] = bkt
        /\ \A i \in 1 .. Len(reg) : reg2[i] = reg[i]
    BY <1>7, <1>8, <2>1
  <2>3. reg2 # << >>
    BY <1>7, <2>2, EmptySeq
  <2>4. QED BY <1>1, <1>7, <2>1, <2>2, <2>3
<1>10. /\ w \in 1 .. n /\ rlmCb[m].nxtRcv \in 1 .. n
       /\ RegCnt(m) # 0 => rlmCb[m].nxtRcv \in 1 .. RegCnt(m)
  <2>1. /\ RegCnt(m) = 0 => rlmCb[m].nxtRcv = 1 /\ rlmCb[m].word = 1
        /\ RegCnt(m) # 0 => rlmCb[m].nxtRcv \in 1 .. RegCnt(m) /\ rlmCb[m].word \in 1 .. RegCnt(m)
    BY <1>5, <1>6, <1>7 DEF BktsOK, Places
  <2>2. QED BY <1>3, <1>7, <1>9, <2>1
<1>11. k \in Nat /\ (k # 0 => rlmCb[m].rule = "HASH" /\ k = n - 1)
  <2>1. BitMask(m, n) = n - 1 \/ BitMask(m, n) = 0
    BY DEF BitMask
  <2>2. rlmCb[m].mask # 0 => rlmCb[m].rule = "HASH"
    BY <1>6 DEF BktsOK
  <2>3. QED BY <1>4, <1>7, <1>9, <2>1, <2>2
<1>12. PICK c : c = [rlmCb[m] EXCEPT !.reg = reg2, !.word = w, !.mask = k]
  OBVIOUS
<1>13. /\ c \in RlmType /\ c.reg = reg2 /\ c.rule = rlmCb[m].rule /\ c.mask = k
       /\ c.nxtRcv = rlmCb[m].nxtRcv /\ c.word = w
  <2>1. w \in Nat
    BY <1>9, <1>10
  <2>2. QED BY <1>7, <1>9, <1>11, <1>12, <2>1 DEF RlmType
<1>14. /\ rlmCb' \in [RlmNames -> RlmType] /\ rlmCb'[m] = c
       /\ \A j \in RlmNames : j # m => rlmCb'[j] = rlmCb[j]
  <2>1. rlmCb' = [rlmCb EXCEPT ![m] = c]
    BY <1>5, <1>6, <1>8, <1>12 DEF RlmTyped
  <2>2. QED BY <1>6, <1>13, <2>1, CbStep
<1>15. PICK d : d = [rlmHost[h] EXCEPT !.regs = rlmHost[h].regs \cup {m}]
  OBVIOUS
<1>16. /\ d \in HostType /\ d.live = rlmHost[h].live /\ d.gen = rlmHost[h].gen /\ d.open = rlmHost[h].open
       /\ d.rcv = rlmHost[h].rcv /\ d.regs = rlmHost[h].regs \cup {m}
  BY <1>7, <1>15 DEF HostType
<1>17. /\ rlmHost' \in [Hosts -> HostType] /\ rlmHost'[h] = d
       /\ \A j \in Hosts : j # h => rlmHost'[j] = rlmHost[j]
  BY <1>6, <1>15, <1>16, HostStep
<1>18. \A j \in Hosts : /\ rlmHost'[j].live = rlmHost[j].live /\ rlmHost'[j].gen = rlmHost[j].gen
                        /\ rlmHost'[j].open = rlmHost[j].open /\ rlmHost'[j].rcv = rlmHost[j].rcv
                        /\ \A r \in RlmNames : r \in rlmHost'[j].regs <=> r \in rlmHost[j].regs \/ (j = h /\ r = m)
  BY <1>16, <1>17
<1>19. /\ turns' \in [RlmNames -> [Hosts -> Nat]] /\ waits' \in [RlmNames -> [Hosts -> Nat]]
       /\ \A g \in Hosts : turns'[m][g] = 0
       /\ waits'[m][h] = 0 /\ \A g \in Hosts : g # h => waits'[m][g] = waits[m][g]
       /\ \A j \in RlmNames : j # m => turns'[j] = turns[j] /\ waits'[j] = waits[j]
  BY <1>6 DEF RlmTyped
<1>20. RlmTyped' /\ ListOnce' /\ HostsOK'
  <2>1. RlmTyped' /\ ListOnce'
    BY <1>6, <1>14, <1>17, <1>19 DEF RlmInv, RlmTyped, ListOnce
  <2>2. HostsOK'
    BY <1>6, <1>18 DEF HostsOK
  <2>3. QED BY <2>1, <2>2
<1>21. \A j \in RlmNames : RlmListed(j)' <=> RlmListed(j)
  BY <1>6 DEF RlmListed
<1>22. RegCnt(m)' = n /\ Bkts(m)' = 1 .. n /\ Places(m)' = 1 .. n
  BY <1>9, <1>13, <1>14 DEF RegCnt, Bkts, Places
<1>23. BktsOK(m)'
  <2>1. \A i, j \in 1 .. n : reg2[i].host = reg2[j].host => i = j
    <3>1. \A i, j \in 1 .. RegCnt(m) : reg[i].host = reg[j].host => i = j
      BY <1>5, <1>6, <1>7 DEF BktsOK
    <3>2. \A i \in 1 .. n : i = n \/ i \in 1 .. RegCnt(m)
      BY <1>7, <1>9
    <3>3. QED BY <1>7, <1>9, <3>1, <3>2
  <2>2. \A i \in 1 .. n : reg2[i].gen <= rlmHost'[reg2[i].host].gen
    <3> TAKE i \in 1 .. n
    <3>1. CASE i = n
      BY <1>7, <1>9, <1>16, <1>17, <3>1
    <3>2. CASE i \in 1 .. RegCnt(m)
      <4>1. reg[i].gen <= rlmHost[reg[i].host].gen
        BY <1>5, <1>6, <1>7, <3>2 DEF BktsOK
      <4>2. QED BY <1>7, <1>9, <1>18, <3>2, <4>1
    <3>3. i = n \/ i \in 1 .. RegCnt(m)
      BY <1>7, <1>9
    <3>4. QED BY <3>1, <3>2, <3>3
  <2>3. ASSUME NEW g \in Hosts, rlmHost'[g].live
        PROVE  m \in rlmHost'[g].regs <=>
                 \E i \in 1 .. n : reg2[i].host = g /\ reg2[i].gen = rlmHost'[g].gen
    <3>1. CASE g = h
      <4>1. n \in 1 .. n
        BY <1>9
      <4>2. QED BY <1>9, <1>18, <3>1, <4>1
    <3>2. CASE g # h
      <4>1. m \in rlmHost[g].regs <=>
              \E i \in 1 .. RegCnt(m) : reg[i].host = g /\ reg[i].gen = rlmHost[g].gen
        <5>1. rlmHost[g].live
          BY <1>18, <2>3
        <5>2. QED BY <1>5, <1>6, <1>7, <5>1 DEF BktsOK
      <4>2. m \in rlmHost'[g].regs <=> m \in rlmHost[g].regs
        BY <1>18, <3>2
      <4>3. (\E i \in 1 .. RegCnt(m) : reg[i].host = g /\ reg[i].gen = rlmHost[g].gen) <=>
              \E i \in 1 .. n : reg2[i].host = g /\ reg2[i].gen = rlmHost'[g].gen
        <5>1. \A i \in 1 .. n : reg2[i].host = g => i \in 1 .. RegCnt(m)
          BY <1>7, <1>9, <3>2
        <5>2. \A i \in 1 .. RegCnt(m) : i \in 1 .. n
          BY <1>7, <1>9
        <5>3. QED BY <1>9, <1>18, <5>1, <5>2
      <4>4. QED BY <4>1, <4>2, <4>3
    <3>3. QED BY <3>1, <3>2
  <2>4. /\ RlmListed(m)' <=> c.rule # "none"
        /\ c.rule = "none" => c.reg = << >>
        /\ n <= MaxRegHostCnt
    <3>1. c.rule # "none" /\ RlmListed(m)'
      BY <1>6, <1>13, <1>21 DEF BktsOK
    <3>2. n <= MaxRegHostCnt
      BY <1>6, <1>7, <1>9, RlmAssumption
    <3>3. QED BY <3>1, <3>2
  <2>5. c.word \in 1 .. n /\ c.nxtRcv \in 1 .. n /\ (c.mask # 0 => c.rule = "HASH" /\ c.mask = n - 1)
    BY <1>10, <1>11, <1>13
  <2>6. QED BY <1>13, <1>14, <1>22, <2>1, <2>2, <2>3, <2>4, <2>5 DEF BktsOK
<1>24. TurnsOK(m)'
  <2>1. \A i \in 1 .. n : 0 + Gap(n, w, i) < n
    <3>1. n \in Nat /\ w \in 1 .. n
      BY <1>9, <1>10
    <3>2. QED BY <3>1 DEF Gap
  <2>2. \A i \in 1 .. n : reg2[i].host \in Hosts
    BY <1>7, <1>9
  <2>3. QED BY <1>13, <1>14, <1>19, <1>22, <2>1, <2>2 DEF TurnsOK
<1>25. WaitsOK(m)'
  <2>1. \A g \in Hosts : rlmHost'[g].rcv = << >> => waits'[m][g] = 0
    BY <1>6, <1>18, <1>19 DEF WaitsOK
  <2>2. ASSUME NEW i \in 1 .. n
        PROVE  waits'[m][reg2[i].host] + Gap(n, c.nxtRcv, i) < n
    <3>1. n \in Nat /\ c.nxtRcv \in 1 .. n
      BY <1>9, <1>10, <1>13
    <3>2. PICK s : s = c.nxtRcv
      OBVIOUS
    <3>3. Gap(n, s, i) \in 0 .. n - 1
      BY <3>1, <3>2 DEF Gap
    <3>4. CASE i = n
      <4>1. reg2[i].host = h /\ waits'[m][h] = 0
        BY <1>9, <1>19, <3>4
      <4>2. 0 + Gap(n, s, i) < n
        BY <3>1, <3>3
      <4>3. QED BY <3>2, <4>1, <4>2
    <3>5. CASE i # n
      <4>1. i \in 1 .. RegCnt(m) /\ s \in 1 .. RegCnt(m) /\ RegCnt(m) = n - 1
        <5>1. i \in 1 .. RegCnt(m) /\ RegCnt(m) # 0 /\ RegCnt(m) = n - 1
          <6>1. RegCnt(m) \in Nat /\ n = RegCnt(m) + 1 /\ i \in 1 .. n
            BY <1>7, <1>9
          <6>2. QED BY <3>5, <6>1
        <5>2. QED BY <1>10, <1>13, <3>2, <5>1
      <4>2. PICK g \in Hosts : g = reg[i].host /\ g = reg2[i].host /\ g # h
        BY <1>7, <1>9, <4>1
      <4>3. waits[m][g] + Gap(n - 1, s, i) < n - 1 /\ waits[m][g] \in Nat
        BY <1>5, <1>6, <1>7, <1>13, <3>2, <4>1, <4>2, RlmFacts DEF WaitsOK
      <4>4. Gap(n, s, i) <= Gap(n - 1, s, i) + 1 /\ Gap(n - 1, s, i) \in Int
        BY <3>1, <3>2, <4>1 DEF Gap
      <4>5. waits[m][g] + Gap(n, s, i) < n
        BY <3>1, <3>3, <4>3, <4>4
      <4>6. QED BY <1>19, <3>2, <4>2, <4>5
    <3>6. QED BY <3>4, <3>5
  <2>3. QED BY <1>13, <1>14, <1>22, <2>1, <2>2 DEF WaitsOK
<1>26. \A j \in RlmNames : j # m => BktsOK(j)' /\ TurnsOK(j)' /\ WaitsOK(j)'
  <2> TAKE j \in RlmNames
  <2> HAVE j # m
  <2>1. /\ BktsOK(j) /\ TurnsOK(j) /\ WaitsOK(j) /\ (RlmListed(j)' <=> RlmListed(j)) /\ rlmCb'[j] = rlmCb[j]
        /\ \A i \in Bkts(j) : rlmCb[j].reg[i].host \in Hosts
    BY <1>6, <1>14, <1>21, RlmFacts DEF RlmInv
  <2>2. rlmCb[j].word \in Places(j) /\ rlmCb[j].nxtRcv \in Places(j)
    BY <2>1 DEF BktsOK
  <2>3. BktsOK(j)'
    BY <1>18, <2>1, <2>2, BktsKept
  <2>4. TurnsOK(j)' /\ WaitsOK(j)'
    BY <1>18, <1>19, <2>1, TurnsKept, WaitsKept
  <2>5. QED BY <2>3, <2>4
<1>27. SndOK' /\ RcvOK'
  BY <1>6, NoCalls
<1>28. QED BY <1>20, <1>23, <1>24, <1>25, <1>26, <1>27 DEF RlmInv

LEMMA DstryRlmOK ==
  ASSUME RlmInv, DstryRlm PROVE RlmInv'
<1>1. RlmTyped /\ ListOnce /\ HostsOK /\ Control /\ rlmLst # << >> /\ UNCHANGED <<sndCall, rcvCall>>
  BY DEF RlmInv, DstryRlm
<1>2. PICK n : n = Len(rlmLst)
  OBVIOUS
<1>3. /\ rlmLst \in Seq(RlmNames) /\ n \in Nat \ {0} /\ Head(rlmLst) = rlmLst[1] /\ rlmLst[1] \in RlmNames
      /\ DOMAIN rlmLst = 1 .. n
  <2>1. rlmLst \in Seq(RlmNames)
    BY <1>1 DEF RlmTyped
  <2>2. QED BY <1>1, <1>2, <2>1, EmptySeq
<1>4. PICK m \in RlmNames : m = Head(rlmLst)
  BY <1>3
<1>5. CASE UNCHANGED <<rlmLst, rlmCb, rlmHost, turns, waits>>
  BY <1>1, <1>5, NothingElse
<1>6. CASE /\ rlmLst' = Tail(rlmLst)
           /\ rlmCb' = [rlmCb EXCEPT ![m] = noRlm]
           /\ rlmHost' = [h \in Hosts |-> [rlmHost[h] EXCEPT
                !.regs = IF h \in HostsOf(m) THEN rlmHost[h].regs \ {m} ELSE rlmHost[h].regs]]
           /\ turns' = [turns EXCEPT ![m] = [h \in Hosts |-> 0]]
           /\ waits' = [waits EXCEPT ![m] = [h \in Hosts |-> 0]]
  <2>1. /\ noRlm \in RlmType /\ noRlm.reg = << >> /\ noRlm.rule = "none" /\ noRlm.word = 1
        /\ noRlm.mask = 0 /\ noRlm.nxtRcv = 1
    BY EmptySeq DEF noRlm, RlmType
  <2>2. /\ rlmCb' \in [RlmNames -> RlmType] /\ rlmCb'[m] = noRlm
        /\ \A k \in RlmNames : k # m => rlmCb'[k] = rlmCb[k]
    BY <1>1, <1>6, <2>1, CbStep
  <2>3. ASSUME NEW h \in Hosts
        PROVE  /\ rlmHost'[h] \in HostType
               /\ rlmHost'[h].live = rlmHost[h].live /\ rlmHost'[h].gen = rlmHost[h].gen
               /\ rlmHost'[h].open = rlmHost[h].open /\ rlmHost'[h].rcv = rlmHost[h].rcv
               /\ rlmHost'[h].regs = IF h \in HostsOf(m) THEN rlmHost[h].regs \ {m} ELSE rlmHost[h].regs
    <3>1. rlmHost[h] \in HostType /\ rlmHost[h].regs \in SUBSET RlmNames
      BY <1>1, RlmFacts
    <3>2. PICK r \in SUBSET RlmNames : r = IF h \in HostsOf(m) THEN rlmHost[h].regs \ {m} ELSE rlmHost[h].regs
      BY <3>1
    <3>3. rlmHost'[h] = [rlmHost[h] EXCEPT !.regs = r]
      BY <1>6, <3>2
    <3>4. QED BY <3>1, <3>2, <3>3 DEF HostType
  <2>4. rlmHost' \in [Hosts -> HostType]
    BY <1>6, <2>3
  <2>5. /\ turns' \in [RlmNames -> [Hosts -> Nat]] /\ waits' \in [RlmNames -> [Hosts -> Nat]]
        /\ \A g \in Hosts : turns'[m][g] = 0 /\ waits'[m][g] = 0
        /\ \A k \in RlmNames : k # m => turns'[k] = turns[k] /\ waits'[k] = waits[k]
    BY <1>1, <1>6 DEF RlmTyped
  <2>6. /\ rlmLst' \in Seq(RlmNames) /\ Len(rlmLst') = n - 1 /\ DOMAIN rlmLst' = 1 .. n - 1
        /\ \A i \in 1 .. n - 1 : rlmLst'[i] = rlmLst[i + 1]
    BY <1>1, <1>2, <1>3, <1>6
  <2>7. \A i, j \in 1 .. n : rlmLst[i] = rlmLst[j] => i = j
    BY <1>1, <1>2 DEF ListOnce
  <2>8. ListOnce'
    <3>1. \A i, j \in 1 .. n - 1 : rlmLst'[i] = rlmLst'[j] => i = j
      <4> TAKE i, j \in 1 .. n - 1
      <4> HAVE rlmLst'[i] = rlmLst'[j]
      <4>1. i + 1 \in 1 .. n /\ j + 1 \in 1 .. n /\ rlmLst[i + 1] = rlmLst[j + 1]
        BY <1>3, <2>6
      <4>2. i + 1 = j + 1
        BY <2>7, <4>1
      <4>3. QED BY <1>3, <4>2
    <3>2. QED BY <2>6, <3>1 DEF ListOnce
  <2>9. \A k \in RlmNames : RlmListed(k)' <=> RlmListed(k) /\ k # m
    <3> TAKE k \in RlmNames
    <3>1. RlmListed(k)' <=> \E i \in 1 .. n - 1 : rlmLst[i + 1] = k
      BY <2>6 DEF RlmListed
    <3>2. RlmListed(k) <=> \E i \in 1 .. n : rlmLst[i] = k
      BY <1>3 DEF RlmListed
    <3>3. (\E i \in 1 .. n - 1 : rlmLst[i + 1] = k) <=> \E i \in 2 .. n : rlmLst[i] = k
      <4>1. \A i \in 1 .. n - 1 : i + 1 \in 2 .. n
        BY <1>3
      <4>2. \A i \in 2 .. n : i - 1 \in 1 .. n - 1 /\ (i - 1) + 1 = i
        BY <1>3
      <4>3. QED BY <4>1, <4>2
    <3>4. rlmLst[1] = m /\ 1 \in 1 .. n /\ \A i \in 2 .. n : i \in 1 .. n /\ i # 1
      BY <1>3, <1>4
    <3>5. \A i \in 1 .. n : i = 1 \/ i \in 2 .. n
      BY <1>3
    <3>6. QED BY <2>7, <3>1, <3>2, <3>3, <3>4, <3>5
  <2>10. RlmTyped' /\ HostsOK'
    <3>1. RlmTyped'
      BY <1>1, <2>2, <2>4, <2>5, <2>6 DEF RlmTyped
    <3>2. HostsOK'
      BY <1>1, <2>3 DEF HostsOK
    <3>3. QED BY <3>1, <3>2
  <2>11. BktsOK(m)' /\ TurnsOK(m)' /\ WaitsOK(m)'
    <3>1. RegCnt(m)' = 0 /\ Bkts(m)' = {} /\ Places(m)' = {1} /\ ~RlmListed(m)'
      BY <2>1, <2>2, <2>9 DEF RegCnt, Bkts, Places
    <3>2. \A h \in Hosts : rlmHost'[h].live => m \notin rlmHost'[h].regs
      <4> TAKE h \in Hosts
      <4> HAVE rlmHost'[h].live
      <4>1. BktsOK(m) /\ HostsOf(m) = {rlmCb[m].reg[i].host : i \in Bkts(m)}
        BY <1>1, RlmFacts DEF RlmInv
      <4>2. m \in rlmHost[h].regs => h \in HostsOf(m)
        <5>1. rlmHost[h].live
          BY <2>3
        <5>2. QED BY <4>1, <5>1 DEF BktsOK
      <4>3. QED BY <2>3, <4>2
    <3>3. BktsOK(m)'
      BY <2>1, <2>2, <3>1, <3>2, RlmAssumption DEF BktsOK
    <3>4. QED BY <2>5, <3>1, <3>3 DEF TurnsOK, WaitsOK
  <2>12. \A k \in RlmNames : k # m => BktsOK(k)' /\ TurnsOK(k)' /\ WaitsOK(k)'
    <3> TAKE k \in RlmNames
    <3> HAVE k # m
    <3>1. /\ BktsOK(k) /\ TurnsOK(k) /\ WaitsOK(k) /\ (RlmListed(k)' <=> RlmListed(k)) /\ rlmCb'[k] = rlmCb[k]
          /\ \A i \in Bkts(k) : rlmCb[k].reg[i].host \in Hosts
      BY <1>1, <2>2, <2>9, RlmFacts DEF RlmInv
    <3>2. rlmCb[k].word \in Places(k) /\ rlmCb[k].nxtRcv \in Places(k)
      BY <3>1 DEF BktsOK
    <3>3. \A h \in Hosts : k \in rlmHost'[h].regs <=> k \in rlmHost[h].regs
      BY <2>3
    <3>4. BktsOK(k)'
      BY <2>3, <3>1, <3>2, <3>3, BktsKept
    <3>5. TurnsOK(k)' /\ WaitsOK(k)'
      BY <2>3, <2>5, <3>1, TurnsKept, WaitsKept
    <3>6. QED BY <3>4, <3>5
  <2>13. SndOK' /\ RcvOK'
    BY <1>1, NoCalls
  <2>14. QED BY <2>8, <2>10, <2>11, <2>12, <2>13 DEF RlmInv
<1>7. QED BY <1>4, <1>5, <1>6 DEF DstryRlm

LEMMA RlmNextOK == RlmInv /\ [RlmNext]_rlmVars => RlmInv'
<1> SUFFICES ASSUME RlmInv, [RlmNext]_rlmVars PROVE RlmInv'
  OBVIOUS
<1>1. ASSUME NEW m \in RlmNames, NEW rule \in RlmRules, AddRlm(m, rule) PROVE RlmInv'
  BY <1>1, AddRlmOK
<1>2. ASSUME NEW m \in RlmNames, NEW h \in Hosts, NEW priFlg \in BOOLEAN, RegHost(m, h, priFlg)
      PROVE  RlmInv'
  BY <1>2, RegHostOK
<1>3. ASSUME NEW m \in RlmNames, NEW key \in RlmKeys, SndBegin(m, key) PROVE RlmInv'
  BY <1>3, SndBeginOK
<1>4. ASSUME NEW m \in RlmNames, SndEmptyHash(m) PROVE RlmInv'
  BY <1>4, NothingElse DEF SndEmptyHash
<1>5. ASSUME NEW m \in RlmNames, RcvBegin(m) PROVE RlmInv'
  BY <1>5, RcvBeginOK
<1>6. ASSUME NEW m \in RlmNames, RcvEmptyRlm(m) PROVE RlmInv'
  BY <1>6, NothingElse DEF RcvEmptyRlm
<1>7. ASSUME NEW h \in Hosts, AddHost(h) PROVE RlmInv'
  BY <1>7, AddHostOK
<1>8. ASSUME NEW h \in Hosts, DstryHost(h) PROVE RlmInv'
  BY <1>8, DstryHostOK
<1>9. ASSUME NEW h \in Hosts, SetStatus(h) PROVE RlmInv'
  BY <1>9, SetStatusOK
<1>10. ASSUME NEW h \in Hosts, NEW kind \in {"data", "big"}, Deliver(h, kind) PROVE RlmInv'
  BY <1>10, DeliverOK
<1>11. CASE DstryRlm
  BY <1>11, DstryRlmOK
<1>12. CASE SndNext \/ SndRoute \/ SndReturn
  BY <1>12, SndNextOK, SndRouteOK, SndReturnOK
<1>13. CASE RcvNext \/ RcvTake \/ RcvTooSmall \/ RcvReturn
  BY <1>13, RcvNextOK, RcvTakeOK, RcvTooSmallOK, RcvReturnOK
<1>14. CASE FollowDangling(sndCall) \/ FollowDangling(rcvCall)
  BY <1>14, NothingElse DEF FollowDangling
<1>15. CASE UNCHANGED rlmVars
  BY <1>15, NothingElse DEF rlmVars
<1>16. QED BY <1>1, <1>2, <1>3, <1>4, <1>5, <1>6, <1>7, <1>8, <1>9, <1>10, <1>11, <1>12, <1>13, <1>14, <1>15 DEF RlmNext

(* The realms, their buckets, the counts of what hosts waited and the call *)
(* at hand fit together at every step of rlylibInt_rlm.c: the inductive    *)
(* invariant, for any hosts, realms, rules and keys.                       *)
THEOREM RlmInductive == RlmSpec => []RlmInv
<1>1. QED BY RlmInitOK, RlmNextOK, PTL DEF RlmSpec

(* A send goes to the first host that its rule names and that was open for *)
(* the whole call, no host of a round-robin realm is passed over more than *)
(* once round, and the hash reaches all hosts (rlm_getActvHostByRule).     *)
THEOREM RlmStaysSends == RlmSpec => []RlmSends
<1>1. QED BY RlmInductive, RlmInvSends, PTL

(* A receive finds a message that waited for the whole call, no host's     *)
(* message is passed over more than once round, and realms and hosts agree *)
(* on the registrations (rlylibInt_rlmRcvFixMsgFromRlm).                   *)
THEOREM RlmStaysReceives == RlmSpec => []RlmReceives
<1>1. QED BY RlmInductive, RlmInvReceives, PTL
=============================================================================
