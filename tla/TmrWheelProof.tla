--------------------------- MODULE TmrWheelProof ---------------------------
(***************************************************************************)
(* WheelExact and ImplementsService for any nodes, number of slots and     *)
(* bounds.                                                                 *)
(*                                                                         *)
(* The slots hold lists of nodes (Table): the sequences are not variables  *)
(* of the code, the invariant says that there are some which the links     *)
(* spell out.  With them the walk is a place in one sequence, and what it  *)
(* owes is said by their order (Ahead): a node that expires at the tick    *)
(* being walked is the next one to visit or behind it.                     *)
(***************************************************************************)
EXTENDS TmrWheel, SequenceTheorems, FiniteSetTheorems, WellFoundedInduction, TLAPS

(* The node at place i of a list, NULL beyond its ends. *)
NodeAt(q, i) == IF i \in 1 .. Len(q) THEN q[i] ELSE NULL

IsList(q) ==
  /\ q \in Seq(Nodes)
  /\ \A i, j \in 1 .. Len(q) : q[i] = q[j] => i = j

(* A slot e and the links lk spell out the list q. *)
Chain(e, lk, q) ==
  /\ IsList(q)
  /\ e.first = NodeAt(q, 1)
  /\ e.tail = NodeAt(q, Len(q))
  /\ \A i \in 1 .. Len(q) : lk[q[i]].prev = NodeAt(q, i - 1) /\ lk[q[i]].next = NodeAt(q, i + 1)

InList(q, n) == \E i \in 1 .. Len(q) : q[i] = n

(* The slots spell out the lists L, of the nodes that own says. *)
Table(ent, lk, own, L) ==
  \A s \in SlotIds :
    /\ Chain(ent[s], lk, L[s])
    /\ \A n \in Nodes : InList(L[s], n) <=> own[n] = s

Ends   == [first : Nodes \cup {NULL}, tail : Nodes \cup {NULL}]
Links  == [prev : Nodes \cup {NULL}, next : Nodes \cup {NULL}]
Timers == [used : BOOLEAN, expTick : Nat, updateTick : Nat, resetFlg : BOOLEAN]

(* What holds whether or not a callback cut the walk. *)
Typed ==
  /\ TypeOK
  /\ \A n \in Nodes : tmr[n].used <=> ownEntry[n] # NULL
  /\ \A n \in Nodes : ~tmr[n].resetFlg => tmr[n].updateTick = 0
  /\ \A n \in Nodes : tmr[n].resetFlg => tmr[n].used
  /\ pc = "callback" => node # NULL
  /\ pc = "idle" => cur = prevTick

(* The next node that the walk visits. *)
Coming == CASE pc = "node" -> node [] pc = "callback" -> tmpNode [] OTHER -> NULL

Before(q, a, b) == \E i, j \in 1 .. Len(q) : i <= j /\ q[i] = a /\ q[j] = b

(* A node expires later, or now and the walk still comes to it. *)
Ahead(L) ==
  /\ Coming # NULL => InList(L[SlotOf(cur)], Coming)
  /\ \A n \in Nodes : tmr[n].used =>
       /\ ownEntry[n] = SlotOf(tmr[n].expTick)
       /\ tmr[n].resetFlg => tmr[n].updateTick > 0
       /\ \/ tmr[n].expTick > cur
          \/ tmr[n].expTick = cur /\ Coming # NULL /\ Before(L[SlotOf(cur)], Coming, n)

WheelInv ==
  /\ Typed
  /\ ~cut => \E L \in [SlotIds -> Seq(Nodes)] : Table(entry, link, ownEntry, L) /\ Ahead(L)

-----------------------------------------------------------------------------
(* Slots *)

LEMMA SlotType == \A t \in Nat : SlotOf(t) \in SlotIds
BY WheelAssumption DEF SlotOf, SlotIds

LEMMA NullApart == NULL \notin Nodes /\ NULL \notin SlotIds
BY WheelAssumption DEF SlotIds

-----------------------------------------------------------------------------
(* Lists *)

LEMMA NodeAtType ==
  ASSUME NEW q \in Seq(Nodes), NEW i \in Int
  PROVE  /\ NodeAt(q, i) \in Nodes \cup {NULL}
         /\ NodeAt(q, i) # NULL <=> i \in 1 .. Len(q)
BY NullApart DEF NodeAt

(* A node is put behind a list. *)
LEMMA AppendIs ==
  ASSUME NEW q, IsList(q), NEW n \in Nodes, ~InList(q, n)
  PROVE  /\ IsList(Append(q, n))
         /\ Len(Append(q, n)) = Len(q) + 1
         /\ \A i \in 1 .. Len(q) : Append(q, n)[i] = q[i]
         /\ Append(q, n)[Len(q) + 1] = n
         /\ \A m : InList(Append(q, n), m) <=> InList(q, m) \/ m = n
         /\ \A a, b : Before(q, a, b) => Before(Append(q, n), a, b)
<1> DEFINE r == Append(q, n)
<1>1. q \in Seq(Nodes) /\ Len(q) \in Nat
  BY DEF IsList
<1>2. /\ r \in Seq(Nodes)
      /\ Len(r) = Len(q) + 1
      /\ \A i \in 1 .. Len(q) : r[i] = q[i]
      /\ r[Len(q) + 1] = n
  BY <1>1
<1> HIDE DEF r
<1>3. IsList(r)
  <2> SUFFICES ASSUME NEW i \in 1 .. Len(r), NEW j \in 1 .. Len(r), r[i] = r[j]
               PROVE  i = j
    BY <1>2 DEF IsList
  <2>1. CASE i = Len(q) + 1 /\ j # Len(q) + 1
    BY <1>1, <1>2, <2>1 DEF InList
  <2>2. CASE i # Len(q) + 1 /\ j = Len(q) + 1
    BY <1>1, <1>2, <2>2 DEF InList
  <2>3. CASE i # Len(q) + 1 /\ j # Len(q) + 1
    BY <1>1, <1>2, <2>3 DEF IsList
  <2>4. QED BY <2>1, <2>2, <2>3
<1>4. \A m : InList(r, m) <=> InList(q, m) \/ m = n
  <2> TAKE m
  <2>1. ASSUME InList(r, m) PROVE InList(q, m) \/ m = n
    BY <1>1, <1>2, <2>1 DEF InList
  <2>2. ASSUME InList(q, m) PROVE InList(r, m)
    BY <1>1, <1>2, <2>2 DEF InList
  <2>3. InList(r, n)
    BY <1>1, <1>2 DEF InList
  <2>4. QED BY <2>1, <2>2, <2>3
<1>5. \A a, b : Before(q, a, b) => Before(r, a, b)
  BY <1>1, <1>2 DEF Before
<1>6. QED BY <1>2, <1>3, <1>4, <1>5 DEF r

(* A list without its place k. *)
Drop(q, k) == SubSeq(q, 1, k - 1) \o SubSeq(q, k + 1, Len(q))

LEMMA DropIs ==
  ASSUME NEW q, IsList(q), NEW k \in 1 .. Len(q)
  PROVE  /\ IsList(Drop(q, k))
         /\ Len(Drop(q, k)) = Len(q) - 1
         /\ \A i \in 1 .. Len(q) - 1 : Drop(q, k)[i] = IF i < k THEN q[i] ELSE q[i + 1]
         /\ \A m : InList(Drop(q, k), m) <=> InList(q, m) /\ m # q[k]
         /\ \A a, b : Before(q, a, b) /\ a # q[k] /\ b # q[k] => Before(Drop(q, k), a, b)
<1> DEFINE r == Drop(q, k)
           n == Len(q)
<1>1. q \in Seq(Nodes) /\ n \in Nat /\ n > 0
  BY DEF IsList
<1>2. /\ r \in Seq(Nodes)
      /\ Len(r) = n - 1
      /\ \A i \in 1 .. n - 1 : r[i] = IF i < k THEN q[i] ELSE q[i + 1]
  <2> DEFINE a == SubSeq(q, 1, k - 1)
             b == SubSeq(q, k + 1, n)
  <2>1. a \in Seq(Nodes) /\ Len(a) = k - 1 /\ \A i \in 1 .. k - 1 : a[i] = q[i]
    <3>1. \A i \in 1 .. k - 1 : q[i] \in Nodes
      BY <1>1
    <3>2. QED BY <3>1, <1>1, SubSeqProperties
  <2>2. b \in Seq(Nodes) /\ Len(b) = n - k /\ \A i \in 1 .. n - k : b[i] = q[k + i]
    <3>1. \A i \in k + 1 .. n : q[i] \in Nodes
      BY <1>1
    <3>2. QED BY <3>1, <1>1, SubSeqProperties
  <2> HIDE DEF a, b
  <2>3. /\ a \o b \in Seq(Nodes) /\ Len(a \o b) = n - 1
        /\ \A i \in 1 .. n - 1 : (a \o b)[i] = IF i <= k - 1 THEN a[i] ELSE b[i - (k - 1)]
    <3>1. /\ a \o b \in Seq(Nodes) /\ Len(a \o b) = Len(a) + Len(b)
          /\ \A i \in 1 .. Len(a) + Len(b) : (a \o b)[i] = IF i <= Len(a) THEN a[i] ELSE b[i - Len(a)]
      BY <2>1, <2>2, ConcatProperties
    <3>2. Len(a) + Len(b) = n - 1
      BY <2>1, <2>2, <1>1
    <3>3. QED BY <3>1, <3>2, <2>1
  <2>4. r = a \o b
    BY DEF a, b, Drop
  <2>5. ASSUME NEW i \in 1 .. n - 1 PROVE r[i] = IF i < k THEN q[i] ELSE q[i + 1]
    <3>1. CASE i < k
      BY <3>1, <2>1, <2>3, <2>4, <1>1
    <3>2. CASE ~(i < k)
      <4>1. i - (k - 1) \in 1 .. n - k /\ k + (i - (k - 1)) = i + 1 /\ ~(i <= k - 1)
        BY <3>2, <1>1
      <4>2. QED BY <4>1, <3>2, <2>2, <2>3, <2>4
    <3>3. QED BY <3>1, <3>2
  <2>6. QED BY <2>3, <2>4, <2>5
<1> HIDE DEF r
<1>3. IsList(r)
  <2> SUFFICES ASSUME NEW i \in 1 .. n - 1, NEW j \in 1 .. n - 1, r[i] = r[j]
               PROVE  i = j
    BY <1>2 DEF IsList
  <2>1. \A a, b \in 1 .. n : q[a] = q[b] => a = b
    BY DEF IsList
  <2>2. r[i] = (IF i < k THEN q[i] ELSE q[i + 1]) /\ r[j] = (IF j < k THEN q[j] ELSE q[j + 1])
    BY <1>2
  <2>3. i \in 1 .. n /\ i + 1 \in 1 .. n /\ j \in 1 .. n /\ j + 1 \in 1 .. n
    BY <1>1
  <2> DEFINE x == IF i < k THEN i ELSE i + 1
             y == IF j < k THEN j ELSE j + 1
  <2>4. q[x] = q[y] /\ x \in 1 .. n /\ y \in 1 .. n
    BY <2>2, <2>3
  <2>5. x = y
    BY <2>1, <2>4
  <2>6. k \in Int /\ i \in Int /\ j \in Int
    BY <1>1
  <2>7. QED BY <2>5, <2>6
<1>4. ASSUME NEW i \in 1 .. n, i # k
      PROVE  \E j \in 1 .. n - 1 : r[j] = q[i] /\ j = IF i < k THEN i ELSE i - 1
  <2>1. CASE i < k
    BY <1>1, <1>2, <2>1
  <2>2. CASE i > k
    <3>1. i - 1 \in 1 .. n - 1 /\ ~(i - 1 < k) /\ (i - 1) + 1 = i
      BY <1>1, <2>2
    <3>2. r[i - 1] = q[i]
      BY <1>2, <3>1
    <3>3. QED BY <3>1, <3>2, <2>2
  <2>3. QED BY <1>1, <1>4, <2>1, <2>2
<1>5. \A m : InList(r, m) <=> InList(q, m) /\ m # q[k]
  <2> TAKE m
  <2>1. ASSUME InList(r, m) PROVE InList(q, m) /\ m # q[k]
    <3>1. PICK i \in 1 .. n - 1 : r[i] = m
      BY <1>2, <2>1 DEF InList
    <3>2. PICK a \in 1 .. n : q[a] = m /\ a # k
      <4>1. i \in 1 .. n /\ i + 1 \in 1 .. n
        BY <1>1
      <4>2. r[i] = IF i < k THEN q[i] ELSE q[i + 1]
        BY <1>2
      <4>3. CASE i < k
        BY <3>1, <4>1, <4>2, <4>3
      <4>4. CASE ~(i < k)
        BY <3>1, <4>1, <4>2, <4>4
      <4>5. QED BY <4>3, <4>4
    <3>3. \A x, y \in 1 .. n : q[x] = q[y] => x = y
      BY DEF IsList
    <3>4. QED BY <3>2, <3>3 DEF InList
  <2>2. ASSUME InList(q, m), m # q[k] PROVE InList(r, m)
    <3>1. PICK i \in 1 .. n : q[i] = m
      BY <2>2 DEF InList
    <3>2. i # k
      BY <2>2, <3>1
    <3>3. QED BY <1>2, <1>4, <3>1, <3>2 DEF InList
  <2>3. QED BY <2>1, <2>2
<1>6. ASSUME NEW a, NEW b, Before(q, a, b), a # q[k], b # q[k]
      PROVE  Before(r, a, b)
  <2>1. PICK i \in 1 .. n, j \in 1 .. n : i <= j /\ q[i] = a /\ q[j] = b
    BY <1>6 DEF Before
  <2>2. i # k /\ j # k
    BY <1>6, <2>1
  <2>3. PICK x \in 1 .. n - 1 : r[x] = a /\ x = IF i < k THEN i ELSE i - 1
    BY <1>4, <2>1, <2>2
  <2>4. PICK y \in 1 .. n - 1 : r[y] = b /\ y = IF j < k THEN j ELSE j - 1
    BY <1>4, <2>1, <2>2
  <2>5. x <= y
    BY <2>1, <2>2, <2>3, <2>4
  <2>6. QED BY <1>2, <2>3, <2>4, <2>5 DEF Before
<1>7. QED BY <1>2, <1>3, <1>5, <1>6 DEF r

-----------------------------------------------------------------------------
(* Tables: the list macros *)

LEMMA ChainFacts ==
  ASSUME NEW e, NEW lk, NEW q, Chain(e, lk, q)
  PROVE  /\ IsList(q) /\ q \in Seq(Nodes) /\ Len(q) \in Nat
         /\ \A i \in 1 .. Len(q) : q[i] \in Nodes
         /\ e.tail = NULL <=> Len(q) = 0
         /\ e.first = NULL <=> Len(q) = 0
         /\ \A i \in 1 .. Len(q) :
              /\ lk[q[i]].prev = NULL <=> i = 1
              /\ lk[q[i]].next = NULL <=> i = Len(q)
<1>1. q \in Seq(Nodes) /\ Len(q) \in Nat /\ \A i \in 1 .. Len(q) : q[i] \in Nodes
  BY DEF Chain, IsList
<1>2. \A i \in Int : NodeAt(q, i) # NULL <=> i \in 1 .. Len(q)
  BY <1>1, NodeAtType
<1>3. \A i \in 1 .. Len(q) : (i - 1 \in 1 .. Len(q) <=> i # 1) /\ (i + 1 \in 1 .. Len(q) <=> i # Len(q))
  BY <1>1
<1>4. (1 \in 1 .. Len(q) <=> Len(q) # 0) /\ (Len(q) \in 1 .. Len(q) <=> Len(q) # 0)
  BY <1>1
<1>5. IsList(q)
  BY DEF Chain
<1>6. (e.tail = NULL <=> Len(q) = 0) /\ (e.first = NULL <=> Len(q) = 0)
  BY <1>1, <1>2, <1>4 DEF Chain
<1>7. ASSUME NEW i \in 1 .. Len(q)
      PROVE  (lk[q[i]].prev = NULL <=> i = 1) /\ (lk[q[i]].next = NULL <=> i = Len(q))
  <2>1. lk[q[i]].prev = NodeAt(q, i - 1) /\ lk[q[i]].next = NodeAt(q, i + 1)
    BY DEF Chain
  <2>2. i - 1 \in Int /\ i + 1 \in Int
    BY <1>1
  <2>3. QED BY <2>1, <2>2, <1>2, <1>3
<1>8. QED BY <1>1, <1>5, <1>6, <1>7

(* A chain is the same for links that agree on its nodes. *)
LEMMA ChainSame ==
  ASSUME NEW e, NEW lk, NEW lk2, NEW q, Chain(e, lk, q),
         \A i \in 1 .. Len(q) : lk2[q[i]] = lk[q[i]]
  PROVE  Chain(e, lk2, q)
BY DEF Chain

LEMMA ChainInserted ==
  ASSUME NEW e, NEW lk \in [Nodes -> Links], NEW q, Chain(e, lk, q),
         NEW n \in Nodes, ~InList(q, n),
         NEW e2, e2 = [first |-> IF e.tail = NULL THEN n ELSE e.first, tail |-> n],
         NEW lk2,
         lk2[n] = [prev |-> e.tail, next |-> NULL],
         e.tail # NULL => lk2[e.tail] = [lk[e.tail] EXCEPT !.next = n],
         \A m \in Nodes : m # n /\ m # e.tail => lk2[m] = lk[m]
  PROVE  Chain(e2, lk2, Append(q, n))
<1> DEFINE r == Append(q, n)
           k == Len(q)
<1>1. /\ IsList(q) /\ q \in Seq(Nodes) /\ k \in Nat
      /\ \A i \in 1 .. k : q[i] \in Nodes
      /\ e.tail = NULL <=> k = 0
  BY ChainFacts
<1>2. /\ IsList(r)
      /\ Len(r) = k + 1
      /\ \A i \in 1 .. k : r[i] = q[i]
      /\ r[k + 1] = n
  BY <1>1, AppendIs
<1>3. \A i \in 1 .. k : q[i] # n
  BY DEF InList
<1>4. \A i, j \in 1 .. k : q[i] = q[j] => i = j
  BY <1>1 DEF IsList
<1>5. /\ e.first = NodeAt(q, 1)
      /\ e.tail = NodeAt(q, k)
      /\ \A i \in 1 .. k : lk[q[i]].prev = NodeAt(q, i - 1) /\ lk[q[i]].next = NodeAt(q, i + 1)
  BY DEF Chain
<1> HIDE DEF r, k
<1>6. \A i \in 1 .. k : NodeAt(r, i) = NodeAt(q, i) /\ NodeAt(q, i) = q[i]
  BY <1>1, <1>2 DEF NodeAt, k
<1>7. NodeAt(r, k + 1) = n /\ NodeAt(r, k + 2) = NULL /\ NodeAt(r, 0) = NULL /\ NodeAt(q, 0) = NULL
  BY <1>1, <1>2 DEF NodeAt, k
<1>8. e2.first = NodeAt(r, 1)
  <2>1. CASE k = 0
    BY <2>1, <1>1, <1>7
  <2>2. CASE k > 0
    BY <2>2, <1>1, <1>5, <1>6
  <2>3. QED BY <1>1, <2>1, <2>2
<1>9. e2.tail = NodeAt(r, Len(r))
  BY <1>2, <1>7
<1>10. ASSUME NEW i \in 1 .. k
       PROVE  lk2[r[i]].prev = NodeAt(r, i - 1) /\ lk2[r[i]].next = NodeAt(r, i + 1)
  <2>1. r[i] = q[i] /\ q[i] \in Nodes /\ q[i] # n
    BY <1>1, <1>2, <1>3
  <2>2. lk[q[i]] \in Links
    BY <2>1
  <2>3. NodeAt(r, i - 1) = NodeAt(q, i - 1)
    <3>1. CASE i = 1
      BY <3>1, <1>7
    <3>2. CASE i # 1
      BY <3>2, <1>1, <1>6
    <3>3. QED BY <3>1, <3>2
  <2>4. CASE i = k
    <3>1. k \in 1 .. k
      BY <2>4
    <3>2. e.tail = q[i]
      BY <2>4, <3>1, <1>5, <1>6
    <3>3. lk2[q[i]] = [lk[q[i]] EXCEPT !.next = n]
      BY <3>1, <3>2, <1>1
    <3>4. lk2[q[i]].prev = lk[q[i]].prev /\ lk2[q[i]].next = n
      BY <3>3, <2>2 DEF Links
    <3>5. QED BY <3>4, <2>1, <2>3, <2>4, <1>5, <1>7
  <2>5. CASE i # k
    <3>1. i + 1 \in 1 .. k /\ k \in 1 .. k
      BY <2>5, <1>1
    <3>2. e.tail # q[i]
      BY <3>1, <2>5, <1>4, <1>5, <1>6
    <3>3. lk2[q[i]] = lk[q[i]]
      BY <2>1, <3>2
    <3>4. QED BY <3>1, <3>3, <2>1, <2>3, <1>5, <1>6
  <2>6. QED BY <2>4, <2>5
<1>11. lk2[r[k + 1]].prev = NodeAt(r, k) /\ lk2[r[k + 1]].next = NodeAt(r, k + 2)
  <2>1. NodeAt(r, k) = NodeAt(q, k)
    <3>1. CASE k = 0
      BY <3>1, <1>7
    <3>2. CASE k > 0
      BY <3>2, <1>1, <1>6
    <3>3. QED BY <1>1, <3>1, <3>2
  <2>2. QED BY <2>1, <1>2, <1>5, <1>7
<1>12. ASSUME NEW i \in 1 .. Len(r)
       PROVE  lk2[r[i]].prev = NodeAt(r, i - 1) /\ lk2[r[i]].next = NodeAt(r, i + 1)
  <2>1. CASE i \in 1 .. k
    BY <2>1, <1>10
  <2>2. CASE i = k + 1
    <3>1. i - 1 = k /\ i + 1 = k + 2
      BY <2>2, <1>1
    <3>2. QED BY <2>2, <3>1, <1>11
  <2>3. QED BY <2>1, <2>2, <1>1, <1>2
<1>13. QED BY <1>2, <1>8, <1>9, <1>12 DEF Chain, r

(* The macros keep the types of the table, whatever it holds.              *)
LEMMA InsTypes ==
  ASSUME NEW ent \in [SlotIds -> Ends], NEW lnk \in [Nodes -> Links],
         NEW s \in SlotIds, NEW n \in Nodes
  PROVE  /\ InsEntry(ent, s, n) \in [SlotIds -> Ends]
         /\ InsLink(ent, lnk, s, n) \in [Nodes -> Links]
<1>1. ent[s] \in Ends /\ ent[s].tail \in Nodes \cup {NULL} /\ ent[s].first \in Nodes \cup {NULL}
  BY DEF Ends
<1>2. InsEntry(ent, s, n) \in [SlotIds -> Ends]
  <2> DEFINE e2 == [first |-> IF ent[s].tail = NULL THEN n ELSE ent[s].first, tail |-> n]
  <2>1. e2 \in Ends
    BY <1>1 DEF Ends
  <2>2. InsEntry(ent, s, n) = [ent EXCEPT ![s] = e2]
    BY DEF InsEntry
  <2> HIDE DEF e2
  <2>3. QED BY <2>1, <2>2
<1>3. \A m \in Nodes : [lnk[m] EXCEPT !.next = n] \in Links
  BY DEF Links
<1>4. [prev |-> ent[s].tail, next |-> NULL] \in Links
  BY <1>1 DEF Links
<1>5. \A m \in Nodes : (IF m = n THEN [prev |-> ent[s].tail, next |-> NULL]
                        ELSE IF m = ent[s].tail THEN [lnk[m] EXCEPT !.next = n]
                        ELSE lnk[m]) \in Links
  BY <1>3, <1>4
<1>6. QED BY <1>2, <1>5 DEF InsLink

LEMMA DelTypes ==
  ASSUME entry \in [SlotIds -> Ends], link \in [Nodes -> Links],
         NEW s \in SlotIds, NEW n \in Nodes
  PROVE  /\ DelEntry(s, n) \in [SlotIds -> Ends]
         /\ DelLink(n) \in [Nodes -> Links]
         /\ link[n].next \in Nodes \cup {NULL}
<1>1. \A m \in Nodes : link[m] \in Links /\ link[m].prev \in Nodes \cup {NULL} /\ link[m].next \in Nodes \cup {NULL}
  BY DEF Links
<1>2. DelEntry(s, n) \in [SlotIds -> Ends]
  <2> DEFINE e2 == [first |-> IF link[n].prev = NULL THEN link[n].next ELSE entry[s].first,
                    tail  |-> IF link[n].next = NULL THEN link[n].prev ELSE entry[s].tail]
  <2>1. entry[s] \in Ends /\ entry[s].first \in Nodes \cup {NULL} /\ entry[s].tail \in Nodes \cup {NULL}
    BY DEF Ends
  <2>2. e2 \in Ends
    BY <1>1, <2>1 DEF Ends
  <2>3. DelEntry(s, n) = [entry EXCEPT ![s] = e2]
    BY DEF DelEntry
  <2> HIDE DEF e2
  <2>4. QED BY <2>2, <2>3
<1>3. noLink \in Links
  BY DEF noLink, Links
<1>4. ASSUME NEW m \in Nodes
      PROVE  [prev |-> IF link[n].next = m THEN link[n].prev ELSE link[m].prev,
              next |-> IF link[n].prev = m THEN link[n].next ELSE link[m].next] \in Links
  BY <1>1 DEF Links
<1>5. DelLink(n) \in [Nodes -> Links]
  BY <1>3, <1>4 DEF DelLink
<1>6. QED BY <1>1, <1>2, <1>5

(* INSERT_TMR_NODE *)
LEMMA Inserted ==
  ASSUME NEW ent \in [SlotIds -> Ends], NEW lnk \in [Nodes -> Links],
         NEW own \in [Nodes -> SlotIds \cup {NULL}],
         NEW L \in [SlotIds -> Seq(Nodes)], Table(ent, lnk, own, L),
         NEW s \in SlotIds, NEW n \in Nodes, own[n] = NULL
  PROVE  /\ InsEntry(ent, s, n) \in [SlotIds -> Ends]
         /\ InsLink(ent, lnk, s, n) \in [Nodes -> Links]
         /\ [L EXCEPT ![s] = Append(@, n)] \in [SlotIds -> Seq(Nodes)]
         /\ Table(InsEntry(ent, s, n), InsLink(ent, lnk, s, n), [own EXCEPT ![n] = s],
                  [L EXCEPT ![s] = Append(@, n)])
<1> DEFINE ent2 == InsEntry(ent, s, n)
           lnk2 == InsLink(ent, lnk, s, n)
           own2 == [own EXCEPT ![n] = s]
           L2 == [L EXCEPT ![s] = Append(@, n)]
<1>1. ent[s] \in Ends /\ ent[s].tail \in Nodes \cup {NULL} /\ ent[s].first \in Nodes \cup {NULL}
  BY DEF Ends
<1>2. /\ ent2 \in [SlotIds -> Ends]
      /\ ent2[s] = [first |-> IF ent[s].tail = NULL THEN n ELSE ent[s].first, tail |-> n]
      /\ \A u \in SlotIds : u # s => ent2[u] = ent[u]
  <2> DEFINE e2 == [first |-> IF ent[s].tail = NULL THEN n ELSE ent[s].first, tail |-> n]
  <2>1. e2 \in Ends
    BY <1>1 DEF Ends
  <2>2. ent2 = [ent EXCEPT ![s] = e2]
    BY DEF InsEntry
  <2> HIDE DEF e2, ent2
  <2>3. /\ ent2 \in [SlotIds -> Ends]
        /\ ent2[s] = e2
        /\ \A u \in SlotIds : u # s => ent2[u] = ent[u]
    BY <2>1, <2>2
  <2>4. QED BY <2>3 DEF e2
<1>3. \A u \in SlotIds : Chain(ent[u], lnk, L[u]) /\ \A m \in Nodes : InList(L[u], m) <=> own[m] = u
  BY DEF Table
<1>4. \A u \in SlotIds : ~InList(L[u], n)
  BY <1>3, NullApart
<1>5. ent[s].tail # NULL => InList(L[s], ent[s].tail) /\ ent[s].tail \in Nodes /\ ent[s].tail # n
  <2> SUFFICES ASSUME ent[s].tail # NULL
               PROVE  InList(L[s], ent[s].tail) /\ ent[s].tail \in Nodes
    BY <1>4
  <2>1. ent[s].tail = NodeAt(L[s], Len(L[s]))
    BY <1>3 DEF Chain
  <2>2. QED BY <2>1, <1>1 DEF NodeAt, InList
<1>6. /\ lnk2[n] = [prev |-> ent[s].tail, next |-> NULL]
      /\ ent[s].tail \in Nodes /\ ent[s].tail # n => lnk2[ent[s].tail] = [lnk[ent[s].tail] EXCEPT !.next = n]
      /\ \A m \in Nodes : m # n /\ m # ent[s].tail => lnk2[m] = lnk[m]
  <2>1. ent[s].tail # n
    BY <1>5, NullApart
  <2>2. \A m \in Nodes : lnk2[m] = IF m = n THEN [prev |-> ent[s].tail, next |-> NULL]
                                    ELSE IF m = ent[s].tail THEN [lnk[m] EXCEPT !.next = n]
                                    ELSE lnk[m]
    BY DEF InsLink
  <2> HIDE DEF lnk2
  <2>3. lnk2[n] = [prev |-> ent[s].tail, next |-> NULL]
    BY <2>1, <2>2
  <2>4. ent[s].tail \in Nodes => lnk2[ent[s].tail] = [lnk[ent[s].tail] EXCEPT !.next = n]
    BY <2>1, <2>2
  <2>5. \A m \in Nodes : m # n /\ m # ent[s].tail => lnk2[m] = lnk[m]
    BY <2>2
  <2>6. QED BY <2>3, <2>4, <2>5
<1>7. lnk2 \in [Nodes -> Links]
  BY InsTypes
<1>8. L2 \in [SlotIds -> Seq(Nodes)] /\ L2[s] = Append(L[s], n) /\ \A u \in SlotIds : u # s => L2[u] = L[u]
  OBVIOUS
<1>9. own2[n] = s /\ \A m \in Nodes : m # n => own2[m] = own[m]
  OBVIOUS
<1> HIDE DEF ent2, lnk2, own2, L2
<1>10. Chain(ent2[s], lnk2, L2[s])
  <2>1. Chain(ent[s], lnk, L[s]) /\ ~InList(L[s], n)
    BY <1>3, <1>4
  <2>2. ent[s].tail # NULL => lnk2[ent[s].tail] = [lnk[ent[s].tail] EXCEPT !.next = n]
    BY <1>6, <1>5
  <2>3. Chain(ent2[s], lnk2, Append(L[s], n))
    BY <2>1, <2>2, <1>2, <1>6, ChainInserted
  <2>4. QED BY <2>3, <1>8
<1>11. \A m \in Nodes : InList(L2[s], m) <=> own2[m] = s
  <2>1. IsList(L[s])
    BY <1>3 DEF Chain
  <2>2. \A m : InList(L2[s], m) <=> InList(L[s], m) \/ m = n
    BY <2>1, <1>4, <1>8, AppendIs
  <2>3. QED BY <2>2, <1>3, <1>9
<1>12. ASSUME NEW u \in SlotIds, u # s
       PROVE  Chain(ent2[u], lnk2, L2[u]) /\ \A m \in Nodes : InList(L2[u], m) <=> own2[m] = u
  <2>1. L2[u] = L[u] /\ ent2[u] = ent[u] /\ Chain(ent[u], lnk, L[u])
    BY <1>2, <1>3, <1>8, <1>12
  <2>2. ASSUME NEW i \in 1 .. Len(L[u]) PROVE lnk2[L[u][i]] = lnk[L[u][i]]
    <3>1. L[u][i] \in Nodes /\ InList(L[u], L[u][i])
      BY <2>1, ChainFacts DEF InList
    <3>2. own[L[u][i]] = u
      BY <3>1, <1>3
    <3>3. L[u][i] # n /\ L[u][i] # ent[s].tail
      BY <3>1, <3>2, <1>3, <1>4, <1>5, <1>12, NullApart
    <3>4. QED BY <3>1, <3>3, <1>6
  <2>3. Chain(ent2[u], lnk2, L2[u])
    BY <2>1, <2>2, ChainSame
  <2>4. QED BY <2>1, <2>3, <1>3, <1>4, <1>9, <1>12
<1>13. QED
  <2>1. Table(ent2, lnk2, own2, L2)
    BY <1>10, <1>11, <1>12 DEF Table
  <2>2. QED BY <2>1, <1>2, <1>7, <1>8 DEF ent2, lnk2, own2, L2

(* The slot e and the links lk become e2 and lk2 when n is taken out.       *)
TakenOut(e, lk, n, e2, lk2) ==
  /\ e2.first = IF lk[n].prev = NULL THEN lk[n].next ELSE e.first
  /\ e2.tail = IF lk[n].next = NULL THEN lk[n].prev ELSE e.tail
  /\ \A m \in Nodes : m # n =>
       /\ lk2[m].prev = IF lk[n].next = m THEN lk[n].prev ELSE lk[m].prev
       /\ lk2[m].next = IF lk[n].prev = m THEN lk[n].next ELSE lk[m].next

LEMMA ChainRemoved ==
  ASSUME NEW e, NEW lk \in [Nodes -> Links], NEW q, Chain(e, lk, q),
         NEW k \in 1 .. Len(q), NEW n, n = q[k],
         NEW e2, NEW lk2, TakenOut(e, lk, n, e2, lk2)
  PROVE  Chain(e2, lk2, Drop(q, k))
<1> DEFINE r == Drop(q, k)
           z == Len(q)
<1>1. /\ IsList(q) /\ q \in Seq(Nodes) /\ z \in Nat /\ z > 0
      /\ \A i \in 1 .. z : q[i] \in Nodes
      /\ \A i, j \in 1 .. z : q[i] = q[j] => i = j
  BY ChainFacts DEF IsList
<1>2. /\ IsList(r)
      /\ Len(r) = z - 1
      /\ \A i \in 1 .. z - 1 : r[i] = IF i < k THEN q[i] ELSE q[i + 1]
  BY <1>1, DropIs
<1>3. /\ e.first = NodeAt(q, 1)
      /\ e.tail = NodeAt(q, z)
      /\ \A i \in 1 .. z : lk[q[i]].prev = NodeAt(q, i - 1) /\ lk[q[i]].next = NodeAt(q, i + 1)
      /\ \A i \in 1 .. z :
           /\ lk[q[i]].prev = NULL <=> i = 1
           /\ lk[q[i]].next = NULL <=> i = z
  <2>1. /\ e.first = NodeAt(q, 1)
        /\ e.tail = NodeAt(q, z)
        /\ \A i \in 1 .. z : lk[q[i]].prev = NodeAt(q, i - 1) /\ lk[q[i]].next = NodeAt(q, i + 1)
    BY DEF Chain
  <2>2. \A i \in 1 .. z :
          /\ lk[q[i]].prev = NULL <=> i = 1
          /\ lk[q[i]].next = NULL <=> i = z
    BY ChainFacts
  <2>3. QED BY <2>1, <2>2
<1>4. k \in 1 .. z
  OBVIOUS
<1> USE DEF TakenOut
<1> HIDE DEF r, z
<1>5. \A i \in 0 .. z : NodeAt(r, i) = IF i < k THEN NodeAt(q, i) ELSE NodeAt(q, i + 1)
  <2> TAKE i \in 0 .. z
  <2>1. CASE i \in 1 .. z - 1
    <3>1. i \in 1 .. z /\ i + 1 \in 1 .. z
      BY <2>1, <1>1
    <3>2. NodeAt(r, i) = r[i] /\ NodeAt(q, i) = q[i] /\ NodeAt(q, i + 1) = q[i + 1]
      BY <2>1, <3>1, <1>2 DEF NodeAt, z
    <3>3. QED BY <2>1, <3>2, <1>2
  <2>2. CASE i = 0
    <3>1. 0 < k /\ ~(0 \in 1 .. Len(r)) /\ ~(0 \in 1 .. Len(q))
      BY <1>1, <1>2, <1>4 DEF z
    <3>2. QED BY <2>2, <3>1 DEF NodeAt
  <2>3. CASE i = z
    <3>1. ~(z < k) /\ ~(z \in 1 .. Len(r)) /\ ~(z + 1 \in 1 .. Len(q))
      BY <1>1, <1>2, <1>4 DEF z
    <3>2. QED BY <2>3, <3>1 DEF NodeAt
  <2>4. QED BY <2>1, <2>2, <2>3, <1>1
<1>6. lk[n].prev = NodeAt(q, k - 1) /\ lk[n].next = NodeAt(q, k + 1)
      /\ (lk[n].prev = NULL <=> k = 1) /\ (lk[n].next = NULL <=> k = z)
  BY <1>3, <1>4
<1>7. e2.first = NodeAt(r, 1)
  <2>1. NodeAt(r, 1) = IF 1 < k THEN NodeAt(q, 1) ELSE NodeAt(q, 2)
    BY <1>1, <1>5
  <2>2. CASE k = 1
    BY <2>1, <2>2, <1>6
  <2>3. CASE k # 1
    BY <2>1, <2>3, <1>3, <1>4, <1>6
  <2>4. QED BY <2>2, <2>3
<1>8. e2.tail = NodeAt(r, Len(r))
  <2>1. NodeAt(r, z - 1) = IF z - 1 < k THEN NodeAt(q, z - 1) ELSE NodeAt(q, z)
    <3>1. z - 1 \in 0 .. z /\ (z - 1) + 1 = z
      BY <1>1
    <3>2. QED BY <3>1, <1>5
  <2>2. CASE k = z
    BY <2>1, <2>2, <1>1, <1>2, <1>6
  <2>3. CASE k # z
    BY <2>1, <2>3, <1>1, <1>2, <1>3, <1>4, <1>6
  <2>4. QED BY <2>2, <2>3
<1>9. ASSUME NEW j \in 1 .. z, j # k
      PROVE  /\ lk2[q[j]].prev = IF j = k + 1 THEN NodeAt(q, k - 1) ELSE NodeAt(q, j - 1)
             /\ lk2[q[j]].next = IF j = k - 1 THEN NodeAt(q, k + 1) ELSE NodeAt(q, j + 1)
  <2>1. q[j] \in Nodes /\ q[j] # n
    BY <1>1, <1>4, <1>9
  <2>2. /\ lk2[q[j]].prev = IF lk[n].next = q[j] THEN lk[n].prev ELSE lk[q[j]].prev
        /\ lk2[q[j]].next = IF lk[n].prev = q[j] THEN lk[n].next ELSE lk[q[j]].next
    BY <2>1
  <2>3. lk[n].next = q[j] <=> j = k + 1
    <3>1. CASE k + 1 \in 1 .. z
      <4>1. NodeAt(q, k + 1) = q[k + 1]
        BY <3>1 DEF NodeAt, z
      <4>2. QED BY <4>1, <3>1, <1>1, <1>6
    <3>2. CASE ~(k + 1 \in 1 .. z)
      <4>1. NodeAt(q, k + 1) = NULL
        BY <3>2 DEF NodeAt, z
      <4>2. QED BY <4>1, <3>2, <2>1, <1>6, NullApart
    <3>3. QED BY <3>1, <3>2
  <2>4. lk[n].prev = q[j] <=> j = k - 1
    <3>1. CASE k - 1 \in 1 .. z
      <4>1. NodeAt(q, k - 1) = q[k - 1]
        BY <3>1 DEF NodeAt, z
      <4>2. QED BY <4>1, <3>1, <1>1, <1>6
    <3>2. CASE ~(k - 1 \in 1 .. z)
      <4>1. NodeAt(q, k - 1) = NULL
        BY <3>2 DEF NodeAt, z
      <4>2. QED BY <4>1, <3>2, <2>1, <1>6, NullApart
    <3>3. QED BY <3>1, <3>2
  <2>5. QED BY <2>2, <2>3, <2>4, <1>3, <1>6
<1>10. ASSUME NEW i \in 1 .. z - 1
       PROVE  lk2[r[i]].prev = NodeAt(r, i - 1) /\ lk2[r[i]].next = NodeAt(r, i + 1)
  <2>1. /\ i \in 1 .. z /\ i + 1 \in 1 .. z /\ i - 1 \in 0 .. z /\ i + 1 \in 0 .. z
        /\ (i - 1) + 1 = i /\ (i + 1) - 1 = i
    BY <1>1
  <2>2. /\ NodeAt(r, i - 1) = IF i - 1 < k THEN NodeAt(q, i - 1) ELSE NodeAt(q, i)
        /\ NodeAt(r, i + 1) = IF i + 1 < k THEN NodeAt(q, i + 1) ELSE NodeAt(q, (i + 1) + 1)
    BY <2>1, <1>5
  <2>3. CASE i < k
    <3>1. r[i] = q[i] /\ i # k /\ i - 1 < k /\ i # k + 1 /\ (i + 1 < k <=> i # k - 1)
      BY <2>3, <1>2, <1>4
    <3>2. /\ lk2[q[i]].prev = NodeAt(q, i - 1)
          /\ lk2[q[i]].next = IF i = k - 1 THEN NodeAt(q, k + 1) ELSE NodeAt(q, i + 1)
      BY <3>1, <2>1, <1>9
    <3>3. i = k - 1 => (i + 1) + 1 = k + 1
      BY <1>4
    <3>4. QED BY <3>1, <3>2, <3>3, <2>2
  <2>4. CASE ~(i < k)
    <3>1. /\ r[i] = q[i + 1] /\ i + 1 # k /\ i + 1 # k - 1 /\ ~(i + 1 < k)
          /\ (i - 1 < k <=> i + 1 = k + 1)
      BY <2>4, <1>2, <1>4
    <3>2. /\ lk2[q[i + 1]].prev = IF i + 1 = k + 1 THEN NodeAt(q, k - 1) ELSE NodeAt(q, (i + 1) - 1)
          /\ lk2[q[i + 1]].next = NodeAt(q, (i + 1) + 1)
      BY <3>1, <2>1, <1>9
    <3>3. i + 1 = k + 1 => k - 1 = i - 1
      BY <1>4
    <3>4. QED BY <3>1, <3>2, <3>3, <2>1, <2>2
  <2>5. QED BY <2>3, <2>4
<1>11. QED BY <1>2, <1>7, <1>8, <1>10 DEF Chain, r

(* DEL_TMR_NODE *)
LEMMA Deleted ==
  ASSUME entry \in [SlotIds -> Ends], link \in [Nodes -> Links],
         ownEntry \in [Nodes -> SlotIds \cup {NULL}],
         NEW L \in [SlotIds -> Seq(Nodes)], Table(entry, link, ownEntry, L),
         NEW s \in SlotIds, NEW k \in 1 .. Len(L[s]), NEW n \in Nodes, n = L[s][k]
  PROVE  /\ DelEntry(s, n) \in [SlotIds -> Ends]
         /\ DelLink(n) \in [Nodes -> Links]
         /\ [L EXCEPT ![s] = Drop(@, k)] \in [SlotIds -> Seq(Nodes)]
         /\ Table(DelEntry(s, n), DelLink(n), [ownEntry EXCEPT ![n] = NULL],
                  [L EXCEPT ![s] = Drop(@, k)])
<1> DEFINE own2 == [ownEntry EXCEPT ![n] = NULL]
           L2 == [L EXCEPT ![s] = Drop(@, k)]
           e2 == [first |-> IF link[n].prev = NULL THEN link[n].next ELSE entry[s].first,
                  tail  |-> IF link[n].next = NULL THEN link[n].prev ELSE entry[s].tail]
<1>1. \A m \in Nodes : link[m] \in Links /\ link[m].prev \in Nodes \cup {NULL} /\ link[m].next \in Nodes \cup {NULL}
  BY DEF Links
<1>2. entry[s] \in Ends /\ e2 \in Ends
  <2>1. entry[s] \in Ends /\ entry[s].first \in Nodes \cup {NULL} /\ entry[s].tail \in Nodes \cup {NULL}
    BY DEF Ends
  <2>2. link[n].prev \in Nodes \cup {NULL} /\ link[n].next \in Nodes \cup {NULL}
    BY <1>1
  <2>3. QED BY <2>1, <2>2 DEF Ends
<1>3. DelEntry(s, n) = [entry EXCEPT ![s] = e2]
  BY DEF DelEntry
<1>4. \A m \in Nodes : DelLink(n)[m] =
        IF m = n THEN noLink
        ELSE [prev |-> IF link[n].next = m THEN link[n].prev ELSE link[m].prev,
              next |-> IF link[n].prev = m THEN link[n].next ELSE link[m].next]
  BY DEF DelLink
<1>5. DelLink(n) \in [Nodes -> Links]
  BY DelTypes
<1>6. \A u \in SlotIds : Chain(entry[u], link, L[u]) /\ \A m \in Nodes : InList(L[u], m) <=> ownEntry[m] = u
  BY DEF Table
<1>7. InList(L[s], n) /\ ownEntry[n] = s
  BY <1>6 DEF InList
<1>8. own2[n] = NULL /\ \A m \in Nodes : m # n => own2[m] = ownEntry[m]
  OBVIOUS
<1>9. IsList(L[s])
  BY <1>6 DEF Chain
<1>10. IsList(Drop(L[s], k)) /\ \A m : InList(Drop(L[s], k), m) <=> InList(L[s], m) /\ m # n
  BY <1>9, DropIs
<1>11. L2 \in [SlotIds -> Seq(Nodes)] /\ L2[s] = Drop(L[s], k) /\ \A u \in SlotIds : u # s => L2[u] = L[u]
  <2>1. Drop(L[s], k) \in Seq(Nodes)
    BY <1>10 DEF IsList
  <2>2. QED BY <2>1
<1> HIDE DEF own2, L2
<1>12. Chain(e2, DelLink(n), L2[s])
  <2>1. Chain(entry[s], link, L[s])
    BY <1>6
  <2>2. \A m \in Nodes : m # n =>
          /\ DelLink(n)[m].prev = IF link[n].next = m THEN link[n].prev ELSE link[m].prev
          /\ DelLink(n)[m].next = IF link[n].prev = m THEN link[n].next ELSE link[m].next
    <3> TAKE m \in Nodes
    <3> DEFINE a == IF link[n].next = m THEN link[n].prev ELSE link[m].prev
               b == IF link[n].prev = m THEN link[n].next ELSE link[m].next
    <3>1. m # n => DelLink(n)[m] = [prev |-> a, next |-> b]
      BY <1>4
    <3> HIDE DEF a, b
    <3>2. m # n => DelLink(n)[m].prev = a /\ DelLink(n)[m].next = b
      BY <3>1
    <3>3. QED BY <3>2 DEF a, b
  <2>3. /\ e2.first = (IF link[n].prev = NULL THEN link[n].next ELSE entry[s].first)
        /\ e2.tail = (IF link[n].next = NULL THEN link[n].prev ELSE entry[s].tail)
    OBVIOUS
  <2> HIDE DEF e2
  <2>4. Chain(e2, DelLink(n), Drop(L[s], k))
    <3>1. TakenOut(entry[s], link, n, e2, DelLink(n))
      BY <2>2, <2>3 DEF TakenOut
    <3>2. QED BY <2>1, <3>1, ChainRemoved
  <2>5. QED BY <2>4, <1>11
<1> HIDE DEF e2
<1>13. \A m \in Nodes : InList(L2[s], m) <=> own2[m] = s
  BY <1>6, <1>8, <1>10, <1>11, NullApart
<1>14. DelEntry(s, n) \in [SlotIds -> Ends] /\ DelEntry(s, n)[s] = e2 /\ \A u \in SlotIds : u # s => DelEntry(s, n)[u] = entry[u]
  BY <1>2, <1>3
<1>15. ASSUME NEW u \in SlotIds, u # s
       PROVE  Chain(DelEntry(s, n)[u], DelLink(n), L2[u]) /\ \A m \in Nodes : InList(L2[u], m) <=> own2[m] = u
  <2>1. L2[u] = L[u] /\ DelEntry(s, n)[u] = entry[u] /\ Chain(entry[u], link, L[u])
    BY <1>6, <1>11, <1>14, <1>15
  <2>2. link[n].prev # NULL => InList(L[s], link[n].prev)
    <3>1. link[n].prev = NodeAt(L[s], k - 1)
      <4>1. Chain(entry[s], link, L[s])
        BY <1>6
      <4>2. link[L[s][k]].prev = NodeAt(L[s], k - 1)
        BY <4>1 DEF Chain
      <4>3. QED BY <4>2
    <3>2. QED BY <3>1 DEF NodeAt, InList
  <2>3. link[n].next # NULL => InList(L[s], link[n].next)
    <3>1. link[n].next = NodeAt(L[s], k + 1)
      <4>1. Chain(entry[s], link, L[s])
        BY <1>6
      <4>2. link[L[s][k]].next = NodeAt(L[s], k + 1)
        BY <4>1 DEF Chain
      <4>3. QED BY <4>2
    <3>2. QED BY <3>1 DEF NodeAt, InList
  <2>4. ASSUME NEW i \in 1 .. Len(L[u]) PROVE DelLink(n)[L[u][i]] = link[L[u][i]]
    <3>1. L[u][i] \in Nodes /\ InList(L[u], L[u][i])
      BY <2>1, ChainFacts DEF InList
    <3>2. ownEntry[L[u][i]] = u
      BY <3>1, <1>6
    <3>3. ~InList(L[s], L[u][i])
      BY <3>1, <3>2, <1>6, <1>15
    <3>4. L[u][i] # n /\ L[u][i] # link[n].prev /\ L[u][i] # link[n].next
      BY <3>1, <3>3, <2>2, <2>3, <1>7, NullApart
    <3>5. DelLink(n)[L[u][i]] = [prev |-> link[L[u][i]].prev, next |-> link[L[u][i]].next]
      BY <3>1, <3>4, <1>4
    <3>6. link[L[u][i]] \in Links
      BY <3>1, <1>1
    <3>7. QED BY <3>5, <3>6 DEF Links
  <2>5. Chain(DelEntry(s, n)[u], DelLink(n), L2[u])
    BY <2>1, <2>4, ChainSame
  <2>6. QED BY <2>1, <2>5, <1>6, <1>7, <1>8, <1>15, NullApart
<1>16. Table(DelEntry(s, n), DelLink(n), own2, L2)
  BY <1>12, <1>13, <1>14, <1>15 DEF Table
<1>17. QED BY <1>5, <1>11, <1>14, <1>16 DEF own2, L2

-----------------------------------------------------------------------------
(* Types *)

LEMMA TableTypes ==
  ASSUME Typed
  PROVE  /\ entry \in [SlotIds -> Ends] /\ link \in [Nodes -> Links]
         /\ tmr \in [Nodes -> Timers]
         /\ ownEntry \in [Nodes -> SlotIds \cup {NULL}]
         /\ cur \in Nat /\ tick \in Nat /\ prevTick \in Nat /\ cur <= tick
         /\ cur = tick \/ cur + 1 <= tick
         /\ \A n \in Nodes :
              /\ tmr[n] \in Timers
              /\ tmr[n].expTick \in Nat /\ tmr[n].updateTick \in Nat
              /\ tmr[n].used \in BOOLEAN /\ tmr[n].resetFlg \in BOOLEAN
              /\ link[n].next \in Nodes \cup {NULL}
              /\ link[n].prev \in Nodes \cup {NULL}
              /\ tmr[n].used => ownEntry[n] \in SlotIds
              /\ ~tmr[n].used => ownEntry[n] = NULL
<1>1. TypeOK /\ \A n \in Nodes : tmr[n].used <=> ownEntry[n] # NULL
  BY DEF Typed
<1>2. entry \in [SlotIds -> Ends] /\ link \in [Nodes -> Links] /\ tmr \in [Nodes -> Timers]
  BY <1>1 DEF TypeOK, Ends, Links, Timers
<1>3. ownEntry \in [Nodes -> SlotIds \cup {NULL}]
  BY <1>1 DEF TypeOK
<1>4. MaxTick \in Nat
  BY WheelAssumption
<1>5. cur \in Nat /\ tick \in Nat /\ prevTick \in Nat /\ cur <= tick /\ (cur = tick \/ cur + 1 <= tick)
  BY <1>1, <1>4 DEF TypeOK
<1>6. \A n \in Nodes :
        /\ tmr[n] \in Timers
        /\ tmr[n].expTick \in Nat /\ tmr[n].updateTick \in Nat
        /\ tmr[n].used \in BOOLEAN /\ tmr[n].resetFlg \in BOOLEAN
        /\ link[n].next \in Nodes \cup {NULL}
        /\ link[n].prev \in Nodes \cup {NULL}
  BY <1>2 DEF Timers, Links
<1>7. QED BY <1>1, <1>2, <1>3, <1>5, <1>6

(* TypeOK with the types by their names. *)
LEMMA TypeIs ==
  TypeOK <=>
    /\ tick \in 0 .. MaxTick
    /\ prevTick \in 0 .. tick
    /\ cur \in prevTick .. tick
    /\ entry \in [SlotIds -> Ends]
    /\ tmr \in [Nodes -> Timers]
    /\ link \in [Nodes -> Links]
    /\ ownEntry \in [Nodes -> SlotIds \cup {NULL}]
    /\ pc \in {"idle", "tick", "node", "callback"}
    /\ node \in Nodes \cup {NULL}
    /\ tmpNode \in Nodes \cup {NULL}
    /\ pc = "node" => node # NULL
    /\ calls \in 0 .. MaxCalls
    /\ cut \in BOOLEAN
BY DEF TypeOK, Ends, Links, Timers

(* What the steps do to the timers is of their type. *)
LEMMA TimerTypes ==
  /\ noTimer \in Timers
  /\ ~noTimer.used /\ noTimer.expTick = 0 /\ noTimer.updateTick = 0 /\ ~noTimer.resetFlg
  /\ \A u \in BOOLEAN, t \in Nat :
       /\ [noTimer EXCEPT !.used = u, !.expTick = t] \in Timers
       /\ [noTimer EXCEPT !.used = u, !.expTick = t].used = u
       /\ [noTimer EXCEPT !.used = u, !.expTick = t].expTick = t
       /\ [noTimer EXCEPT !.used = u, !.expTick = t].updateTick = 0
       /\ ~[noTimer EXCEPT !.used = u, !.expTick = t].resetFlg
BY DEF noTimer, Timers

(* The parts of a state that a call or a visit changes. *)
TableTyped ==
  /\ entry \in [SlotIds -> Ends]
  /\ tmr \in [Nodes -> Timers]
  /\ link \in [Nodes -> Links]
  /\ ownEntry \in [Nodes -> SlotIds \cup {NULL}]
  /\ \A n \in Nodes : tmr[n].used <=> ownEntry[n] # NULL
  /\ \A n \in Nodes : ~tmr[n].resetFlg => tmr[n].updateTick = 0
  /\ \A n \in Nodes : tmr[n].resetFlg => tmr[n].used

LEMMA TypedIs ==
  Typed <=>
    /\ TableTyped
    /\ tick \in 0 .. MaxTick
    /\ prevTick \in 0 .. tick
    /\ cur \in prevTick .. tick
    /\ pc \in {"idle", "tick", "node", "callback"}
    /\ node \in Nodes \cup {NULL}
    /\ tmpNode \in Nodes \cup {NULL}
    /\ pc \in {"node", "callback"} => node # NULL
    /\ pc = "idle" => cur = prevTick
    /\ calls \in 0 .. MaxCalls
    /\ cut \in BOOLEAN
BY TypeIs DEF Typed, TableTyped

(* One node gets the timer t and the slot o. *)
LEMMA OneTimer ==
  ASSUME TableTyped, NEW n \in Nodes, NEW t \in Timers, NEW o \in SlotIds \cup {NULL},
         t.used <=> o # NULL, ~t.resetFlg => t.updateTick = 0, t.resetFlg => t.used,
         tmr' = [tmr EXCEPT ![n] = t], ownEntry' = [ownEntry EXCEPT ![n] = o],
         entry' \in [SlotIds -> Ends], link' \in [Nodes -> Links]
  PROVE  /\ TableTyped'
         /\ tmr'[n] = t /\ ownEntry'[n] = o
         /\ \A m \in Nodes : m # n => tmr'[m] = tmr[m] /\ ownEntry'[m] = ownEntry[m]
<1>1. /\ tmr'[n] = t /\ ownEntry'[n] = o
      /\ \A m \in Nodes : m # n => tmr'[m] = tmr[m] /\ ownEntry'[m] = ownEntry[m]
  BY DEF TableTyped
<1>2. tmr' \in [Nodes -> Timers] /\ ownEntry' \in [Nodes -> SlotIds \cup {NULL}]
  BY DEF TableTyped
<1>3. \A m \in Nodes :
        /\ tmr'[m].used <=> ownEntry'[m] # NULL
        /\ ~tmr'[m].resetFlg => tmr'[m].updateTick = 0
        /\ tmr'[m].resetFlg => tmr'[m].used
  BY <1>1 DEF TableTyped
<1>4. QED BY <1>1, <1>2, <1>3 DEF TableTyped

LEMMA StartIs ==
  ASSUME TableTyped, tick \in Nat, NEW n \in Nodes, NEW expTm \in 1 .. MaxExpTm, StartTm(n, expTm)
  PROVE  /\ TableTyped'
         /\ ownEntry[n] = NULL /\ ~tmr[n].used
         /\ tick + expTm \in Nat /\ tick + expTm > tick
         /\ SlotOf(tick + expTm) \in SlotIds
         /\ tmr'[n].used /\ tmr'[n].expTick = tick + expTm
         /\ tmr'[n].updateTick = 0 /\ ~tmr'[n].resetFlg
         /\ ownEntry'[n] = SlotOf(tick + expTm)
         /\ \A m \in Nodes : m # n => tmr'[m] = tmr[m] /\ ownEntry'[m] = ownEntry[m]
<1> DEFINE x == tick + expTm
           t == [noTimer EXCEPT !.used = TRUE, !.expTick = x]
           s == SlotOf(x)
<1>1. x \in Nat /\ x > tick
  BY WheelAssumption
<1>2. s \in SlotIds /\ s # NULL
  BY <1>1, SlotType, NullApart
<1>3. t \in Timers /\ t.used /\ t.expTick = x /\ t.updateTick = 0 /\ ~t.resetFlg
  BY <1>1, TimerTypes
<1>4. /\ ~tmr[n].used
      /\ tmr' = [tmr EXCEPT ![n] = t]
      /\ ownEntry' = [ownEntry EXCEPT ![n] = s]
      /\ entry' = InsEntry(entry, s, n) /\ link' = InsLink(entry, link, s, n)
  BY DEF StartTm
<1> HIDE DEF s, t, x
<1>5. entry' \in [SlotIds -> Ends] /\ link' \in [Nodes -> Links]
  BY <1>2, <1>4, InsTypes DEF TableTyped
<1>6. /\ TableTyped' /\ tmr'[n] = t /\ ownEntry'[n] = s
      /\ \A m \in Nodes : m # n => tmr'[m] = tmr[m] /\ ownEntry'[m] = ownEntry[m]
  BY <1>2, <1>3, <1>4, <1>5, OneTimer
<1>7. ownEntry[n] = NULL
  BY <1>4 DEF TableTyped
<1>8. QED BY <1>1, <1>2, <1>3, <1>4, <1>6, <1>7 DEF s, x

LEMMA RestartIs ==
  ASSUME TableTyped, NEW n \in Nodes, NEW expTm \in 1 .. MaxExpTm, RestartTm(n, expTm)
  PROVE  /\ TableTyped'
         /\ tmr[n].used /\ tmr'[n].used /\ tmr'[n].expTick = tmr[n].expTick
         /\ tmr'[n].updateTick = tmr[n].updateTick + expTm /\ tmr'[n].resetFlg
         /\ tmr'[n].updateTick > 0
         /\ UNCHANGED <<entry, link, ownEntry>>
         /\ \A m \in Nodes : m # n => tmr'[m] = tmr[m]
<1> DEFINE t == [tmr[n] EXCEPT !.resetFlg = TRUE, !.updateTick = @ + expTm]
<1>1. expTm \in Nat /\ expTm > 0
  BY WheelAssumption
<1>2. tmr[n] \in Timers /\ tmr[n].updateTick \in Nat
  BY DEF TableTyped, Timers
<1>3. tmr[n].updateTick + expTm \in Nat /\ tmr[n].updateTick + expTm > 0
  BY <1>1, <1>2
<1>4. /\ t \in Timers /\ t.used = tmr[n].used /\ t.expTick = tmr[n].expTick
      /\ t.updateTick = tmr[n].updateTick + expTm /\ t.resetFlg
  BY <1>2, <1>3 DEF Timers
<1>5. tmr[n].used /\ UNCHANGED <<entry, link, ownEntry>> /\ tmr' = [tmr EXCEPT ![n] = t]
  BY DEF RestartTm
<1> HIDE DEF t
<1>6. tmr'[n] = t /\ tmr' \in [Nodes -> Timers] /\ \A m \in Nodes : m # n => tmr'[m] = tmr[m]
  BY <1>4, <1>5 DEF TableTyped
<1>7. \A m \in Nodes :
        /\ tmr'[m].used <=> ownEntry'[m] # NULL
        /\ ~tmr'[m].resetFlg => tmr'[m].updateTick = 0
        /\ tmr'[m].resetFlg => tmr'[m].used
  BY <1>4, <1>5, <1>6 DEF TableTyped
<1>8. TableTyped'
  BY <1>5, <1>6, <1>7 DEF TableTyped
<1>9. QED BY <1>3, <1>4, <1>5, <1>6, <1>8

LEMMA CancelIs ==
  ASSUME TableTyped, NEW n \in Nodes, CancelTm(n)
  PROVE  /\ TableTyped'
         /\ tmr[n].used /\ ownEntry[n] \in SlotIds
         /\ ~tmr'[n].used /\ ownEntry'[n] = NULL
         /\ \A m \in Nodes : m # n => tmr'[m] = tmr[m] /\ ownEntry'[m] = ownEntry[m]
<1>1. /\ tmr[n].used
      /\ entry' = DelEntry(ownEntry[n], n) /\ link' = DelLink(n)
      /\ tmr' = [tmr EXCEPT ![n] = noTimer] /\ ownEntry' = [ownEntry EXCEPT ![n] = NULL]
  BY DEF CancelTm
<1>2. ownEntry[n] \in SlotIds
  BY <1>1 DEF TableTyped
<1>3. entry' \in [SlotIds -> Ends] /\ link' \in [Nodes -> Links]
  BY <1>1, <1>2, DelTypes DEF TableTyped
<1>4. noTimer \in Timers /\ ~noTimer.used /\ noTimer.updateTick = 0 /\ ~noTimer.resetFlg
  BY TimerTypes
<1>5. /\ TableTyped' /\ tmr'[n] = noTimer /\ ownEntry'[n] = NULL
      /\ \A m \in Nodes : m # n => tmr'[m] = tmr[m] /\ ownEntry'[m] = ownEntry[m]
  BY <1>1, <1>3, <1>4, OneTimer
<1>6. QED BY <1>1, <1>2, <1>4, <1>5

LEMMA ExecuteIs ==
  ASSUME TableTyped, cur \in Nat, node \in Nodes, Execute
  PROVE  /\ TableTyped'
         /\ ~tmr'[node].used /\ ownEntry'[node] = NULL
         /\ tmpNode' \in Nodes \cup {NULL}
         /\ \A m \in Nodes : m # node => tmr'[m] = tmr[m] /\ ownEntry'[m] = ownEntry[m]
<1>1. /\ entry' = DelEntry(SlotOf(cur), node) /\ link' = DelLink(node)
      /\ tmr' = [tmr EXCEPT ![node] = noTimer] /\ ownEntry' = [ownEntry EXCEPT ![node] = NULL]
      /\ tmpNode' = link[node].next
  BY DEF Execute
<1>2. SlotOf(cur) \in SlotIds
  BY SlotType
<1>3. entry' \in [SlotIds -> Ends] /\ link' \in [Nodes -> Links] /\ tmpNode' \in Nodes \cup {NULL}
  BY <1>1, <1>2, DelTypes DEF TableTyped
<1>4. noTimer \in Timers /\ ~noTimer.used /\ noTimer.updateTick = 0 /\ ~noTimer.resetFlg
  BY TimerTypes
<1>5. /\ TableTyped' /\ tmr'[node] = noTimer /\ ownEntry'[node] = NULL
      /\ \A m \in Nodes : m # node => tmr'[m] = tmr[m] /\ ownEntry'[m] = ownEntry[m]
  BY <1>1, <1>3, <1>4, OneTimer
<1>6. QED BY <1>3, <1>4, <1>5

LEMMA VisitResetIs ==
  ASSUME TableTyped, cur \in Nat, node \in Nodes, VisitReset
  PROVE  /\ TableTyped'
         /\ tmr[node].used /\ tmr'[node].used /\ tmr[node].resetFlg
         /\ tmr[node].expTick + tmr[node].updateTick \in Nat
         /\ tmr'[node].expTick = tmr[node].expTick + tmr[node].updateTick
         /\ tmr'[node].updateTick = 0 /\ ~tmr'[node].resetFlg
         /\ ownEntry'[node] = SlotOf(tmr'[node].expTick)
         /\ ownEntry'[node] \in SlotIds
         /\ node' \in Nodes \cup {NULL}
         /\ \A m \in Nodes : m # node => tmr'[m] = tmr[m] /\ ownEntry'[m] = ownEntry[m]
<1> DEFINE x == tmr[node].expTick + tmr[node].updateTick
           t == [noTimer EXCEPT !.used = tmr[node].used, !.expTick = x]
           s == SlotOf(x)
           ent == DelEntry(SlotOf(cur), node)
<1>1. tmr[node].expTick \in Nat /\ tmr[node].updateTick \in Nat /\ tmr[node].used \in BOOLEAN
  BY DEF TableTyped, Timers
<1>2. x \in Nat /\ s \in SlotIds /\ s # NULL
  BY <1>1, SlotType, NullApart
<1>3. tmr[node].resetFlg /\ tmr[node].used
  BY DEF VisitReset, TableTyped
<1>4. t \in Timers /\ t.used /\ t.expTick = x /\ t.updateTick = 0 /\ ~t.resetFlg
  BY <1>1, <1>2, <1>3, TimerTypes
<1>5. /\ tmr' = [tmr EXCEPT ![node] = t]
      /\ ownEntry' = [ownEntry EXCEPT ![node] = s]
      /\ entry' = InsEntry(ent, s, node) /\ link' = InsLink(ent, DelLink(node), s, node)
      /\ node' = link[node].next
  BY DEF VisitReset, MoveTo, GoOn
<1>6. SlotOf(cur) \in SlotIds
  BY SlotType
<1>7. ent \in [SlotIds -> Ends] /\ DelLink(node) \in [Nodes -> Links] /\ node' \in Nodes \cup {NULL}
  BY <1>5, <1>6, DelTypes DEF TableTyped
<1> HIDE DEF s, t, x, ent
<1>8. entry' \in [SlotIds -> Ends] /\ link' \in [Nodes -> Links]
  BY <1>2, <1>5, <1>7, InsTypes
<1>9. /\ TableTyped' /\ tmr'[node] = t /\ ownEntry'[node] = s
      /\ \A m \in Nodes : m # node => tmr'[m] = tmr[m] /\ ownEntry'[m] = ownEntry[m]
  BY <1>2, <1>4, <1>5, <1>8, OneTimer
<1>10. QED BY <1>2, <1>3, <1>4, <1>7, <1>9 DEF s, x

-----------------------------------------------------------------------------
(* Types, step by step *)

LEMMA CallTyped ==
  ASSUME TableTyped, tick \in Nat, cut \in BOOLEAN, Call
  PROVE  TableTyped' /\ cut' \in BOOLEAN
<1>1. PICK n \in Nodes : CancelTm(n) \/ \E expTm \in 1 .. MaxExpTm : StartTm(n, expTm) \/ RestartTm(n, expTm)
  BY DEF Call
<1>2. CASE CancelTm(n)
  BY <1>2, CancelIs DEF CancelTm
<1>3. ASSUME NEW expTm \in 1 .. MaxExpTm, StartTm(n, expTm) PROVE TableTyped' /\ cut' \in BOOLEAN
  BY <1>3, StartIs DEF StartTm
<1>4. ASSUME NEW expTm \in 1 .. MaxExpTm, RestartTm(n, expTm) PROVE TableTyped' /\ cut' \in BOOLEAN
  BY <1>4, RestartIs DEF RestartTm
<1>5. QED BY <1>1, <1>2, <1>3, <1>4

LEMMA SameTable ==
  ASSUME TableTyped, UNCHANGED table PROVE TableTyped'
BY DEF TableTyped, table

LEMMA GoOnTypes ==
  ASSUME TableTyped, NEW n \in Nodes \cup {NULL}, GoOn(n)
  PROVE  /\ node' \in Nodes \cup {NULL} /\ tmpNode' \in Nodes \cup {NULL}
         /\ pc' \in {"tick", "node"} /\ (pc' = "node" => node' # NULL)
         /\ UNCHANGED <<tick, prevTick, cur>>
BY DEF GoOn

LEMMA TypedStep ==
  ASSUME Typed, [Next]_vars PROVE Typed'
<1>1. /\ TableTyped
      /\ tick \in 0 .. MaxTick /\ prevTick \in 0 .. tick /\ cur \in prevTick .. tick
      /\ pc \in {"idle", "tick", "node", "callback"}
      /\ node \in Nodes \cup {NULL} /\ tmpNode \in Nodes \cup {NULL}
      /\ pc \in {"node", "callback"} => node # NULL
      /\ pc = "idle" => cur = prevTick
      /\ calls \in 0 .. MaxCalls /\ cut \in BOOLEAN
  BY TypedIs
<1>2. tick \in Nat /\ prevTick \in Nat /\ cur \in Nat /\ calls \in Nat /\ MaxTick \in Nat /\ MaxCalls \in Nat
  BY <1>1, WheelAssumption
<1>3. \A n \in Nodes : link[n].next \in Nodes \cup {NULL}
  BY <1>1 DEF TableTyped, Links
<1>4. SUFFICES /\ TableTyped'
               /\ tick' \in 0 .. MaxTick /\ prevTick' \in 0 .. tick' /\ cur' \in prevTick' .. tick'
               /\ pc' \in {"idle", "tick", "node", "callback"}
               /\ node' \in Nodes \cup {NULL} /\ tmpNode' \in Nodes \cup {NULL}
               /\ pc' \in {"node", "callback"} => node' # NULL
               /\ pc' = "idle" => cur' = prevTick'
               /\ calls' \in 0 .. MaxCalls /\ cut' \in BOOLEAN
  <2>1. TableTyped' <=> (TableTyped)'
    OBVIOUS
  <2>2. QED BY <2>1, TypeIs DEF Typed, TypeOK, TableTyped, Ends, Links, Timers
<1>5. CASE MainCall
  <2>1. TableTyped' /\ cut' \in BOOLEAN
    BY <1>1, <1>2, <1>5, CallTyped DEF MainCall
  <2>2. UNCHANGED <<tick, prevTick, pc, cur, node, tmpNode, calls>>
    BY <1>5 DEF MainCall, handler
  <2>3. QED BY <1>1, <2>1, <2>2
<1>6. CASE ExecTmrTick
  <2>1. TableTyped' /\ UNCHANGED <<prevTick, pc, cur, node, tmpNode, calls, cut>>
    BY <1>1, <1>6, SameTable DEF ExecTmrTick, handler
  <2>2. tick' \in 0 .. MaxTick /\ tick <= tick'
    BY <1>2, <1>6, WheelAssumption DEF ExecTmrTick
  <2>3. prevTick \in 0 .. tick' /\ cur \in prevTick .. tick'
    BY <1>1, <1>2, <2>2
  <2>4. QED BY <1>1, <2>1, <2>2, <2>3
<1>7. CASE HandlerCall
  <2>1. TableTyped' /\ UNCHANGED <<tick, prevTick, node, tmpNode, calls, cut>>
    BY <1>1, <1>7, SameTable DEF HandlerCall
  <2>2. pc' = "tick" /\ cur' = prevTick
    BY <1>7 DEF HandlerCall
  <2>3. QED BY <1>1, <1>2, <2>1, <2>2
<1>8. CASE NextTick
  <2>1. TableTyped' /\ UNCHANGED <<tick, prevTick, tmpNode, calls, cut>>
    BY <1>1, <1>8, SameTable DEF NextTick
  <2>2. /\ cur' = cur + 1 /\ cur < tick /\ node' = entry[SlotOf(cur + 1)].first
        /\ pc' = IF node' = NULL THEN "tick" ELSE "node"
    BY <1>8 DEF NextTick
  <2>3. node' \in Nodes \cup {NULL}
    <3>1. SlotOf(cur + 1) \in SlotIds
      BY <1>2, SlotType
    <3>2. QED BY <1>1, <2>2, <3>1 DEF TableTyped, Ends
  <2>4. cur' \in prevTick .. tick
    BY <1>1, <1>2, <2>2
  <2>5. QED BY <1>1, <2>1, <2>2, <2>3, <2>4
<1>9. CASE HandlerReturn
  <2>1. TableTyped' /\ UNCHANGED <<tick, cur, node, tmpNode, calls, cut>>
    BY <1>1, <1>9, SameTable DEF HandlerReturn
  <2>2. pc' = "idle" /\ prevTick' = cur /\ cur = tick
    BY <1>9 DEF HandlerReturn
  <2>3. QED BY <1>1, <1>2, <2>1, <2>2
<1>10. CASE VisitReset
  <2>1. pc = "node" /\ node \in Nodes
    BY <1>1, <1>10 DEF VisitReset
  <2>2. TableTyped'
    BY <1>1, <1>2, <1>10, <2>1, VisitResetIs
  <2>3. GoOn(link[node].next) /\ UNCHANGED <<calls, cut>>
    BY <1>10 DEF VisitReset
  <2>4. QED BY <1>1, <1>3, <2>1, <2>2, <2>3, GoOnTypes
<1>11. CASE VisitFire
  <2>1. node \in Nodes /\ Execute
    BY <1>1, <1>11 DEF VisitFire
  <2>2. TableTyped' /\ tmpNode' \in Nodes \cup {NULL}
    BY <1>1, <1>2, <2>1, ExecuteIs
  <2>3. pc' = "callback" /\ UNCHANGED <<tick, prevTick, cur, node, calls, cut>>
    BY <2>1 DEF Execute
  <2>4. QED BY <1>1, <2>1, <2>2, <2>3, NullApart
<1>12. CASE VisitPass
  <2>1. pc = "node" /\ node \in Nodes /\ TableTyped' /\ GoOn(link[node].next) /\ UNCHANGED <<calls, cut>>
    BY <1>1, <1>12, SameTable DEF VisitPass
  <2>2. QED BY <1>1, <1>3, <2>1, GoOnTypes
<1>13. CASE CallbackReturn
  <2>1. TableTyped' /\ GoOn(tmpNode) /\ calls' = 0 /\ UNCHANGED cut
    BY <1>1, <1>13, SameTable DEF CallbackReturn
  <2>2. QED BY <1>1, <1>2, <2>1, GoOnTypes
<1>14. CASE CallbackCall
  <2>1. TableTyped' /\ cut' \in BOOLEAN
    BY <1>1, <1>2, <1>14, CallTyped DEF CallbackCall
  <2>2. UNCHANGED <<tick, prevTick, pc, cur, node, tmpNode>> /\ calls' \in 0 .. MaxCalls
    BY <1>2, <1>14 DEF CallbackCall
  <2>3. QED BY <1>1, <2>1, <2>2
<1>15. CASE UNCHANGED vars
  BY <1>1, <1>15, SameTable DEF vars, handler
<1>16. QED
  BY <1>5, <1>6, <1>7, <1>8, <1>9, <1>10, <1>11, <1>12, <1>13, <1>14, <1>15 DEF Next, HandlerStep

-----------------------------------------------------------------------------
(* The walk, step by step: the lists L before a step, those of the step    *)
(* after it.                                                               *)

Wheel(L) == Table(entry, link, ownEntry, L) /\ Ahead(L)

LEMMA ComingIs ==
  /\ pc = "node" => Coming = node
  /\ pc = "callback" => Coming = tmpNode
  /\ pc \in {"idle", "tick"} => Coming = NULL
  /\ pc' = "node" => Coming' = node'
  /\ pc' = "callback" => Coming' = tmpNode'
  /\ pc' \in {"idle", "tick"} => Coming' = NULL
BY DEF Coming

(* Whoever is behind place k is the node at place k + 1 or behind it. *)
LEMMA NextOn ==
  ASSUME NEW q, IsList(q), NEW k \in 1 .. Len(q)
  PROVE  /\ NodeAt(q, k + 1) # NULL => InList(q, NodeAt(q, k + 1)) /\ NodeAt(q, k + 1) # q[k]
         /\ \A m : Before(q, q[k], m) /\ m # q[k] =>
              NodeAt(q, k + 1) # NULL /\ Before(q, NodeAt(q, k + 1), m)
<1>1. /\ q \in Seq(Nodes) /\ Len(q) \in Nat /\ \A i \in 1 .. Len(q) : q[i] \in Nodes
      /\ \A i, j \in 1 .. Len(q) : q[i] = q[j] => i = j
  BY DEF IsList
<1>2. ASSUME NodeAt(q, k + 1) # NULL
      PROVE  InList(q, NodeAt(q, k + 1)) /\ NodeAt(q, k + 1) # q[k]
  <2>1. k + 1 \in 1 .. Len(q) /\ NodeAt(q, k + 1) = q[k + 1]
    BY <1>2 DEF NodeAt
  <2>2. k + 1 # k
    BY <1>1
  <2>3. QED BY <1>1, <2>1, <2>2 DEF InList
<1>3. ASSUME NEW m, Before(q, q[k], m), m # q[k]
      PROVE  NodeAt(q, k + 1) # NULL /\ Before(q, NodeAt(q, k + 1), m)
  <2>1. PICK i \in 1 .. Len(q), j \in 1 .. Len(q) : i <= j /\ q[i] = q[k] /\ q[j] = m
    BY <1>3 DEF Before
  <2>2. i = k /\ j # k
    BY <1>1, <1>3, <2>1
  <2>3. k + 1 <= j /\ k + 1 \in 1 .. Len(q)
    BY <1>1, <2>1, <2>2
  <2>4. NodeAt(q, k + 1) = q[k + 1] /\ q[k + 1] \in Nodes
    BY <1>1, <2>3 DEF NodeAt
  <2>5. QED BY <2>1, <2>3, <2>4, NullApart DEF Before
<1>4. QED BY <1>2, <1>3

(* n goes to the end of slot s. *)
LEMMA Appended ==
  ASSUME NEW L \in [SlotIds -> Seq(Nodes)], NEW s \in SlotIds, NEW n \in Nodes,
         IsList(L[s]), ~InList(L[s], n)
  PROVE  \A u \in SlotIds :
           /\ \A m : InList(L[u], m) => InList([L EXCEPT ![s] = Append(@, n)][u], m)
           /\ \A a, b : Before(L[u], a, b) => Before([L EXCEPT ![s] = Append(@, n)][u], a, b)
<1> DEFINE L2 == [L EXCEPT ![s] = Append(@, n)]
<1>1. L2[s] = Append(L[s], n) /\ \A u \in SlotIds : u # s => L2[u] = L[u]
  OBVIOUS
<1>2. /\ \A m : InList(L[s], m) => InList(L2[s], m)
      /\ \A a, b : Before(L[s], a, b) => Before(L2[s], a, b)
  BY <1>1, AppendIs
<1> HIDE DEF L2
<1>3. \A u \in SlotIds :
        /\ \A m : InList(L[u], m) => InList(L2[u], m)
        /\ \A a, b : Before(L[u], a, b) => Before(L2[u], a, b)
  BY <1>1, <1>2
<1>4. QED BY <1>3 DEF L2

(* n leaves slot s, where it is at place k. *)
LEMMA Dropped ==
  ASSUME NEW L \in [SlotIds -> Seq(Nodes)], NEW s \in SlotIds, IsList(L[s]),
         NEW k \in 1 .. Len(L[s]), NEW n, n = L[s][k]
  PROVE  \A u \in SlotIds :
           /\ \A m : InList(L[u], m) /\ m # n => InList([L EXCEPT ![s] = Drop(@, k)][u], m)
           /\ \A a, b : Before(L[u], a, b) /\ a # n /\ b # n =>
                Before([L EXCEPT ![s] = Drop(@, k)][u], a, b)
<1> DEFINE L2 == [L EXCEPT ![s] = Drop(@, k)]
<1>1. L2[s] = Drop(L[s], k) /\ \A u \in SlotIds : u # s => L2[u] = L[u]
  OBVIOUS
<1>2. /\ \A m : InList(L[s], m) /\ m # n => InList(L2[s], m)
      /\ \A a, b : Before(L[s], a, b) /\ a # n /\ b # n => Before(L2[s], a, b)
  BY <1>1, DropIs
<1> HIDE DEF L2
<1>3. \A u \in SlotIds :
        /\ \A m : InList(L[u], m) /\ m # n => InList(L2[u], m)
        /\ \A a, b : Before(L[u], a, b) /\ a # n /\ b # n => Before(L2[u], a, b)
  BY <1>1, <1>2
<1>4. QED BY <1>3 DEF L2

LEMMA TableFacts ==
  ASSUME NEW L, Table(entry, link, ownEntry, L)
  PROVE  \A s \in SlotIds :
           /\ Chain(entry[s], link, L[s]) /\ IsList(L[s])
           /\ \A n \in Nodes : InList(L[s], n) <=> ownEntry[n] = s
           /\ \A k \in 1 .. Len(L[s]) : L[s][k] \in Nodes /\ ownEntry[L[s][k]] = s
<1>1. \A s \in SlotIds :
        /\ Chain(entry[s], link, L[s])
        /\ \A n \in Nodes : InList(L[s], n) <=> ownEntry[n] = s
  BY DEF Table
<1>2. \A s \in SlotIds : IsList(L[s]) /\ \A k \in 1 .. Len(L[s]) : L[s][k] \in Nodes
  BY <1>1, ChainFacts
<1>3. \A s \in SlotIds : \A k \in 1 .. Len(L[s]) : InList(L[s], L[s][k])
  BY DEF InList
<1>4. QED BY <1>1, <1>2, <1>3

LEMMA StartWheel ==
  ASSUME Typed, NEW L \in [SlotIds -> Seq(Nodes)], Wheel(L),
         NEW n \in Nodes, NEW expTm \in 1 .. MaxExpTm, StartTm(n, expTm),
         cur' = cur, Coming' = Coming
  PROVE  \E M \in [SlotIds -> Seq(Nodes)] : Wheel(M)'
<1> DEFINE s == SlotOf(tick + expTm)
<1>1. TableTyped /\ tick \in Nat /\ cur \in Nat /\ cur <= tick
  BY TypedIs, TableTypes
<1>2. /\ ownEntry[n] = NULL /\ ~tmr[n].used
      /\ tick + expTm \in Nat /\ tick + expTm > tick /\ s \in SlotIds
      /\ tmr'[n].used /\ tmr'[n].expTick = tick + expTm
      /\ tmr'[n].updateTick = 0 /\ ~tmr'[n].resetFlg
      /\ ownEntry'[n] = s
      /\ \A m \in Nodes : m # n => tmr'[m] = tmr[m] /\ ownEntry'[m] = ownEntry[m]
  BY <1>1, StartIs
<1>3. PICK sc : sc = s
  OBVIOUS
<1>4. /\ ownEntry' = [ownEntry EXCEPT ![n] = sc]
      /\ entry' = InsEntry(entry, sc, n) /\ link' = InsLink(entry, link, sc, n)
  BY <1>3 DEF StartTm
<1> DEFINE M == [L EXCEPT ![sc] = Append(@, n)]
<1>5. Table(entry, link, ownEntry, L) /\ Ahead(L)
  BY DEF Wheel
<1>6. sc \in SlotIds
  BY <1>2, <1>3
<1>7. M \in [SlotIds -> Seq(Nodes)] /\ Table(entry', link', ownEntry', M)
  BY <1>1, <1>2, <1>4, <1>5, <1>6, Inserted, TableTypes
<1>8. IsList(L[sc]) /\ ~InList(L[sc], n)
  BY <1>2, <1>5, <1>6, TableFacts, NullApart
<1>9. \A u \in SlotIds :
        /\ \A m : InList(L[u], m) => InList(M[u], m)
        /\ \A a, b : Before(L[u], a, b) => Before(M[u], a, b)
  BY <1>6, <1>8, Appended
<1> HIDE DEF M, s
<1>10. SlotOf(cur) \in SlotIds
  BY <1>1, SlotType
<1>11. Coming # NULL => InList(M[SlotOf(cur)], Coming)
  BY <1>5, <1>9, <1>10 DEF Ahead
<1>12. ASSUME NEW m \in Nodes, tmr'[m].used
       PROVE  /\ ownEntry'[m] = SlotOf(tmr'[m].expTick)
              /\ tmr'[m].resetFlg => tmr'[m].updateTick > 0
              /\ \/ tmr'[m].expTick > cur
                 \/ tmr'[m].expTick = cur /\ Coming # NULL /\ Before(M[SlotOf(cur)], Coming, m)
  <2>1. CASE m = n
    BY <2>1, <1>1, <1>2 DEF s
  <2>2. CASE m # n
    BY <2>2, <1>2, <1>5, <1>9, <1>10, <1>12 DEF Ahead
  <2>3. QED BY <2>1, <2>2
<1>13. Ahead(M)'
  BY <1>11, <1>12 DEF Ahead
<1>14. Wheel(M)'
  BY <1>7, <1>13 DEF Wheel
<1>15. QED BY <1>7, <1>14

LEMMA RestartWheel ==
  ASSUME Typed, NEW L \in [SlotIds -> Seq(Nodes)], Wheel(L),
         NEW n \in Nodes, NEW expTm \in 1 .. MaxExpTm, RestartTm(n, expTm),
         cur' = cur, Coming' = Coming
  PROVE  Wheel(L)'
<1>1. TableTyped
  BY TypedIs
<1>2. /\ tmr[n].used /\ tmr'[n].used /\ tmr'[n].expTick = tmr[n].expTick
      /\ tmr'[n].updateTick > 0 /\ UNCHANGED <<entry, link, ownEntry>>
      /\ \A m \in Nodes : m # n => tmr'[m] = tmr[m]
  BY <1>1, RestartIs
<1>3. Table(entry', link', ownEntry', L) /\ Ahead(L)
  BY <1>2 DEF Wheel
<1>4. ASSUME NEW m \in Nodes, tmr'[m].used
      PROVE  /\ ownEntry'[m] = SlotOf(tmr'[m].expTick)
             /\ tmr'[m].resetFlg => tmr'[m].updateTick > 0
             /\ \/ tmr'[m].expTick > cur
                \/ tmr'[m].expTick = cur /\ Coming # NULL /\ Before(L[SlotOf(cur)], Coming, m)
  BY <1>2, <1>3, <1>4 DEF Ahead
<1>5. Ahead(L)'
  BY <1>3, <1>4 DEF Ahead
<1>6. QED BY <1>3, <1>5 DEF Wheel

LEMMA CancelWheel ==
  ASSUME Typed, NEW L \in [SlotIds -> Seq(Nodes)], Wheel(L),
         NEW n \in Nodes, CancelTm(n), Coming # n,
         cur' = cur, Coming' = Coming
  PROVE  \E M \in [SlotIds -> Seq(Nodes)] : Wheel(M)'
<1>1. TableTyped /\ cur \in Nat
  BY TypedIs, TableTypes
<1>2. /\ tmr[n].used /\ ownEntry[n] \in SlotIds
      /\ ~tmr'[n].used /\ ownEntry'[n] = NULL
      /\ \A m \in Nodes : m # n => tmr'[m] = tmr[m] /\ ownEntry'[m] = ownEntry[m]
  BY <1>1, CancelIs
<1>3. PICK s \in SlotIds : s = ownEntry[n]
  BY <1>2
<1>4. Table(entry, link, ownEntry, L) /\ Ahead(L)
  BY DEF Wheel
<1>5. IsList(L[s]) /\ InList(L[s], n)
  BY <1>3, <1>4, TableFacts
<1>6. PICK k \in 1 .. Len(L[s]) : n = L[s][k]
  BY <1>5 DEF InList
<1>7. /\ ownEntry' = [ownEntry EXCEPT ![n] = NULL]
      /\ entry' = DelEntry(s, n) /\ link' = DelLink(n)
  BY <1>3 DEF CancelTm
<1> DEFINE M == [L EXCEPT ![s] = Drop(@, k)]
<1>8. M \in [SlotIds -> Seq(Nodes)] /\ Table(entry', link', ownEntry', M)
  BY <1>4, <1>6, <1>7, Deleted, TableTypes
<1>9. \A u \in SlotIds :
        /\ \A m : InList(L[u], m) /\ m # n => InList(M[u], m)
        /\ \A a, b : Before(L[u], a, b) /\ a # n /\ b # n => Before(M[u], a, b)
  BY <1>5, <1>6, Dropped
<1> HIDE DEF M
<1>10. SlotOf(cur) \in SlotIds
  BY <1>1, SlotType
<1>11. Coming # NULL => InList(M[SlotOf(cur)], Coming)
  BY <1>4, <1>9, <1>10 DEF Ahead
<1>12. ASSUME NEW m \in Nodes, tmr'[m].used
       PROVE  /\ ownEntry'[m] = SlotOf(tmr'[m].expTick)
              /\ tmr'[m].resetFlg => tmr'[m].updateTick > 0
              /\ \/ tmr'[m].expTick > cur
                 \/ tmr'[m].expTick = cur /\ Coming # NULL /\ Before(M[SlotOf(cur)], Coming, m)
  BY <1>2, <1>4, <1>9, <1>10, <1>12 DEF Ahead
<1>13. Ahead(M)'
  BY <1>11, <1>12 DEF Ahead
<1>14. Wheel(M)'
  BY <1>8, <1>13 DEF Wheel
<1>15. QED BY <1>8, <1>14

LEMMA CallWheel ==
  ASSUME Typed, NEW L \in [SlotIds -> Seq(Nodes)], Wheel(L), Call, ~cut',
         pc \in {"idle", "callback"}, UNCHANGED <<cur, pc, tmpNode>>
  PROVE  \E M \in [SlotIds -> Seq(Nodes)] : Wheel(M)'
<1>1. cur' = cur /\ Coming' = Coming
  BY ComingIs
<1>2. PICK n \in Nodes : CancelTm(n) \/ \E expTm \in 1 .. MaxExpTm : StartTm(n, expTm) \/ RestartTm(n, expTm)
  BY DEF Call
<1>3. CASE CancelTm(n)
  <2>1. Coming # n
    BY <1>3, ComingIs, NullApart DEF CancelTm
  <2>2. QED BY <1>1, <1>3, <2>1, CancelWheel
<1>4. ASSUME NEW expTm \in 1 .. MaxExpTm, StartTm(n, expTm)
      PROVE  \E M \in [SlotIds -> Seq(Nodes)] : Wheel(M)'
  BY <1>1, <1>4, StartWheel
<1>5. ASSUME NEW expTm \in 1 .. MaxExpTm, RestartTm(n, expTm)
      PROVE  \E M \in [SlotIds -> Seq(Nodes)] : Wheel(M)'
  BY <1>1, <1>5, RestartWheel
<1>6. QED BY <1>2, <1>3, <1>4, <1>5

(* The visited node is in the slot of the tick, at some place k. *)
LEMMA VisitedIs ==
  ASSUME Typed, NEW L \in [SlotIds -> Seq(Nodes)], Wheel(L), pc = "node"
  PROVE  /\ SlotOf(cur) \in SlotIds /\ node \in Nodes /\ Coming = node
         /\ tmr[node].used /\ ownEntry[node] = SlotOf(cur) /\ IsList(L[SlotOf(cur)])
         /\ \E k \in 1 .. Len(L[SlotOf(cur)]) :
              /\ node = L[SlotOf(cur)][k]
              /\ link[node].next = NodeAt(L[SlotOf(cur)], k + 1)
<1>1. cur \in Nat /\ node \in Nodes \cup {NULL} /\ node # NULL /\ Coming = node
  BY TableTypes, TypedIs, ComingIs
<1>2. SlotOf(cur) \in SlotIds
  BY <1>1, SlotType
<1>3. InList(L[SlotOf(cur)], node)
  BY <1>1 DEF Wheel, Ahead
<1>4. ownEntry[node] = SlotOf(cur) /\ Chain(entry[SlotOf(cur)], link, L[SlotOf(cur)]) /\ IsList(L[SlotOf(cur)])
  BY <1>1, <1>2, <1>3, TableFacts DEF Wheel
<1>5. tmr[node].used
  BY <1>1, <1>2, <1>4, TableTypes, NullApart
<1>6. PICK k \in 1 .. Len(L[SlotOf(cur)]) : L[SlotOf(cur)][k] = node
  BY <1>3 DEF InList
<1>7. link[node].next = NodeAt(L[SlotOf(cur)], k + 1)
  BY <1>4, <1>6 DEF Chain
<1>8. QED BY <1>1, <1>2, <1>4, <1>5, <1>6, <1>7

(* What is left of the tick when the walk has seen the visited node.       *)
LEMMA Behind ==
  ASSUME Typed, NEW L \in [SlotIds -> Seq(Nodes)], Wheel(L), pc = "node",
         NEW k \in 1 .. Len(L[SlotOf(cur)]), node = L[SlotOf(cur)][k],
         NEW c, c = NodeAt(L[SlotOf(cur)], k + 1)
  PROVE  /\ c # NULL => InList(L[SlotOf(cur)], c) /\ c # node
         /\ \A m \in Nodes : tmr[m].used /\ m # node =>
              /\ ownEntry[m] = SlotOf(tmr[m].expTick)
              /\ tmr[m].resetFlg => tmr[m].updateTick > 0
              /\ \/ tmr[m].expTick > cur
                 \/ tmr[m].expTick = cur /\ c # NULL /\ Before(L[SlotOf(cur)], c, m)
<1>1. IsList(L[SlotOf(cur)]) /\ Coming = node
  BY VisitedIs
<1>2. \A m \in Nodes : tmr[m].used =>
        /\ ownEntry[m] = SlotOf(tmr[m].expTick)
        /\ tmr[m].resetFlg => tmr[m].updateTick > 0
        /\ \/ tmr[m].expTick > cur
           \/ tmr[m].expTick = cur /\ Before(L[SlotOf(cur)], node, m)
  BY <1>1 DEF Wheel, Ahead
<1>3. /\ c # NULL => InList(L[SlotOf(cur)], c) /\ c # L[SlotOf(cur)][k]
      /\ \A m : Before(L[SlotOf(cur)], L[SlotOf(cur)][k], m) /\ m # L[SlotOf(cur)][k] =>
           c # NULL /\ Before(L[SlotOf(cur)], c, m)
  BY <1>1, NextOn
<1>4. QED BY <1>2, <1>3

LEMMA PassWheel ==
  ASSUME Typed, NEW L \in [SlotIds -> Seq(Nodes)], Wheel(L), VisitPass
  PROVE  Wheel(L)'
<1>1. /\ pc = "node" /\ tmr[node].expTick # cur
      /\ node' = link[node].next /\ pc' = (IF node' = NULL THEN "tick" ELSE "node") /\ cur' = cur
      /\ UNCHANGED <<entry, tmr, link, ownEntry>>
  BY DEF VisitPass, GoOn, table
<1>2. node \in Nodes /\ tmr[node].used /\ Coming = node
  BY <1>1, VisitedIs
<1>3. PICK k \in 1 .. Len(L[SlotOf(cur)]) :
        node = L[SlotOf(cur)][k] /\ link[node].next = NodeAt(L[SlotOf(cur)], k + 1)
  BY <1>1, VisitedIs
<1>4. Coming' = node'
  BY <1>1, ComingIs
<1>5. /\ node' # NULL => InList(L[SlotOf(cur)], node')
      /\ \A m \in Nodes : tmr[m].used /\ m # node =>
           /\ ownEntry[m] = SlotOf(tmr[m].expTick)
           /\ tmr[m].resetFlg => tmr[m].updateTick > 0
           /\ \/ tmr[m].expTick > cur
              \/ tmr[m].expTick = cur /\ node' # NULL /\ Before(L[SlotOf(cur)], node', m)
  BY <1>1, <1>3, Behind
<1>6. /\ ownEntry[node] = SlotOf(tmr[node].expTick)
      /\ tmr[node].resetFlg => tmr[node].updateTick > 0
      /\ tmr[node].expTick > cur
  BY <1>1, <1>2 DEF Wheel, Ahead
<1>7. Ahead(L)'
  BY <1>1, <1>4, <1>5, <1>6 DEF Ahead
<1>8. Table(entry', link', ownEntry', L)
  BY <1>1 DEF Wheel
<1>9. QED BY <1>7, <1>8 DEF Wheel

LEMMA FireWheel ==
  ASSUME Typed, NEW L \in [SlotIds -> Seq(Nodes)], Wheel(L), VisitFire
  PROVE  \E M \in [SlotIds -> Seq(Nodes)] : Wheel(M)'
<1>1. /\ pc = "node" /\ Execute
      /\ tmpNode' = link[node].next /\ pc' = "callback" /\ cur' = cur
      /\ ownEntry' = [ownEntry EXCEPT ![node] = NULL]
      /\ entry' = DelEntry(SlotOf(cur), node) /\ link' = DelLink(node)
  BY DEF VisitFire, Execute
<1>2. node \in Nodes /\ SlotOf(cur) \in SlotIds /\ IsList(L[SlotOf(cur)])
  BY <1>1, VisitedIs
<1>3. PICK s \in SlotIds : s = SlotOf(cur)
  BY <1>2
<1>4. PICK k \in 1 .. Len(L[s]) : node = L[s][k] /\ link[node].next = NodeAt(L[s], k + 1)
  BY <1>1, <1>3, VisitedIs
<1>5. Coming' = tmpNode'
  BY <1>1, ComingIs
<1>6. /\ ~tmr'[node].used /\ ownEntry'[node] = NULL
      /\ \A m \in Nodes : m # node => tmr'[m] = tmr[m] /\ ownEntry'[m] = ownEntry[m]
  BY <1>1, <1>2, ExecuteIs, TypedIs, TableTypes
<1>7. /\ tmpNode' # NULL => InList(L[s], tmpNode') /\ tmpNode' # node
      /\ \A m \in Nodes : tmr[m].used /\ m # node =>
           /\ ownEntry[m] = SlotOf(tmr[m].expTick)
           /\ tmr[m].resetFlg => tmr[m].updateTick > 0
           /\ \/ tmr[m].expTick > cur
              \/ tmr[m].expTick = cur /\ tmpNode' # NULL /\ Before(L[s], tmpNode', m)
  BY <1>1, <1>3, <1>4, Behind, ZenonT(60)
<1> DEFINE M == [L EXCEPT ![s] = Drop(@, k)]
<1>8. M \in [SlotIds -> Seq(Nodes)] /\ Table(entry', link', ownEntry', M)
  <2>1. Table(entry, link, ownEntry, L)
    BY DEF Wheel
  <2>2. QED BY <2>1, <1>1, <1>2, <1>3, <1>4, Deleted, TableTypes
<1>9. PICK n \in Nodes : n = L[s][k]
  BY <1>2, <1>4
<1>10. \A u \in SlotIds :
         /\ \A m : InList(L[u], m) /\ m # n => InList(M[u], m)
         /\ \A a, b : Before(L[u], a, b) /\ a # n /\ b # n => Before(M[u], a, b)
  <2>1. IsList(L[s])
    BY <1>2, <1>3
  <2>2. QED BY <2>1, <1>9, Dropped
<1> HIDE DEF M
<1>11. Coming' # NULL => InList(M[s], Coming')
  BY <1>4, <1>5, <1>7, <1>9, <1>10
<1>12. ASSUME NEW m \in Nodes, tmr'[m].used
       PROVE  /\ ownEntry'[m] = SlotOf(tmr'[m].expTick)
              /\ tmr'[m].resetFlg => tmr'[m].updateTick > 0
              /\ \/ tmr'[m].expTick > cur
                 \/ tmr'[m].expTick = cur /\ Coming' # NULL /\ Before(M[s], Coming', m)
  BY <1>4, <1>5, <1>6, <1>7, <1>9, <1>10, <1>12
<1>13. Ahead(M)'
  BY <1>1, <1>3, <1>11, <1>12 DEF Ahead
<1>14. Wheel(M)'
  BY <1>8, <1>13 DEF Wheel
<1>15. QED BY <1>8, <1>14

LEMMA ResetWheel ==
  ASSUME Typed, NEW L \in [SlotIds -> Seq(Nodes)], Wheel(L), VisitReset
  PROVE  \E M \in [SlotIds -> Seq(Nodes)] : Wheel(M)'
<1>1. /\ pc = "node"
      /\ node' = link[node].next /\ pc' = (IF node' = NULL THEN "tick" ELSE "node") /\ cur' = cur
      /\ MoveTo(SlotOf(tmr[node].expTick + tmr[node].updateTick))
  BY DEF VisitReset, GoOn
<1>2. /\ node \in Nodes /\ SlotOf(cur) \in SlotIds /\ IsList(L[SlotOf(cur)])
      /\ tmr[node].used /\ Coming = node
  BY <1>1, VisitedIs
<1>3. PICK n \in Nodes : n = node
  BY <1>2
<1>4. PICK s \in SlotIds : s = SlotOf(cur)
  BY <1>2
<1>5. PICK k \in 1 .. Len(L[s]) : node = L[s][k] /\ link[node].next = NodeAt(L[s], k + 1)
  BY <1>1, <1>4, VisitedIs
<1>6. Coming' = node'
  BY <1>1, ComingIs
<1>7. /\ tmr'[n].used /\ tmr[n].resetFlg
      /\ tmr'[n].expTick = tmr[n].expTick + tmr[n].updateTick
      /\ ~tmr'[n].resetFlg
      /\ ownEntry'[n] = SlotOf(tmr'[n].expTick) /\ ownEntry'[n] \in SlotIds
      /\ \A m \in Nodes : m # n => tmr'[m] = tmr[m] /\ ownEntry'[m] = ownEntry[m]
  BY <1>2, <1>3, VisitResetIs, TypedIs, TableTypes
<1>8. PICK t \in SlotIds : t = SlotOf(tmr[node].expTick + tmr[node].updateTick)
  BY <1>3, <1>7
<1>9. /\ node' # NULL => InList(L[s], node') /\ node' # n
      /\ \A m \in Nodes : tmr[m].used /\ m # n =>
           /\ ownEntry[m] = SlotOf(tmr[m].expTick)
           /\ tmr[m].resetFlg => tmr[m].updateTick > 0
           /\ \/ tmr[m].expTick > cur
              \/ tmr[m].expTick = cur /\ node' # NULL /\ Before(L[s], node', m)
  BY <1>1, <1>3, <1>4, <1>5, Behind
<1>10. /\ entry' = InsEntry(DelEntry(s, n), t, n)
       /\ link' = InsLink(DelEntry(s, n), DelLink(n), t, n)
       /\ ownEntry' = [ownEntry EXCEPT ![n] = t]
  BY <1>1, <1>3, <1>4, <1>8 DEF MoveTo
<1> DEFINE L1 == [L EXCEPT ![s] = Drop(@, k)]
           own1 == [ownEntry EXCEPT ![n] = NULL]
           M == [L1 EXCEPT ![t] = Append(@, n)]
<1>11. /\ L1 \in [SlotIds -> Seq(Nodes)]
       /\ DelEntry(s, n) \in [SlotIds -> Ends] /\ DelLink(n) \in [Nodes -> Links]
       /\ Table(DelEntry(s, n), DelLink(n), own1, L1)
  <2>1. Table(entry, link, ownEntry, L)
    BY DEF Wheel
  <2>2. QED BY <2>1, <1>3, <1>5, Deleted, TableTypes
<1>12. own1 \in [Nodes -> SlotIds \cup {NULL}] /\ own1[n] = NULL
  BY TableTypes
<1>13. [own1 EXCEPT ![n] = t] = ownEntry'
  BY <1>10, TableTypes
<1>14. n = L[s][k]
  BY <1>3, <1>5
<1>15. \A u \in SlotIds :
         /\ \A m : InList(L[u], m) /\ m # n => InList(L1[u], m)
         /\ \A a, b : Before(L[u], a, b) /\ a # n /\ b # n => Before(L1[u], a, b)
  <2>1. IsList(L[s])
    BY <1>2, <1>4
  <2>2. QED BY <2>1, <1>14, Dropped
<1> HIDE DEF L1, own1
<1>16. M \in [SlotIds -> Seq(Nodes)] /\ Table(entry', link', ownEntry', M)
  <2> HIDE DEF M
  <2>1. /\ M \in [SlotIds -> Seq(Nodes)]
        /\ Table(InsEntry(DelEntry(s, n), t, n), InsLink(DelEntry(s, n), DelLink(n), t, n),
                 [own1 EXCEPT ![n] = t], M)
    BY <1>11, <1>12, Inserted DEF M
  <2>2. QED BY <2>1, <1>10, <1>13
<1>17. IsList(L1[t]) /\ ~InList(L1[t], n)
  BY <1>11, <1>12, NullApart DEF Table, Chain
<1>18. \A u \in SlotIds :
         /\ \A m : InList(L1[u], m) => InList(M[u], m)
         /\ \A a, b : Before(L1[u], a, b) => Before(M[u], a, b)
  BY <1>11, <1>17, Appended
<1> HIDE DEF M
<1>19. Coming' # NULL => InList(M[s], Coming')
  BY <1>6, <1>9, <1>15, <1>18
<1>20. ASSUME NEW m \in Nodes, tmr'[m].used
       PROVE  /\ ownEntry'[m] = SlotOf(tmr'[m].expTick)
              /\ tmr'[m].resetFlg => tmr'[m].updateTick > 0
              /\ \/ tmr'[m].expTick > cur
                 \/ tmr'[m].expTick = cur /\ Coming' # NULL /\ Before(M[s], Coming', m)
  <2>1. CASE m = n
    <3>1. tmr[n].expTick \in Nat /\ tmr[n].updateTick \in Nat /\ cur \in Nat
      BY TableTypes
    <3>2. tmr[n].updateTick > 0 /\ tmr[n].expTick >= cur
      BY <1>2, <1>3, <1>7, <3>1 DEF Wheel, Ahead
    <3>3. tmr'[n].expTick > cur
      BY <1>7, <3>1, <3>2
    <3>4. QED BY <1>7, <2>1, <3>3
  <2>2. CASE m # n
    BY <2>2, <1>6, <1>7, <1>9, <1>15, <1>18, <1>20
  <2>3. QED BY <2>1, <2>2
<1>21. Ahead(M)'
  BY <1>1, <1>4, <1>19, <1>20 DEF Ahead
<1>22. Wheel(M)'
  BY <1>16, <1>21 DEF Wheel
<1>23. QED BY <1>16, <1>22

LEMMA TickWheel ==
  ASSUME Typed, NEW L \in [SlotIds -> Seq(Nodes)], Wheel(L), NextTick
  PROVE  Wheel(L)'
<1>1. /\ pc = "tick" /\ cur' = cur + 1 /\ node' = entry[SlotOf(cur + 1)].first
      /\ pc' = (IF node' = NULL THEN "tick" ELSE "node")
      /\ UNCHANGED <<entry, tmr, link, ownEntry>>
  BY DEF NextTick, table
<1>2. Coming = NULL /\ Coming' = node' /\ cur \in Nat /\ cur + 1 \in Nat
  BY <1>1, ComingIs, TableTypes
<1>3. PICK s \in SlotIds : s = SlotOf(cur + 1)
  BY <1>2, SlotType
<1>4. /\ node' = NodeAt(L[s], 1) /\ IsList(L[s])
      /\ \A n \in Nodes : InList(L[s], n) <=> ownEntry[n] = s
  BY <1>1, <1>3, TableFacts DEF Wheel, Chain
<1>5. Len(L[s]) \in Nat /\ \A i \in 1 .. Len(L[s]) : L[s][i] \in Nodes
  BY <1>4 DEF IsList
<1>6. ASSUME NEW n \in Nodes, InList(L[s], n) PROVE node' # NULL /\ Before(L[s], node', n)
  <2>1. PICK i \in 1 .. Len(L[s]) : L[s][i] = n
    BY <1>6 DEF InList
  <2>2. 1 \in 1 .. Len(L[s]) /\ 1 <= i
    BY <1>5
  <2>3. QED BY <2>1, <2>2, <1>4, <1>5, NullApart DEF NodeAt, Before
<1>7. node' # NULL => InList(L[s], node')
  BY <1>4 DEF NodeAt, InList
<1>8. ASSUME NEW n \in Nodes, tmr[n].used
      PROVE  /\ ownEntry[n] = SlotOf(tmr[n].expTick)
             /\ tmr[n].resetFlg => tmr[n].updateTick > 0
             /\ \/ tmr[n].expTick > cur + 1
                \/ tmr[n].expTick = cur + 1 /\ node' # NULL /\ Before(L[s], node', n)
  <2>1. /\ ownEntry[n] = SlotOf(tmr[n].expTick)
        /\ tmr[n].resetFlg => tmr[n].updateTick > 0
        /\ tmr[n].expTick > cur
    BY <1>2, <1>8 DEF Wheel, Ahead
  <2>2. tmr[n].expTick \in Nat
    BY TableTypes
  <2>3. CASE tmr[n].expTick = cur + 1
    BY <2>1, <2>3, <1>3, <1>4, <1>6
  <2>4. QED BY <2>1, <2>2, <2>3, <1>2
<1>9. Ahead(L)'
  BY <1>1, <1>2, <1>3, <1>7, <1>8 DEF Ahead
<1>10. Table(entry', link', ownEntry', L)
  BY <1>1 DEF Wheel
<1>11. QED BY <1>9, <1>10 DEF Wheel

LEMMA SameWheel ==
  ASSUME NEW L, Wheel(L), UNCHANGED table, cur' = cur, Coming' = Coming
  PROVE  Wheel(L)'
BY DEF Wheel, Ahead, table

LEMMA WheelStep ==
  ASSUME Typed, NEW L \in [SlotIds -> Seq(Nodes)], Wheel(L), [Next]_vars, ~cut'
  PROVE  \E M \in [SlotIds -> Seq(Nodes)] : Wheel(M)'
<1>1. CASE MainCall
  BY <1>1, CallWheel DEF MainCall, handler
<1>2. CASE ExecTmrTick
  <2>1. UNCHANGED table /\ cur' = cur /\ Coming' = Coming
    BY <1>2, ComingIs DEF ExecTmrTick, handler
  <2>2. QED BY <2>1, SameWheel
<1>3. CASE HandlerCall
  <2>1. UNCHANGED table /\ cur' = cur /\ Coming' = Coming
    BY <1>3, ComingIs, TypedIs DEF HandlerCall
  <2>2. QED BY <2>1, SameWheel
<1>4. CASE NextTick
  BY <1>4, TickWheel
<1>5. CASE HandlerReturn
  <2>1. UNCHANGED table /\ cur' = cur /\ Coming' = Coming
    BY <1>5, ComingIs DEF HandlerReturn
  <2>2. QED BY <2>1, SameWheel
<1>6. CASE VisitReset
  BY <1>6, ResetWheel
<1>7. CASE VisitFire
  BY <1>7, FireWheel
<1>8. CASE VisitPass
  BY <1>8, PassWheel
<1>9. CASE CallbackReturn
  <2>1. UNCHANGED table /\ cur' = cur /\ Coming' = Coming
    BY <1>9, ComingIs DEF CallbackReturn, GoOn
  <2>2. QED BY <2>1, SameWheel
<1>10. CASE CallbackCall
  BY <1>10, CallWheel DEF CallbackCall
<1>11. CASE UNCHANGED vars
  <2>1. UNCHANGED table /\ cur' = cur /\ Coming' = Coming
    BY <1>11, ComingIs DEF vars, handler, Coming
  <2>2. QED BY <2>1, SameWheel
<1>12. QED
  BY <1>1, <1>2, <1>3, <1>4, <1>5, <1>6, <1>7, <1>8, <1>9, <1>10, <1>11 DEF Next, HandlerStep

-----------------------------------------------------------------------------
(* The inductive invariant *)

LEMMA CutStays ==
  ASSUME cut \in BOOLEAN, [Next]_vars PROVE ~cut' => ~cut
BY DEF Next, HandlerStep, MainCall, CallbackCall, Call, StartTm, RestartTm, CancelTm, ExecTmrTick,
   HandlerCall, NextTick, HandlerReturn, VisitReset, VisitFire, VisitPass, Execute, CallbackReturn, vars

LEMMA WheelInit == Init => WheelInv
<1> SUFFICES ASSUME Init PROVE WheelInv
  OBVIOUS
<1>1. noTimer \in Timers /\ ~noTimer.used /\ noTimer.updateTick = 0 /\ ~noTimer.resetFlg
  BY TimerTypes
<1>2. /\ entry \in [SlotIds -> Ends] /\ link \in [Nodes -> Links]
      /\ tmr \in [Nodes -> Timers] /\ ownEntry \in [Nodes -> SlotIds \cup {NULL}]
  BY <1>1 DEF Init, Ends, Links, noLink
<1>3. \A n \in Nodes : tmr[n] = noTimer /\ ownEntry[n] = NULL
  BY DEF Init
<1>4. TableTyped
  BY <1>1, <1>2, <1>3 DEF TableTyped
<1>5. Typed
  <2>1. MaxTick \in Nat /\ MaxCalls \in Nat
    BY WheelAssumption
  <2>2. /\ tick = 0 /\ prevTick = 0 /\ cur = 0 /\ calls = 0 /\ pc = "idle" /\ cut = FALSE
        /\ node = NULL /\ tmpNode = NULL
    BY DEF Init
  <2>3. /\ tick \in 0 .. MaxTick /\ prevTick \in 0 .. tick /\ cur \in prevTick .. tick
        /\ calls \in 0 .. MaxCalls
    BY <2>1, <2>2
  <2>4. QED BY <1>4, <2>2, <2>3, TypedIs
<1> DEFINE q == << >>
           M == [s \in SlotIds |-> q]
<1>6. q \in Seq(Nodes) /\ Len(q) = 0
  OBVIOUS
<1> HIDE DEF q
<1>7. IsList(q) /\ NodeAt(q, 1) = NULL /\ NodeAt(q, 0) = NULL /\ \A n : ~InList(q, n)
  BY <1>6 DEF IsList, NodeAt, InList
<1>8. \A s \in SlotIds : entry[s].first = NULL /\ entry[s].tail = NULL
  BY DEF Init
<1>9. \A s \in SlotIds : Chain(entry[s], link, q)
  BY <1>6, <1>7, <1>8 DEF Chain
<1>10. M \in [SlotIds -> Seq(Nodes)] /\ \A s \in SlotIds : M[s] = q
  BY <1>6
<1> HIDE DEF M
<1>11. Table(entry, link, ownEntry, M)
  BY <1>3, <1>7, <1>9, <1>10, NullApart DEF Table
<1>12. Coming = NULL
  BY ComingIs DEF Init
<1>13. Ahead(M)
  BY <1>1, <1>3, <1>12 DEF Ahead
<1>14. QED BY <1>5, <1>10, <1>11, <1>13 DEF WheelInv

LEMMA WheelNext == WheelInv /\ [Next]_vars => WheelInv'
<1> SUFFICES ASSUME WheelInv, [Next]_vars PROVE WheelInv'
  OBVIOUS
<1>1. Typed /\ cut \in BOOLEAN
  BY TypedIs DEF WheelInv
<1>2. Typed'
  BY <1>1, TypedStep
<1>3. ASSUME ~cut' PROVE \E M \in [SlotIds -> Seq(Nodes)] : Wheel(M)'
  <2>1. ~cut
    BY <1>1, <1>3, CutStays
  <2>2. PICK L \in [SlotIds -> Seq(Nodes)] : Wheel(L)
    BY <2>1 DEF WheelInv, Wheel
  <2>3. QED BY <1>1, <1>3, <2>2, WheelStep
<1>4. QED BY <1>2, <1>3 DEF WheelInv, Wheel

(* As long as no callback cancelled the node saved by the walk, the slots  *)
(* are lists of the nodes in use, each in the slot of its expiry, and      *)
(* whatever expires at the tick walked is still ahead of the walk.         *)
THEOREM WheelInductive == Spec => []WheelInv
BY WheelInit, WheelNext, PTL DEF Spec

-----------------------------------------------------------------------------
(* What it is for *)

(* A set of numbers that is not empty has a least one. *)
LEMMA LeastNumber ==
  ASSUME NEW S, S \subseteq Nat, S # {}
  PROVE  \E i \in S : \A j \in S : i <= j
<1> DEFINE R == OpToRel(<, Nat)
<1>1. IsWellFoundedOn(R, Nat)
  BY NatLessThanWellFounded
<1>2. \A i, j \in Nat : <<i, j>> \in R <=> i < j
  BY DEF OpToRel
<1> HIDE DEF R
<1>3. PICK i \in S : \A j \in S : ~(<<j, i>> \in R)
  BY <1>1, WFMin
<1>4. ASSUME NEW j \in S PROVE i <= j
  <2>1. i \in Nat /\ j \in Nat /\ ~(<<j, i>> \in R)
    BY <1>3
  <2>2. ~(j < i)
    BY <2>1, <1>2
  <2>3. QED BY <2>1, <2>2
<1>5. QED BY <1>4

(* Following next meets the places of the list and ends. *)
LEMMA WalkIs ==
  ASSUME NEW s \in SlotIds, NEW q, Chain(entry[s], link, q)
  PROVE  \A i \in Nat : Walk(s)[i] = NodeAt(q, i + 1)
<1> DEFINE F(g) == [i \in Nat |-> IF i = 0 THEN entry[s].first
                                  ELSE IF g[i-1] = NULL THEN NULL ELSE link[g[i-1]].next]
           f == [i \in Nat |-> NodeAt(q, i + 1)]
           w == Walk(s)
<1>1. q \in Seq(Nodes) /\ Len(q) \in Nat /\ \A i \in 1 .. Len(q) : q[i] \in Nodes
  BY ChainFacts
<1>2. /\ entry[s].first = NodeAt(q, 1)
      /\ \A i \in 1 .. Len(q) : link[q[i]].next = NodeAt(q, i + 1)
  BY DEF Chain
<1>3. \A i \in Nat \ {0} : NodeAt(q, i + 1) = IF NodeAt(q, i) = NULL THEN NULL ELSE link[NodeAt(q, i)].next
  <2> TAKE i \in Nat \ {0}
  <2>1. CASE i \in 1 .. Len(q)
    BY <2>1, <1>1, <1>2, NullApart DEF NodeAt
  <2>2. CASE ~(i \in 1 .. Len(q))
    BY <2>2, <1>1 DEF NodeAt
  <2>3. QED BY <2>1, <2>2
<1>4. f = F(f)
  <2>1. ASSUME NEW i \in Nat
        PROVE  NodeAt(q, i + 1) = IF i = 0 THEN entry[s].first
                                  ELSE IF f[i-1] = NULL THEN NULL ELSE link[f[i-1]].next
    <3>1. CASE i = 0
      BY <3>1, <1>2
    <3>2. CASE i # 0
      <4>1. f[i-1] = NodeAt(q, i)
        BY <3>2
      <4>2. QED BY <3>2, <4>1, <1>3
    <3>3. QED BY <3>1, <3>2
  <2>2. QED BY <2>1
<1>5. w = CHOOSE walk : walk = F(walk)
  BY DEF Walk
<1> HIDE DEF w
<1>6. w = F(w)
  <2> HIDE DEF f, F
  <2>1. QED BY <1>4, <1>5
<1>7. \A i \in Nat : w[i] = IF i = 0 THEN entry[s].first
                            ELSE IF w[i-1] = NULL THEN NULL ELSE link[w[i-1]].next
  BY <1>6
<1> DEFINE S == {i \in Nat : w[i] # NodeAt(q, i + 1)}
<1>8. S = {}
  <2> SUFFICES ASSUME S # {} PROVE FALSE
    OBVIOUS
  <2>1. PICK i \in S : \A j \in S : i <= j
    BY LeastNumber
  <2>2. CASE i = 0
    BY <2>1, <2>2, <1>2, <1>7
  <2>3. CASE i # 0
    <3>1. i - 1 \in Nat /\ i \in Nat \ {0}
      BY <2>1, <2>3
    <3>2. i - 1 \notin S
      BY <2>1, <3>1
    <3>3. w[i - 1] = NodeAt(q, i)
      BY <3>1, <3>2
    <3>4. w[i] = NodeAt(q, i + 1)
      BY <3>1, <3>3, <1>3, <1>7
    <3>5. QED BY <2>1, <3>4
  <2>4. QED BY <2>2, <2>3
<1>9. QED BY <1>8 DEF w

LEMMA ListSize ==
  ASSUME NEW q, IsList(q), NEW S, \A n \in Nodes : n \in S <=> InList(q, n), S \subseteq Nodes
  PROVE  Cardinality(S) = Len(q)
<1> DEFINE f == [i \in 1 .. Len(q) |-> q[i]]
<1>1. /\ Len(q) \in Nat /\ \A i \in 1 .. Len(q) : q[i] \in Nodes
      /\ \A i, j \in 1 .. Len(q) : q[i] = q[j] => i = j
  BY DEF IsList
<1>2. f \in [1 .. Len(q) -> S]
  BY <1>1 DEF InList
<1>3. \A t \in S : \E i \in 1 .. Len(q) : f[i] = t
  BY DEF InList
<1>4. f \in Bijection(1 .. Len(q), S)
  BY <1>1, <1>2, <1>3 DEF Bijection, Injection, Surjection, IsInjective
<1>5. QED BY <1>1, <1>4, FS_CountingElements DEF ExistsBijection

LEMMA InvExact == WheelInv => WheelExact
<1> SUFFICES ASSUME WheelInv PROVE WheelExact
  OBVIOUS
<1>1. Typed /\ TypeOK
  BY DEF WheelInv, Typed
<1>2. SlotsWellLinked
  <2> SUFFICES ASSUME ~cut, NEW s \in SlotIds
               PROVE  LET walk == Walk(s)
                          size == Cardinality(Members(s))
                      IN /\ {walk[i] : i \in 0 .. size - 1} = Members(s)
                         /\ walk[size] = NULL
                         /\ entry[s].tail = IF size = 0 THEN NULL ELSE walk[size - 1]
                         /\ \A i \in 0 .. size - 1 :
                              /\ link[walk[i]].prev = IF i = 0 THEN NULL ELSE walk[i - 1]
                              /\ SlotOf(tmr[walk[i]].expTick) = s
    BY DEF SlotsWellLinked
  <2>1. PICK L \in [SlotIds -> Seq(Nodes)] : Wheel(L)
    BY DEF WheelInv, Wheel
  <2> DEFINE q == L[s]
             z == Len(q)
             walk == Walk(s)
  <2>2. /\ Chain(entry[s], link, q) /\ IsList(q)
        /\ \A n \in Nodes : InList(q, n) <=> ownEntry[n] = s
    BY <2>1, TableFacts DEF Wheel
  <2>3. z \in Nat /\ \A i \in 1 .. z : q[i] \in Nodes
    BY <2>2 DEF IsList
  <2>4. \A n \in Nodes : n \in Members(s) <=> InList(q, n)
    BY <1>1, <2>2, TableTypes, NullApart DEF Members
  <2>5. Cardinality(Members(s)) = z
    BY <2>2, <2>4, ListSize DEF Members
  <2>6. \A i \in Nat : walk[i] = NodeAt(q, i + 1)
    BY <2>2, WalkIs
  <2> HIDE DEF walk, q
  <2>7. \A i \in 0 .. z - 1 : walk[i] = q[i + 1] /\ i + 1 \in 1 .. z
    BY <2>3, <2>6 DEF NodeAt
  <2>8. {walk[i] : i \in 0 .. z - 1} = Members(s)
    <3>1. ASSUME NEW i \in 0 .. z - 1 PROVE walk[i] \in Members(s)
      BY <3>1, <2>3, <2>4, <2>7 DEF InList
    <3>2. ASSUME NEW n \in Members(s) PROVE \E i \in 0 .. z - 1 : walk[i] = n
      <4>1. PICK k \in 1 .. z : q[k] = n
        BY <2>4 DEF InList, Members
      <4>2. k - 1 \in 0 .. z - 1 /\ (k - 1) + 1 = k
        BY <2>3
      <4>3. QED BY <4>1, <4>2, <2>7
    <3>3. QED BY <3>1, <3>2
  <2>9. walk[z] = NULL
    BY <2>3, <2>6 DEF NodeAt
  <2>10. entry[s].tail = IF z = 0 THEN NULL ELSE walk[z - 1]
    <3>1. entry[s].tail = NodeAt(q, z)
      BY <2>2 DEF Chain
    <3>2. QED BY <3>1, <2>3, <2>7 DEF NodeAt
  <2>11. ASSUME NEW i \in 0 .. z - 1
         PROVE  /\ link[walk[i]].prev = IF i = 0 THEN NULL ELSE walk[i - 1]
                /\ SlotOf(tmr[walk[i]].expTick) = s
    <3>1. walk[i] = q[i + 1] /\ i + 1 \in 1 .. z /\ (i + 1) - 1 = i
      BY <2>7
    <3>2. link[walk[i]].prev = NodeAt(q, i)
      <4>1. link[q[i + 1]].prev = NodeAt(q, (i + 1) - 1)
        BY <3>1, <2>2 DEF Chain
      <4>2. QED BY <3>1, <4>1
    <3>3. NodeAt(q, i) = IF i = 0 THEN NULL ELSE walk[i - 1]
      <4>1. CASE i = 0
        BY <4>1 DEF NodeAt
      <4>2. CASE i # 0
        <5>1. i - 1 \in 0 .. z - 1 /\ (i - 1) + 1 = i /\ i \in 1 .. z
          BY <4>2, <2>3
        <5>2. QED BY <4>2, <5>1, <2>7 DEF NodeAt
      <4>3. QED BY <4>1, <4>2
    <3>4. walk[i] \in Members(s)
      BY <2>8
    <3>5. walk[i] \in Nodes /\ tmr[walk[i]].used /\ ownEntry[walk[i]] = s
      BY <3>4 DEF Members
    <3>6. SlotOf(tmr[walk[i]].expTick) = s
      BY <3>5, <2>1 DEF Wheel, Ahead
    <3>7. QED BY <3>2, <3>3, <3>6
  <2>12. QED BY <2>5, <2>8, <2>9, <2>10, <2>11 DEF walk
<1>3. NoneOverdue
  <2> SUFFICES ASSUME pc = "idle", ~cut, NEW n \in Nodes, tmr[n].used
               PROVE  Due(n) > prevTick
    BY DEF NoneOverdue
  <2>1. PICK L \in [SlotIds -> Seq(Nodes)] : Wheel(L)
    BY DEF WheelInv, Wheel
  <2>2. Coming = NULL /\ cur = prevTick
    BY <1>1, ComingIs DEF Typed
  <2>3. tmr[n].expTick > cur
    BY <2>1, <2>2 DEF Wheel, Ahead
  <2>4. tmr[n].expTick \in Nat /\ tmr[n].updateTick \in Nat /\ cur \in Nat
    BY <1>1, TableTypes
  <2>5. QED BY <2>2, <2>3, <2>4 DEF Due
<1>4. QED BY <1>1, <1>2, <1>3 DEF WheelExact

(* Until a callback cancels the node the walk saved, every slot is a       *)
(* doubly linked list of exactly the nodes in use that expire there, and   *)
(* between two runs of the handler no timer is overdue.                    *)
THEOREM WheelStaysExact == Spec => []WheelExact
BY WheelInductive, InvExact, PTL

-----------------------------------------------------------------------------
(* Refinement of the timer service *)

DueMap == [n \in Nodes |-> IF tmr[n].used THEN Due(n) ELSE -1]
FiringMap == IF pc = "callback" THEN node ELSE NULL

LEMMA FiringIs ==
  /\ pc = "callback" => FiringMap = node
  /\ pc # "callback" => FiringMap = NULL
  /\ pc' = "callback" => FiringMap' = node'
  /\ pc' # "callback" => FiringMap' = NULL
BY DEF FiringMap

DueExact ==
  \A n \in Nodes :
    /\ tmr[n].used => DueMap[n] = tmr[n].expTick + tmr[n].updateTick /\ DueMap[n] \in Nat
    /\ ~tmr[n].used => DueMap[n] = -1

LEMMA DueIs == Typed => DueExact
BY TableTypes DEF DueMap, Due, DueExact

LEMMA DueNext == Typed' => DueExact'
BY DueIs, PTL

(* Nothing in use is due before the tick the walk is at. *)
LEMMA DueAhead ==
  ASSUME Typed, NEW L \in [SlotIds -> Seq(Nodes)], Wheel(L)
  PROVE  /\ \A n \in Nodes : tmr[n].used => DueMap[n] >= cur
         /\ Coming = NULL => \A n \in Nodes : DueMap[n] # cur
<1>1. /\ cur \in Nat
      /\ \A n \in Nodes :
           /\ tmr[n].used => /\ DueMap[n] = tmr[n].expTick + tmr[n].updateTick
                             /\ tmr[n].expTick \in Nat /\ tmr[n].updateTick \in Nat
           /\ ~tmr[n].used => DueMap[n] = -1
           /\ tmr[n].used \in BOOLEAN
  BY DueIs, TableTypes DEF DueExact
<1>2. \A n \in Nodes : tmr[n].used =>
        /\ tmr[n].expTick > cur \/ tmr[n].expTick = cur
        /\ Coming = NULL => tmr[n].expTick > cur
  BY DEF Wheel, Ahead
<1>3. QED BY <1>1, <1>2

(* What a step does to one timer it does to the due tick. *)
LEMMA DueOne ==
  ASSUME NEW n \in Nodes, \A m \in Nodes : m # n => tmr'[m] = tmr[m]
  PROVE  DueMap' = [DueMap EXCEPT ![n] = DueMap'[n]]
BY DEF DueMap, Due

LEMMA DueSame ==
  ASSUME tmr' = tmr
  PROVE  DueMap' = DueMap
BY DEF DueMap, Due

(* The steps of the service on the mapped state. *)
LEMMA ServiceSteps ==
  /\ ~cut /\ UNCHANGED <<cur, FiringMap, cut>>
       /\ (\E n \in Nodes : DueMap'[n] > cur /\ DueMap' = [DueMap EXCEPT ![n] = DueMap'[n]])
     => Service!Next
  /\ ~cut /\ UNCHANGED <<cur, FiringMap, cut>>
       /\ (\E n \in Nodes : DueMap[n] # -1 /\ DueMap' = [DueMap EXCEPT ![n] = -1])
     => Service!Next
  /\ ~cut /\ UNCHANGED <<cur, cut>> /\ FiringMap = NULL
       /\ (\E n \in Nodes : DueMap[n] = cur /\ DueMap' = [DueMap EXCEPT ![n] = -1] /\ FiringMap' = n)
     => Service!Next
  /\ ~cut /\ UNCHANGED <<cur, DueMap, cut>> /\ FiringMap # NULL /\ FiringMap' = NULL
     => Service!Next
  /\ ~cut /\ UNCHANGED <<DueMap, FiringMap, cut>> /\ FiringMap = NULL
       /\ (\A n \in Nodes : DueMap[n] # cur) /\ cur' = cur + 1
     => Service!Next
  /\ ~cut /\ cut' => Service!Next
  /\ cut /\ cut' => Service!Next
  /\ UNCHANGED <<cur, DueMap, FiringMap, cut>> => UNCHANGED Service!vars
BY DEF Service!Next, Service!Set, Service!Cancel, Service!Fire, Service!Fired, Service!Advance,
   Service!Break, Service!Broken, Service!Unset, Service!vars, DueMap, FiringMap

LEMMA CallServes ==
  ASSUME Typed, Typed', NEW L \in [SlotIds -> Seq(Nodes)], Wheel(L), Call, ~cut, ~cut',
         UNCHANGED <<cur, pc, node>>
  PROVE  Service!Next
<1>1. TableTyped /\ tick \in Nat /\ cur \in Nat /\ cur <= tick
  BY TypedIs, TableTypes
<1>2. cut' = cut /\ UNCHANGED <<cur, FiringMap, cut>>
  <2>1. cut \in BOOLEAN /\ cut' \in BOOLEAN
    BY DEF Typed, TypeOK
  <2>2. QED BY <2>1 DEF FiringMap
<1>3. PICK n \in Nodes : CancelTm(n) \/ \E expTm \in 1 .. MaxExpTm : StartTm(n, expTm) \/ RestartTm(n, expTm)
  BY DEF Call
<1>4. DueExact /\ DueExact'
  BY DueIs, DueNext
<1>5. CASE CancelTm(n)
  <2>1. tmr[n].used /\ ~tmr'[n].used /\ \A m \in Nodes : m # n => tmr'[m] = tmr[m]
    BY <1>1, <1>5, CancelIs
  <2>2. DueMap[n] # -1
    BY <1>4, <2>1 DEF DueExact
  <2>3. DueMap'[n] = -1
    BY <1>4, <2>1 DEF DueExact
  <2>4. DueMap' = [DueMap EXCEPT ![n] = -1]
    BY <2>1, <2>3, DueOne
  <2>5. QED BY <1>2, <2>2, <2>4, ServiceSteps
<1>6. ASSUME NEW expTm \in 1 .. MaxExpTm, StartTm(n, expTm) PROVE Service!Next
  <2>1. /\ tick + expTm \in Nat /\ tick + expTm > tick
        /\ tmr'[n].used /\ tmr'[n].expTick = tick + expTm /\ tmr'[n].updateTick = 0
        /\ \A m \in Nodes : m # n => tmr'[m] = tmr[m]
    BY <1>1, <1>6, StartIs
  <2>2. DueMap'[n] > cur
    BY <1>1, <1>4, <2>1 DEF DueExact
  <2>3. DueMap' = [DueMap EXCEPT ![n] = DueMap'[n]]
    BY <2>1, DueOne
  <2>4. QED BY <1>2, <2>2, <2>3, ServiceSteps
<1>7. ASSUME NEW expTm \in 1 .. MaxExpTm, RestartTm(n, expTm) PROVE Service!Next
  <2>1. /\ tmr[n].used /\ tmr'[n].used /\ tmr'[n].expTick = tmr[n].expTick
        /\ tmr'[n].updateTick = tmr[n].updateTick + expTm
        /\ \A m \in Nodes : m # n => tmr'[m] = tmr[m]
    BY <1>1, <1>7, RestartIs
  <2>2. DueMap[n] >= cur /\ DueMap[n] = tmr[n].expTick + tmr[n].updateTick
    BY <1>4, <2>1, DueAhead DEF DueExact
  <2>3. expTm \in Nat /\ expTm > 0 /\ tmr[n].expTick \in Nat /\ tmr[n].updateTick \in Nat
    BY WheelAssumption, TableTypes
  <2>4. DueMap'[n] > cur
    BY <1>1, <1>4, <2>1, <2>2, <2>3 DEF DueExact
  <2>5. DueMap' = [DueMap EXCEPT ![n] = DueMap'[n]]
    BY <2>1, DueOne
  <2>6. QED BY <1>2, <2>4, <2>5, ServiceSteps
<1>8. QED BY <1>3, <1>5, <1>6, <1>7

LEMMA VisitServes ==
  ASSUME Typed, Typed', NEW L \in [SlotIds -> Seq(Nodes)], Wheel(L),
         VisitReset \/ VisitFire \/ VisitPass, ~cut
  PROVE  Service!Next \/ UNCHANGED Service!vars
<1>1. /\ TableTyped /\ cur \in Nat /\ pc = "node" /\ node \in Nodes /\ tmr[node].used
      /\ FiringMap = NULL
  BY TypedIs, TableTypes, VisitedIs, FiringIs DEF VisitReset, VisitFire, VisitPass
<1>2. UNCHANGED <<cur, cut>>
  BY DEF VisitReset, VisitFire, VisitPass, Execute, GoOn
<1>3. PICK n \in Nodes : n = node
  BY <1>1
<1>4. DueExact /\ DueExact'
  BY DueIs, DueNext
<1>5. CASE VisitReset
  <2>1. /\ tmr'[n].used
        /\ tmr'[n].expTick = tmr[n].expTick + tmr[n].updateTick /\ tmr'[n].updateTick = 0
        /\ tmr[n].expTick + tmr[n].updateTick \in Nat
        /\ \A m \in Nodes : m # n => tmr'[m] = tmr[m]
    BY <1>1, <1>3, <1>5, VisitResetIs
  <2>2. DueMap'[n] = DueMap[n]
    BY <1>1, <1>3, <1>4, <2>1 DEF DueExact
  <2>3. DueMap' = DueMap
    <3>1. DueMap' = [DueMap EXCEPT ![n] = DueMap[n]]
      BY <2>1, <2>2, DueOne
    <3>2. QED BY <3>1 DEF DueMap
  <2>4. FiringMap' = NULL
    BY <1>5, FiringIs DEF VisitReset, GoOn
  <2>5. QED BY <1>1, <1>2, <2>3, <2>4, ServiceSteps
<1>6. CASE VisitFire
  <2>1. /\ ~tmr[n].resetFlg /\ tmr[n].expTick = cur
        /\ pc' = "callback" /\ node' = node
    BY <1>3, <1>6 DEF VisitFire, Execute
  <2>2. ~tmr'[n].used /\ \A m \in Nodes : m # n => tmr'[m] = tmr[m]
    BY <1>1, <1>3, <1>6, ExecuteIs DEF VisitFire
  <2>3. DueMap[n] = cur
    <3>1. tmr[n].updateTick = 0
      BY <2>1 DEF Typed
    <3>2. QED BY <1>1, <1>3, <1>4, <2>1, <3>1 DEF DueExact
  <2>4. DueMap'[n] = -1
    BY <1>4, <2>2 DEF DueExact
  <2>5. DueMap' = [DueMap EXCEPT ![n] = -1]
    BY <2>2, <2>4, DueOne
  <2>6. FiringMap' = n
    BY <1>3, <2>1, FiringIs
  <2>7. QED BY <1>1, <1>2, <2>3, <2>5, <2>6, ServiceSteps
<1>7. CASE VisitPass
  <2>1. DueMap' = DueMap
    BY <1>7, DueSame DEF VisitPass, table
  <2>2. FiringMap' = NULL
    BY <1>7, FiringIs DEF VisitPass, GoOn
  <2>3. QED BY <1>1, <1>2, <2>1, <2>2, ServiceSteps
<1>8. QED BY <1>5, <1>6, <1>7

LEMMA StepServes ==
  ASSUME WheelInv, WheelInv', [Next]_vars
  PROVE  Service!Next \/ UNCHANGED Service!vars
<1>1. Typed /\ Typed' /\ cut \in BOOLEAN /\ cut' \in BOOLEAN
  BY TypedIs DEF WheelInv, Typed, TypeOK
<1>2. CASE cut'
  BY <1>1, <1>2, ServiceSteps
<1>3. CASE ~cut'
  <2>1. ~cut
    BY <1>1, <1>3, CutStays
  <2>2. PICK L \in [SlotIds -> Seq(Nodes)] : Wheel(L)
    BY <2>1 DEF WheelInv, Wheel
  <2>3. cut' = cut
    BY <1>1, <1>3, <2>1
  <2>4. CASE MainCall \/ CallbackCall
    <3>1. Call /\ UNCHANGED <<cur, pc, node>>
      BY <2>4 DEF MainCall, CallbackCall, handler
    <3>2. QED BY <1>1, <1>3, <2>1, <2>2, <3>1, CallServes
  <2>5. CASE ExecTmrTick \/ HandlerCall \/ HandlerReturn \/ UNCHANGED vars
    <3>1. tmr' = tmr
      BY <2>5 DEF ExecTmrTick, HandlerCall, HandlerReturn, vars, table
    <3>2. cur' = cur
      BY <1>1, <2>5 DEF ExecTmrTick, HandlerCall, HandlerReturn, vars, handler, Typed
    <3>3. FiringMap' = FiringMap
      BY <2>5 DEF ExecTmrTick, HandlerCall, HandlerReturn, vars, handler, FiringMap
    <3>4. QED BY <2>3, <3>1, <3>2, <3>3, DueSame, ServiceSteps
  <2>6. CASE NextTick
    <3>1. pc = "tick" /\ pc' \in {"tick", "node"} /\ cur' = cur + 1 /\ tmr' = tmr
      BY <2>6 DEF NextTick, table
    <3>2. FiringMap = NULL /\ FiringMap' = NULL /\ Coming = NULL /\ DueMap' = DueMap
      BY <3>1, FiringIs, ComingIs, DueSame
    <3>3. \A n \in Nodes : DueMap[n] # cur
      BY <1>1, <2>2, <3>2, DueAhead
    <3>4. QED BY <2>1, <2>3, <3>1, <3>2, <3>3, ServiceSteps
  <2>7. CASE VisitReset \/ VisitFire \/ VisitPass
    BY <1>1, <2>1, <2>2, <2>7, VisitServes
  <2>8. CASE CallbackReturn
    <3>1. pc = "callback" /\ pc' \in {"tick", "node"} /\ cur' = cur /\ tmr' = tmr /\ node # NULL
      BY <1>1, <2>8 DEF CallbackReturn, GoOn, table, Typed
    <3>2. FiringMap = node /\ FiringMap' = NULL /\ DueMap' = DueMap
      BY <3>1, FiringIs, DueSame
    <3>3. QED BY <2>1, <2>3, <3>1, <3>2, ServiceSteps
  <2>9. QED BY <2>4, <2>5, <2>6, <2>7, <2>8 DEF Next, HandlerStep
<1>4. QED BY <1>2, <1>3

LEMMA ServiceInit == Init => Service!Init
<1> SUFFICES ASSUME Init PROVE Service!Init
  OBVIOUS
<1>1. \A n \in Nodes : tmr[n] = noTimer /\ ~tmr[n].used
  BY TimerTypes DEF Init
<1>2. QED BY <1>1 DEF Init, Service!Init, Service!Unset

(* The wheel is a timer service: a timer fires once, at the tick it was    *)
(* last set for and at no other, and no tick is left before every timer    *)
(* due at it has fired -- until a callback cancels the node the walk       *)
(* saved.                                                                  *)
THEOREM ServiceImplemented == Spec => ImplementsService
<1>1. WheelInv /\ WheelInv' /\ [Next]_vars => [Service!Next]_(Service!vars)
  BY StepServes
<1>2. QED BY <1>1, ServiceInit, WheelInductive, PTL DEF Spec, Service!Spec, ImplementsService
=============================================================================
