--------------------------- MODULE RlyHostProof ---------------------------
(***************************************************************************)
(* Theorems about RlyHost, for any host names, keys, threads, programs and *)
(* bounds.                                                                 *)
(*                                                                         *)
(* A host is with one thread or in the loop list, so a thread that frees   *)
(* one frees what no other thread has; making and freeing change the list, *)
(* the id table and the names together, so the ids kept for later stand    *)
(* for hosts, but for one: a send that found no host resets lastSndHostId  *)
(* when it has the mutex no more.  A send to any starts one place after    *)
(* the start of the one before: what a host was passed over by since such  *)
(* a reset and its distance from the next start never add up to the number *)
(* of hosts.                                                               *)
(***************************************************************************)
EXTENDS RlyHost, SequenceTheorems, FiniteSetTheorems, WellFoundedInduction, TLAPS

Live == {c \in Cbs : hostCb[c].live}

CbRec == [made : BOOLEAN, live : BOOLEAN, host : Names \cup {None}, id : Slots,
          key : Keys \cup {None}, dst : {None, "closed", "open"}, acc : Nat, open : Nat,
          enb : BOOLEAN, freeTmFlg : BOOLEAN, freeTm : Nat, dstry : BOOLEAN, ctrl : Nat,
          asked : BOOLEAN, snd : Nat, rcv : Nat]

ProcRec == [pc : {"idle", "lock", "relock", "reset", "wait", "pop", "serve", "put", "exit"},
            op : {None, "add", "del", "setPri", "addConn", "sndHost", "rcvHost", "sndAny",
                  "sndPri", "rcvAny", "acpt", "attach", "dstry"},
            host : Names \cup {None}, key : Keys \cup {None}, got : Nat, cb : 0 .. MaxCb, cur : Nat]

HostTypes ==
  /\ hostCb \in [Cbs -> CbRec]
  /\ tbl \in [main : Seq(Cbs), slot : [Slots -> 0 .. MaxCb], pri : Slots, lastRcv : Slots,
              lastSnd : Slots, cnt : Int]
  /\ loopLst \in Seq(Cbs)
  /\ proc \in [Procs -> ProcRec]
  /\ tick \in Nat
  /\ phase \in {"run", "acpt", "threads", "done"}
  /\ passed \in [Cbs -> Nat]

(* The end waits for the calls, then for the accept thread, and then for   *)
(* the host threads; without these nothing changes a host.                 *)
Ending ==
  /\ phase # "run" => \A a \in Apps : proc[a].pc = "idle"
  /\ phase \in {"threads", "done"} => proc[Acpt].pc = "idle"
  /\ phase = "done" => (\A t \in Threads : proc[t].pc = "exit") /\ Live = {}

(* The list, the id table and the names have the same hosts, and the ids   *)
(* that are kept are ids of hosts, but for a late reset.                   *)
HostTables == phase # "done" =>
  /\ IsInjective(tbl.main) /\ ToSet(tbl.main) = Live /\ tbl.cnt = Len(tbl.main)
  /\ \A c \in Live : hostCb[c].made /\ tbl.slot[hostCb[c].id] = c
  /\ \A i \in Slots : tbl.slot[i] # 0 => tbl.slot[i] \in Live /\ hostCb[tbl.slot[i]].id = i
  /\ \A c, d \in Live : hostCb[c].host = hostCb[d].host => c = d
  /\ tbl.main # << >> => tbl.slot[tbl.pri] # 0 /\ tbl.slot[tbl.lastRcv] # 0
                        /\ (tbl.slot[tbl.lastSnd] # 0 \/ turned)

(* A thread has a host from the pop to the put or the end of the host, and *)
(* no two have the same one.                                               *)
LoopList == phase # "done" =>
  /\ IsInjective(loopLst) /\ ToSet(loopLst) \subseteq Live
  /\ \A t \in Threads : proc[t].cb = 0 <=> proc[t].pc \in {"pop", "exit"}
  /\ \A t \in Threads : proc[t].cb # 0 => proc[t].cb \in Live
  /\ \A c \in Live : c \in ToSet(loopLst) <=> \A t \in Threads : proc[t].cb # c
  /\ \A t, u \in Threads : proc[t].cb = proc[u].cb /\ proc[t].cb # 0 => t = u

(* openConnCnt counts every connection that there is; a host is armed to   *)
(* be freed when it reaches 0.                                             *)
Linked(cb)  == cb.acc + (IF cb.dst = "open" THEN 1 ELSE 0)
Counted(cb) == cb.open >= Linked(cb) /\ (cb.freeTmFlg => Linked(cb) = 0)
Connections == \A c \in Live : Counted(hostCb[c])

(* Only a receive that waits keeps a host while it holds no mutex.         *)
Waits ==
  /\ \A a \in Apps : proc[a].cb # 0 => condWait
  /\ hostMemErr => condWait

(* The places that the next send to any has to go on to the j-th host.     *)
Start == Place(tbl.main, Kept(tbl.lastSnd))
Ahead(j) == IF Start <= j THEN j - Start ELSE j - Start + Len(tbl.main)

Rounds ==
  /\ RoundRobin
  /\ phase # "done" => \A j \in DOMAIN tbl.main : passed[tbl.main[j]] + Ahead(j) < Len(tbl.main)

HostInv ==
  HostTypes /\ Ending /\ HostTables /\ LoopList /\ Connections /\ Waits /\ Rounds
-----------------------------------------------------------------------------
(* Lists of hosts *)

LEMMA ListFacts ==
  ASSUME NEW s \in Seq(Cbs)
  PROVE  /\ Len(s) \in Nat /\ DOMAIN s = 1 .. Len(s)
         /\ \A i \in 1 .. Len(s) : s[i] \in Cbs /\ s[i] \in ToSet(s)
         /\ \A c : c \in ToSet(s) <=> \E i \in 1 .. Len(s) : s[i] = c
         /\ s = << >> <=> Len(s) = 0
         /\ s = << >> <=> ToSet(s) = {}
<1>1. Len(s) \in Nat /\ DOMAIN s = 1 .. Len(s) /\ \A i \in 1 .. Len(s) : s[i] \in Cbs
  BY LenProperties
<1>2. s = << >> <=> Len(s) = 0
  BY EmptySeq
<1>3. \A c : c \in ToSet(s) <=> \E i \in 1 .. Len(s) : s[i] = c
  BY <1>1 DEF ToSet
<1>4. ASSUME Len(s) # 0 PROVE s[1] \in ToSet(s)
  <2>1. 1 \in 1 .. Len(s)
    BY <1>1, <1>4
  <2>2. QED BY <2>1, <1>3
<1>5. ASSUME Len(s) = 0 PROVE \A c : c \notin ToSet(s)
  BY <1>1, <1>3, <1>5
<1>6. QED BY <1>1, <1>2, <1>3, <1>4, <1>5

LEMMA PlaceFacts ==
  ASSUME NEW s \in Seq(Cbs), NEW c \in ToSet(s)
  PROVE  /\ Place(s, c) \in 1 .. Len(s) /\ s[Place(s, c)] = c
         /\ IsInjective(s) => \A i \in 1 .. Len(s) : s[i] = c => i = Place(s, c)
<1>1. Place(s, c) \in 1 .. Len(s) /\ s[Place(s, c)] = c
  BY ListFacts DEF Place
<1>2. QED BY <1>1, ListFacts DEF IsInjective

LEMMA AppendFacts ==
  ASSUME NEW s \in Seq(Cbs), NEW c \in Cbs
  PROVE  /\ Append(s, c) \in Seq(Cbs) /\ Len(Append(s, c)) = Len(s) + 1
         /\ ToSet(Append(s, c)) = ToSet(s) \cup {c}
         /\ IsInjective(s) /\ c \notin ToSet(s) => IsInjective(Append(s, c))
<1>1. /\ Append(s, c) \in Seq(Cbs)
      /\ Len(Append(s, c)) = Len(s) + 1
      /\ \A i \in 1 .. Len(s) : Append(s, c)[i] = s[i]
      /\ Append(s, c)[Len(s) + 1] = c
  BY AppendProperties
<1>2. Len(s) \in Nat /\ DOMAIN s = 1 .. Len(s) /\ DOMAIN Append(s, c) = 1 .. Len(s) + 1
  BY <1>1, LenProperties
<1>3. ToSet(Append(s, c)) = ToSet(s) \cup {c}
  <2>1. \A d : d \in ToSet(Append(s, c)) <=> \E i \in 1 .. Len(s) + 1 : Append(s, c)[i] = d
    BY <1>2 DEF ToSet
  <2>2. \A d : d \in ToSet(s) <=> \E i \in 1 .. Len(s) : s[i] = d
    BY <1>2 DEF ToSet
  <2>3. QED BY <1>1, <1>2, <2>1, <2>2
<1>4. ASSUME IsInjective(s), c \notin ToSet(s) PROVE IsInjective(Append(s, c))
  BY <1>1, <1>2, <1>4 DEF IsInjective, ToSet
<1>5. QED BY <1>1, <1>3, <1>4

LEMMA WithoutFacts ==
  ASSUME NEW s \in Seq(Cbs), IsInjective(s), NEW c \in ToSet(s)
  PROVE  /\ RemoveAt(s, Place(s, c)) \in Seq(Cbs)
         /\ Len(RemoveAt(s, Place(s, c))) = Len(s) - 1
         /\ ToSet(RemoveAt(s, Place(s, c))) = ToSet(s) \ {c}
         /\ IsInjective(RemoveAt(s, Place(s, c)))
<1> DEFINE i == Place(s, c)
           t == SubSeq(s, 1, i - 1)
           u == SubSeq(s, i + 1, Len(s))
<1>1. Len(s) \in Nat /\ DOMAIN s = 1 .. Len(s) /\ \A k \in 1 .. Len(s) : s[k] \in Cbs
  BY LenProperties
<1>2. i \in 1 .. Len(s) /\ s[i] = c /\ \A k \in 1 .. Len(s) : s[k] = c => k = i
  BY PlaceFacts
<1> HIDE DEF i
<1>4. t \in Seq(Cbs) /\ Len(t) = i - 1 /\ \A k \in 1 .. i - 1 : t[k] = s[k]
  BY <1>1, <1>2, SubSeqProperties
<1>5. u \in Seq(Cbs) /\ Len(u) = Len(s) - i /\ \A k \in 1 .. Len(s) - i : u[k] = s[k + i]
  <2>1. /\ i + 1 \in Int /\ Len(s) \in Int /\ \A k \in i + 1 .. Len(s) : s[k] \in Cbs
        /\ i <= Len(s)
    BY <1>1, <1>2
  <2>2. /\ u \in Seq(Cbs) /\ Len(u) = IF i + 1 <= Len(s) THEN Len(s) - (i + 1) + 1 ELSE 0
        /\ \A k \in 1 .. Len(s) - (i + 1) + 1 : u[k] = s[(i + 1) + k - 1]
    BY <2>1, SubSeqProperties
  <2> HIDE DEF u
  <2>3. \A k \in 1 .. Len(s) - i : u[k] = s[k + i]
    <3> TAKE k \in 1 .. Len(s) - i
    <3>1. k \in 1 .. Len(s) - (i + 1) + 1 /\ (i + 1) + k - 1 = k + i
      BY <1>1, <1>2
    <3>2. QED BY <3>1, <2>2
  <2>4. Len(u) = Len(s) - i
    BY <2>1, <2>2, <1>2
  <2>5. QED BY <2>2, <2>3, <2>4
<1> HIDE DEF t, u
<1> DEFINE w == t \o u
<1>6. RemoveAt(s, i) = w
  BY DEF RemoveAt, t, u
<1>7. /\ w \in Seq(Cbs) /\ Len(w) = Len(s) - 1
      /\ \A k \in 1 .. Len(s) - 1 : w[k] = IF k < i THEN s[k] ELSE s[k + 1]
  <2>1. /\ t \o u \in Seq(Cbs)
        /\ Len(t \o u) = Len(t) + Len(u)
        /\ \A k \in 1 .. Len(t) + Len(u) :
             (t \o u)[k] = IF k <= Len(t) THEN t[k] ELSE u[k - Len(t)]
    BY <1>4, <1>5, ConcatProperties
  <2>2. Len(w) = Len(s) - 1
    BY <1>1, <1>2, <1>4, <1>5, <2>1
  <2>3. ASSUME NEW k \in 1 .. Len(s) - 1 PROVE w[k] = IF k < i THEN s[k] ELSE s[k + 1]
    <3>1. k \in 1 .. Len(t) + Len(u) /\ Len(t) = i - 1 /\ i \in Int
      BY <1>1, <1>2, <1>4, <1>5
    <3>2. CASE k < i
      BY <3>1, <3>2, <2>1, <1>4
    <3>3. CASE ~(k < i)
      <4>1. w[k] = u[k - (i - 1)]
        BY <3>1, <3>3, <2>1
      <4>2. k - (i - 1) \in 1 .. Len(s) - i /\ (k - (i - 1)) + i = k + 1
        BY <3>1, <3>3, <1>1
      <4>3. QED BY <4>1, <4>2, <1>5, <3>3
    <3>4. QED BY <3>2, <3>3
  <2>4. QED BY <2>1, <2>2, <2>3
<1> HIDE DEF w
<1>8. DOMAIN w = 1 .. Len(s) - 1
  BY <1>7, <1>1, LenProperties
<1>9. \A d : d \in ToSet(w) <=> d \in ToSet(s) /\ d # c
  <2>0. /\ \A d : d \in ToSet(w) <=> \E k \in 1 .. Len(s) - 1 : w[k] = d
        /\ \A d : d \in ToSet(s) <=> \E k \in 1 .. Len(s) : s[k] = d
    BY <1>1, <1>8 DEF ToSet
  <2>1. ASSUME NEW d, d \in ToSet(w) PROVE d \in ToSet(s) /\ d # c
    <3>1. PICK k \in 1 .. Len(s) - 1 : w[k] = d
      BY <2>0, <2>1
    <3>2. CASE k < i   BY <3>1, <3>2, <1>1, <1>2, <1>7, <2>0
    <3>3. CASE ~(k < i)
      <4>1. k + 1 \in 1 .. Len(s) /\ s[k + 1] = d /\ k + 1 # i
        BY <3>1, <3>3, <1>1, <1>2, <1>7
      <4>2. QED BY <4>1, <1>2, <2>0
    <3>4. QED BY <3>2, <3>3
  <2>2. ASSUME NEW d, d \in ToSet(s), d # c PROVE d \in ToSet(w)
    <3>1. PICK k \in 1 .. Len(s) : s[k] = d
      BY <2>0, <2>2
    <3>2. CASE k < i
      <4>1. k \in 1 .. Len(s) - 1
        BY <3>1, <3>2, <1>1, <1>2
      <4>2. QED BY <3>1, <3>2, <4>1, <1>7, <2>0
    <3>3. CASE ~(k < i)
      <4>1. k - 1 \in 1 .. Len(s) - 1 /\ ~(k - 1 < i) /\ (k - 1) + 1 = k
        BY <3>1, <3>3, <1>1, <1>2, <2>2
      <4>2. w[k - 1] = d
        BY <4>1, <3>1, <1>7
      <4>3. QED BY <4>1, <4>2, <2>0
    <3>4. QED BY <3>2, <3>3
  <2>3. QED BY <2>1, <2>2
<1>10. IsInjective(w)
  <2> DEFINE from(k) == IF k < i THEN k ELSE k + 1
  <2>1. \A k \in 1 .. Len(s) - 1 : from(k) \in 1 .. Len(s) /\ w[k] = s[from(k)]
    BY <1>1, <1>2, <1>7
  <2>2. \A k, l \in 1 .. Len(s) - 1 : from(k) = from(l) => k = l
    BY <1>1, <1>2
  <2> HIDE DEF from
  <2>3. \A k, l \in 1 .. Len(s) : s[k] = s[l] => k = l
    BY <1>1 DEF IsInjective
  <2>4. \A k, l \in 1 .. Len(s) - 1 : w[k] = w[l] => k = l
    BY <2>1, <2>2, <2>3
  <2>5. QED BY <1>8, <2>4 DEF IsInjective
<1>11. ToSet(w) = ToSet(s) \ {c}
  BY <1>9
<1>12. /\ RemoveAt(s, i) \in Seq(Cbs) /\ Len(RemoveAt(s, i)) = Len(s) - 1
       /\ ToSet(RemoveAt(s, i)) = ToSet(s) \ {c} /\ IsInjective(RemoveAt(s, i))
  BY <1>6, <1>7, <1>10, <1>11
<1>13. QED BY <1>12 DEF i

LEMMA TailFacts ==
  ASSUME NEW s \in Seq(Cbs), s # << >>, IsInjective(s)
  PROVE  /\ Tail(s) \in Seq(Cbs) /\ s[1] \in ToSet(s)
         /\ ToSet(Tail(s)) = ToSet(s) \ {s[1]}
         /\ IsInjective(Tail(s))
<1>1. /\ Len(s) \in Nat /\ Len(s) >= 1 /\ DOMAIN s = 1 .. Len(s)
      /\ \A c : c \in ToSet(s) <=> \E i \in 1 .. Len(s) : s[i] = c
  BY ListFacts
<1>2. Tail(s) \in Seq(Cbs) /\ Len(Tail(s)) = Len(s) - 1
      /\ \A i \in 1 .. Len(s) - 1 : Tail(s)[i] = s[i + 1]
  BY HeadTailProperties
<1>3. DOMAIN Tail(s) = 1 .. Len(s) - 1
      /\ \A c : c \in ToSet(Tail(s)) <=> \E i \in 1 .. Len(s) - 1 : Tail(s)[i] = c
  BY <1>2, ListFacts
<1>4. IsInjective(Tail(s))
  BY <1>1, <1>2, <1>3 DEF IsInjective
<1>5. ASSUME NEW c, c \in ToSet(Tail(s)) PROVE c \in ToSet(s) /\ c # s[1]
  <2>1. PICK i \in 1 .. Len(s) - 1 : s[i + 1] = c
    BY <1>2, <1>3, <1>5
  <2>2. i + 1 \in 1 .. Len(s) /\ i + 1 # 1 /\ 1 \in 1 .. Len(s)
    BY <1>1
  <2>3. QED BY <2>1, <2>2, <1>1 DEF IsInjective
<1>6. ASSUME NEW c, c \in ToSet(s), c # s[1] PROVE c \in ToSet(Tail(s))
  <2>1. PICK i \in 1 .. Len(s) : s[i] = c
    BY <1>1, <1>6
  <2>2. i - 1 \in 1 .. Len(s) - 1 /\ (i - 1) + 1 = i
    BY <1>1, <1>6, <2>1
  <2>3. QED BY <2>1, <2>2, <1>2, <1>3
<1>7. s[1] \in ToSet(s)
  BY <1>1
<1>8. QED BY <1>2, <1>4, <1>5, <1>6, <1>7

LEMMA CountFacts ==
  ASSUME NEW s \in Seq(Cbs), IsInjective(s)
  PROVE  IsFiniteSet(ToSet(s)) /\ Cardinality(ToSet(s)) = Len(s)
<1>1. /\ Len(s) \in Nat /\ DOMAIN s = 1 .. Len(s)
      /\ \A i \in 1 .. Len(s) : s[i] \in ToSet(s)
      /\ \A c : c \in ToSet(s) <=> \E i \in 1 .. Len(s) : s[i] = c
  BY ListFacts
<1>2. s \in Bijection(1 .. Len(s), ToSet(s))
  <2>1. s = [i \in 1 .. Len(s) |-> s[i]]
    BY LenProperties
  <2>2. s \in [1 .. Len(s) -> ToSet(s)]
    BY <1>1, <2>1
  <2>3. \A i, j \in 1 .. Len(s) : s[i] = s[j] => i = j
    BY <1>1 DEF IsInjective
  <2>4. QED BY <1>1, <2>2, <2>3 DEF Bijection, Injection, Surjection
<1>3. ExistsBijection(1 .. Len(s), ToSet(s))
  BY <1>2 DEF ExistsBijection
<1>4. IsFiniteSet(1 .. Len(s)) /\ Cardinality(1 .. Len(s)) = Len(s)
  <2>1. /\ IsFiniteSet(1 .. Len(s))
        /\ Cardinality(1 .. Len(s)) = IF 1 > Len(s) THEN 0 ELSE Len(s) - 1 + 1
    BY <1>1, FS_Interval
  <2>2. QED BY <2>1, <1>1
<1>5. QED BY <1>3, <1>4, FS_Bijection

(* A set of numbers that is not empty has a least one.                     *)
LEMMA LeastFacts ==
  ASSUME NEW S, S \subseteq Nat, S # {}
  PROVE  \E i \in S : \A j \in S : i =< j
<1> DEFINE R == OpToRel(<, Nat)
<1>1. IsWellFoundedOn(R, Nat)
  BY NatLessThanWellFounded
<1>2. \A i, j \in Nat : <<i, j>> \in R <=> i < j
  BY DEF OpToRel
<1> HIDE DEF R
<1>3. PICK i \in S : \A j \in S : ~(<<j, i>> \in R)
  BY <1>1, WFMin
<1>4. ASSUME NEW j \in S PROVE i =< j
  <2>1. i \in Nat /\ j \in Nat /\ ~(<<j, i>> \in R)
    BY <1>3
  <2>2. ~(j < i)
    BY <2>1, <1>2
  <2>3. QED BY <2>1, <2>2
<1>5. QED BY <1>4

LEMMA NextFacts ==
  ASSUME NEW s \in Seq(Cbs), NEW c \in ToSet(s)
  PROVE  NextHost(s, c) \in ToSet(s)
<1> DEFINE i == Place(s, c)
           n == Len(s)
<1>1. n \in Nat /\ i \in 1 .. n
  BY ListFacts, PlaceFacts
<1> HIDE DEF i, n
<1>2. (i % n) + 1 \in 1 .. n
  BY <1>1
<1>3. (i % Len(s)) + 1 \in 1 .. Len(s)
  BY <1>2 DEF n
<1>4. s[(i % Len(s)) + 1] \in ToSet(s)
  BY <1>3, ListFacts
<1>5. QED BY <1>4 DEF NextHost, i

(* The next place is the one after, or the first one after the last.       *)
LEMMA NextPlace ==
  ASSUME NEW s \in Seq(Cbs), IsInjective(s), NEW c \in ToSet(s)
  PROVE  Place(s, NextHost(s, c)) = IF Place(s, c) = Len(s) THEN 1 ELSE Place(s, c) + 1
<1> DEFINE i == Place(s, c)
           n == Len(s)
           k == IF i = n THEN 1 ELSE i + 1
<1>1. n \in Nat /\ i \in 1 .. n
  BY ListFacts, PlaceFacts
<1>2. (i % n) + 1 = k
  <2> HIDE DEF i, n
  <2>1. CASE i = n   BY <1>1, <2>1
  <2>2. CASE i # n
    <3>1. i \in 0 .. n - 1
      BY <1>1, <2>2
    <3>2. i % n = i
      BY <3>1, <1>1
    <3>3. QED BY <3>2, <2>2
  <2>3. QED BY <2>1, <2>2
<1>3. NextHost(s, c) = s[k]
  BY <1>2 DEF NextHost
<1>4. k \in 1 .. Len(s)
  BY <1>1
<1>5. s[k] \in ToSet(s)
  BY <1>4, ListFacts
<1>6. \A d \in ToSet(s) : \A j \in 1 .. Len(s) : s[j] = d => j = Place(s, d)
  BY PlaceFacts
<1> HIDE DEF k
<1>7. k = Place(s, s[k])
  BY <1>4, <1>5, <1>6
<1>8. QED BY <1>3, <1>7 DEF k, i, n

LEMMA RingFacts ==
  ASSUME tbl.main \in Seq(Cbs), NEW c \in ToSet(tbl.main)
  PROVE  /\ DOMAIN From(c) = 1 .. Len(tbl.main) /\ Len(From(c)) = Len(tbl.main)
         /\ \A i \in DOMAIN From(c) : From(c)[i] \in ToSet(tbl.main)
         /\ From(c)[1] = c
<1> DEFINE s == tbl.main
           i == Place(s, c)
           t == SubSeq(s, i, Len(s))
           u == SubSeq(s, 1, i - 1)
<1>1. Len(s) \in Nat /\ i \in 1 .. Len(s) /\ s[i] = c
      /\ \A k \in 1 .. Len(s) : s[k] \in ToSet(s) /\ s[k] \in Cbs
  BY ListFacts, PlaceFacts
<1>2. From(c) = t \o u
  BY DEF From
<1> HIDE DEF i
<1>3. t \in Seq(Cbs) /\ Len(t) = Len(s) - i + 1 /\ \A k \in 1 .. Len(s) - i + 1 : t[k] = s[i + k - 1]
  <2> HIDE DEF s
  <2>1. i \in Int /\ Len(s) \in Int /\ i <= Len(s) /\ \A k \in i .. Len(s) : s[k] \in Cbs
    BY <1>1
  <2>2. /\ t \in Seq(Cbs) /\ Len(t) = IF i <= Len(s) THEN Len(s) - i + 1 ELSE 0
        /\ \A k \in 1 .. Len(s) - i + 1 : t[k] = s[i + k - 1]
    BY <2>1, SubSeqProperties
  <2> HIDE DEF t
  <2>3. QED BY <2>1, <2>2
<1>4. u \in Seq(Cbs) /\ Len(u) = i - 1 /\ \A k \in 1 .. i - 1 : u[k] = s[k]
  BY <1>1, SubSeqProperties
<1> HIDE DEF t, u
<1>5. /\ t \o u \in Seq(Cbs)
      /\ Len(t \o u) = Len(t) + Len(u)
      /\ \A k \in 1 .. Len(t) + Len(u) :
           (t \o u)[k] = IF k <= Len(t) THEN t[k] ELSE u[k - Len(t)]
  BY <1>3, <1>4, ConcatProperties
<1> HIDE DEF s
<1>6. Len(t) + Len(u) = Len(s)
  BY <1>1, <1>3, <1>4, SMTT(30)
<1>7. DOMAIN (t \o u) = 1 .. Len(s)
  BY <1>5, <1>6, LenProperties
<1>8. ASSUME NEW k \in 1 .. Len(s) PROVE (t \o u)[k] \in ToSet(s)
  <2>1. CASE k <= Len(t)
    <3>1. k \in 1 .. Len(s) - i + 1 /\ i + k - 1 \in 1 .. Len(s)
      BY <2>1, <1>1, <1>3
    <3>2. (t \o u)[k] = s[i + k - 1]
      BY <2>1, <3>1, <1>3, <1>5, <1>6
    <3>3. QED BY <3>1, <3>2, <1>1
  <2>2. CASE ~(k <= Len(t))
    <3> DEFINE l == k - Len(t)
    <3>1. l \in 1 .. i - 1 /\ l \in 1 .. Len(s)
      BY <2>2, <1>1, <1>3
    <3>2. (t \o u)[k] = u[l]
      BY <2>2, <1>5, <1>6
    <3> HIDE DEF l
    <3>3. u[l] = s[l]
      BY <3>1, <1>4
    <3>4. QED BY <3>1, <3>2, <3>3, <1>1
  <2>3. QED BY <2>1, <2>2
<1>9. (t \o u)[1] = c
  <2>1. 1 \in 1 .. Len(t) + Len(u) /\ 1 <= Len(t) /\ 1 \in 1 .. Len(s) - i + 1 /\ i + 1 - 1 = i
    BY <1>1, <1>3, <1>4
  <2>2. (t \o u)[1] = t[1]
    BY <2>1, <1>5
  <2>3. t[1] = s[i]
    BY <2>1, <1>3
  <2>4. QED BY <2>2, <2>3, <1>1
<1>10. QED BY <1>2, <1>5, <1>6, <1>7, <1>8, <1>9 DEF s

LEMMA RouteFacts ==
  ASSUME tbl.main \in Seq(Cbs), NEW c \in ToSet(tbl.main)
  PROVE  /\ Route(c) \in ToSet(tbl.main) \cup {0}
         /\ Ready(c) => Route(c) = c
<1> DEFINE ring == From(c)
           ready == {i \in DOMAIN ring : Ready(ring[i])}
           first == CHOOSE i \in ready : \A j \in ready : i =< j
<1>1. /\ DOMAIN ring = 1 .. Len(tbl.main) /\ Len(tbl.main) \in Nat /\ Len(tbl.main) # 0
      /\ \A i \in DOMAIN ring : ring[i] \in ToSet(tbl.main)
      /\ ring[1] = c
  BY RingFacts, ListFacts
<1>2. Route(c) = IF ready # {} THEN ring[first] ELSE IF Room(c) THEN c ELSE 0
  BY DEF Route
<1> HIDE DEF ring
<1>3. ready \subseteq Nat /\ ready \subseteq DOMAIN ring
  BY <1>1
<1>4. ready # {} => first \in ready /\ \A j \in ready : first =< j
  <2> HIDE DEF ready
  <2>1. ready # {} => \E i \in ready : \A j \in ready : i =< j
    BY <1>3, LeastFacts
  <2>2. QED BY <2>1
<1>5. Route(c) \in ToSet(tbl.main) \cup {0}
  <2> HIDE DEF ready, first
  <2>1. QED BY <1>1, <1>2, <1>3, <1>4
<1>6. ASSUME Ready(c) PROVE Route(c) = c
  <2>1. 1 \in DOMAIN ring
    BY <1>1
  <2>2. 1 \in ready
    BY <2>1, <1>1, <1>6
  <2> HIDE DEF ready, first
  <2>3. first \in ready /\ first =< 1 /\ first \in 1 .. Len(tbl.main)
    BY <2>2, <1>1, <1>3, <1>4
  <2>4. first = 1
    BY <2>3, <1>1
  <2>5. QED BY <2>2, <2>4, <1>1, <1>2
<1>7. QED BY <1>5, <1>6

-----------------------------------------------------------------------------
(* What the types give *)

LEMMA AtFacts ==
  ASSUME NEW pc \in {"idle", "lock", "relock", "wait", "pop", "serve", "put", "exit"}
  PROVE  At(pc) \in ProcRec /\ At(pc).pc = pc /\ At(pc).cb = 0
<1>1. At(pc).pc = pc /\ At(pc).cb = 0
  BY DEF At
<1>2. 0 \in Nat /\ 0 \in 0 .. MaxCb
  BY HostAssumption DEF HostAssumption
<1>3. At(pc) \in ProcRec
  BY <1>2, Zenon DEF At, ProcRec
<1>4. QED BY <1>1, <1>3

LEMMA TopFacts ==
  ASSUME tick \in Nat
  PROVE  Top \in ProcRec /\ Top.pc = "pop" /\ Top.cb = 0
<1>1. Top = [pc |-> "pop", op |-> None, host |-> None, key |-> None, got |-> 0, cb |-> 0, cur |-> tick]
  BY DEF Top, At
<1>2. 0 \in Nat /\ 0 \in 0 .. MaxCb
  BY HostAssumption DEF HostAssumption
<1>3. Top \in ProcRec
  BY <1>1, <1>2, Zenon DEF ProcRec
<1>4. QED BY <1>1, <1>3

(* One thread moves. *)
LEMMA ProcStep ==
  ASSUME HostTypes, NEW p \in Procs, NEW r \in ProcRec, proc' = [proc EXCEPT ![p] = r]
  PROVE  /\ proc' \in [Procs -> ProcRec] /\ proc'[p] = r
         /\ \A q \in Procs : q # p => proc'[q] = proc[q]
BY DEF HostTypes

LEMMA Distinct ==
  /\ \A t \in Threads : t \in Procs /\ t \notin Apps /\ t # Acpt
  /\ \A a \in Apps : a \in Procs /\ a \notin Threads /\ a # Acpt
  /\ Acpt \in Procs /\ Acpt \notin Threads
BY HostAssumption DEF HostAssumption, Procs

SameThreads ==
  \A t \in Threads : proc'[t].cb = proc[t].cb
                     /\ (proc'[t].pc \in {"pop", "exit"} <=> proc[t].pc \in {"pop", "exit"})

(* A call of the program moves: the program still runs. *)
LEMMA AppStep ==
  ASSUME HostInv, NEW a \in Apps, NEW r \in ProcRec, r.cb # 0 => condWait,
         proc' = [proc EXCEPT ![a] = r], phase = "run", UNCHANGED <<phase, condWait>>,
         hostMemErr' = hostMemErr \/ condWait
  PROVE  proc' \in [Procs -> ProcRec] /\ SameThreads /\ Ending' /\ Waits'
<1>1. /\ proc' \in [Procs -> ProcRec] /\ proc'[a] = r
      /\ \A q \in Procs : q # a => proc'[q] = proc[q]
  BY ProcStep, Distinct DEF HostInv
<1>2. SameThreads
  BY <1>1, Distinct DEF SameThreads
<1>3. Waits'
  BY <1>1, Distinct DEF HostInv, Waits
<1>4. QED BY <1>1, <1>2, <1>3 DEF Ending

LEMMA AcptStep ==
  ASSUME HostInv, NEW r \in ProcRec,
         proc' = [proc EXCEPT ![Acpt] = r], phase \in {"run", "acpt"},
         UNCHANGED <<phase, condWait, hostMemErr>>
  PROVE  proc' \in [Procs -> ProcRec] /\ SameThreads /\ Ending' /\ Waits'
<1>1. /\ proc' \in [Procs -> ProcRec] /\ proc'[Acpt] = r
      /\ \A q \in Procs : q # Acpt => proc'[q] = proc[q]
  BY ProcStep, Distinct DEF HostInv
<1>2. SameThreads
  BY <1>1, Distinct DEF SameThreads
<1>3. Waits'
  BY <1>1, Distinct DEF HostInv, Waits
<1>4. Ending'
  BY <1>1, Distinct DEF HostInv, Ending
<1>5. QED BY <1>1, <1>2, <1>3, <1>4

LEMMA ThreadStep ==
  ASSUME HostInv, NEW t \in Threads, NEW r \in ProcRec, phase # "done",
         proc' = [proc EXCEPT ![t] = r], UNCHANGED <<phase, condWait, hostMemErr>>
  PROVE  /\ proc' \in [Procs -> ProcRec] /\ proc'[t] = r /\ Ending' /\ Waits'
         /\ \A u \in Threads : u # t => proc'[u] = proc[u]
<1>1. /\ proc' \in [Procs -> ProcRec] /\ proc'[t] = r
      /\ \A q \in Procs : q # t => proc'[q] = proc[q]
  BY ProcStep, Distinct DEF HostInv
<1>2. Waits'
  BY <1>1, Distinct DEF HostInv, Waits
<1>3. Ending'
  BY <1>1, Distinct DEF HostInv, Ending
<1>4. QED BY <1>1, <1>2, <1>3, Distinct

(* Who acts, and until when. *)
LEMMA Active ==
  ASSUME HostInv
  PROVE  /\ \A a \in Apps : proc[a].pc # "idle" => phase = "run"
         /\ proc[Acpt].pc # "idle" => phase \in {"run", "acpt"}
         /\ \A t \in Threads : proc[t].pc # "exit" => phase # "done"
BY DEF HostInv, HostTypes, Ending

-----------------------------------------------------------------------------
(* What an operation may do to a control block that is a host              *)

Same(cb, r) == r.made = cb.made /\ r.live = cb.live /\ r.host = cb.host /\ r.id = cb.id

Edited(cb, r) == r \in CbRec /\ Same(cb, r) /\ (Counted(cb) => Counted(r))

LEMMA SndEdited == ASSUME NEW cb \in CbRec PROVE Edited(cb, [cb EXCEPT !.snd = @ + 1])
<1> DEFINE r == [cb EXCEPT !.snd = @ + 1]
<1>1. r \in CbRec
  BY DEF CbRec
<1>2. Same(cb, r) /\ (Counted(cb) => Counted(r))
  BY DEF CbRec, Same, Counted, Linked
<1>3. QED BY <1>1, <1>2 DEF Edited

LEMMA RcvEdited == ASSUME NEW cb \in CbRec, cb.rcv > 0 PROVE Edited(cb, [cb EXCEPT !.rcv = @ - 1])
<1> DEFINE r == [cb EXCEPT !.rcv = @ - 1]
<1>1. r \in CbRec
  BY DEF CbRec
<1>2. Same(cb, r) /\ (Counted(cb) => Counted(r))
  BY DEF CbRec, Same, Counted, Linked
<1>3. QED BY <1>1, <1>2 DEF Edited

LEMMA AskEdited == ASSUME NEW cb \in CbRec PROVE Edited(cb, [cb EXCEPT !.ctrl = @ + 1, !.asked = TRUE])
<1> DEFINE r == [cb EXCEPT !.ctrl = @ + 1, !.asked = TRUE]
<1>0. cb.ctrl + 1 \in Nat /\ TRUE \in BOOLEAN
  BY DEF CbRec
<1>1. r \in CbRec
  BY <1>0, Zenon DEF CbRec
<1>2. Same(cb, r) /\ (Counted(cb) => Counted(r))
  BY DEF CbRec, Same, Counted, Linked
<1>3. QED BY <1>1, <1>2 DEF Edited

LEMMA DstEdited == ASSUME NEW cb \in CbRec, cb.dst = None PROVE Edited(cb, [cb EXCEPT !.dst = "closed"])
<1> DEFINE r == [cb EXCEPT !.dst = "closed"]
<1>1. r \in CbRec
  BY DEF CbRec
<1>2. Same(cb, r) /\ (Counted(cb) => Counted(r))
  BY DEF CbRec, Same, Counted, Linked, None
<1>3. QED BY <1>1, <1>2 DEF Edited

LEMMA ClearedEdited ==
  ASSUME NEW cb \in CbRec, NEW key \in Keys \cup {None} PROVE Edited(cb, Cleared(cb, key))
<1> DEFINE r == [cb EXCEPT !.key = key, !.acc = 0, !.dst = None]
<1>0. 0 \in Nat /\ None \in {None, "closed", "open"}
  OBVIOUS
<1>1. r \in CbRec
  BY <1>0, Zenon DEF CbRec
<1>2. Same(cb, r) /\ (Counted(cb) => Counted(r))
  BY DEF CbRec, Same, Counted, Linked, None
<1>3. Edited(cb, cb)
  BY DEF Edited, Same
<1>4. QED BY <1>1, <1>2, <1>3 DEF Edited, Cleared

LEMMA AttachEdited == ASSUME NEW cb \in CbRec PROVE Edited(cb, Attach(cb))
<1> DEFINE q == [cb EXCEPT !.acc = @ + 1]
           r == [q EXCEPT !.open = @ + 1, !.freeTmFlg = FALSE]
<1>0. q \in CbRec
  BY DEF CbRec
<1>1. r \in CbRec
  <2> HIDE DEF q
  <2>1. q.open + 1 \in Nat /\ FALSE \in BOOLEAN
    BY <1>0 DEF CbRec
  <2>2. QED BY <1>0, <2>1, Zenon DEF CbRec
<1>2. r.acc = cb.acc + 1 /\ r.open = cb.open + 1 /\ r.freeTmFlg = FALSE /\ r.dst = cb.dst
  BY DEF CbRec
<1>3. Same(cb, r)
  BY DEF CbRec, Same
<1>4. Counted(cb) => Counted(r)
  BY <1>2 DEF CbRec, Counted, Linked
<1>5. QED BY <1>1, <1>3, <1>4 DEF Edited, Attach, IncOpen

LEMMA CtrlEdited == ASSUME NEW cb \in CbRec PROVE Edited(cb, CtrlSnd(cb))
<1> DEFINE r == CtrlSnd(cb)
           dstry == cb.dstry \/ cb.ctrl > 0
           ctrl == IF cb.ctrl > 0 THEN cb.ctrl - 1 ELSE 0
<1>0. dstry \in BOOLEAN /\ ctrl \in Nat /\ 0 \in Nat
  BY DEF CbRec
<1>1. r \in CbRec
  <2>1. r = [cb EXCEPT !.dstry = dstry, !.ctrl = ctrl, !.snd = 0]
    BY Zenon DEF CtrlSnd
  <2> HIDE DEF r, dstry, ctrl
  <2>2. QED BY <1>0, <2>1, Zenon DEF CbRec
<1>2. Same(cb, r) /\ (Counted(cb) => Counted(r))
  BY DEF CbRec, Same, Counted, Linked, CtrlSnd
<1>3. QED BY <1>1, <1>2 DEF Edited

(* A connection that closes was counted: the count goes down to no less    *)
(* than the connections that are left, and the host is armed at none.      *)
LEMMA ClosingEdited ==
  ASSUME NEW cb \in CbRec, NEW c \in CbRec, tick \in Nat, Same(cb, c), c.enb = cb.enb,
         c.freeTmFlg = cb.freeTmFlg, c.open = cb.open, Linked(cb) = Linked(c) + 1, Counted(cb)
  PROVE  Edited(cb, DecOpen(c))
<1>1. Linked(c) \in Nat /\ c.open > Linked(c) /\ c.freeTmFlg = FALSE
  BY DEF CbRec, Linked, Counted
<1> DEFINE r == [c EXCEPT !.open = 0, !.freeTmFlg = TRUE, !.freeTm = tick]
           q == [c EXCEPT !.open = @ - 1]
<1>2. CASE c.open = 1 /\ c.enb
  <2>1. r \in CbRec
    BY DEF CbRec
  <2>2. r.open = 0 /\ r.acc = c.acc /\ r.dst = c.dst /\ Same(cb, r)
    BY DEF CbRec, Same
  <2>3. Linked(r) = 0
    BY <2>2, <1>1, <1>2 DEF Linked
  <2>4. QED BY <1>2, <2>1, <2>2, <2>3 DEF Edited, Counted, DecOpen
<1>3. CASE ~(c.open = 1 /\ c.enb)
  <2>1. c.open - 1 \in Nat
    BY <1>1 DEF CbRec
  <2>2. q \in CbRec
    BY <2>1 DEF CbRec
  <2>3. q.open = c.open - 1 /\ q.acc = c.acc /\ q.dst = c.dst /\ q.freeTmFlg = FALSE /\ Same(cb, q)
    BY <1>1 DEF CbRec, Same
  <2>4. Linked(q) = Linked(c)
    BY <2>3 DEF Linked
  <2>5. q.open >= Linked(q)
    BY <2>1, <2>3, <2>4, <1>1 DEF CbRec
  <2>6. QED BY <1>3, <2>2, <2>3, <2>5 DEF Edited, Counted, DecOpen
<1>4. QED BY <1>2, <1>3

LEMMA EventsEdited ==
  ASSUME NEW cb \in CbRec, tick \in Nat, Counted(cb), NEW r \in ConnEvents(cb)
  PROVE  Edited(cb, r)
<1> DEFINE opened == [cb EXCEPT !.dst = "open"]
           closed == [cb EXCEPT !.dst = "closed"]
           fewer  == [cb EXCEPT !.acc = @ - 1]
           more   == [cb EXCEPT !.rcv = @ + 1]
<1>1. \/ r = cb
      \/ cb.dst = "closed" /\ r = IncOpen(opened)
      \/ cb.dst = "open" /\ r = DecOpen(closed)
      \/ cb.acc > 0 /\ r = DecOpen(fewer)
      \/ r = more
  BY Zenon DEF ConnEvents
<1>2. CASE r = cb
  BY <1>2 DEF Edited, Same
<1>3. CASE cb.dst = "closed" /\ r = IncOpen(opened)
  <2>1. r = [opened EXCEPT !.open = @ + 1, !.freeTmFlg = FALSE]
    BY <1>3 DEF IncOpen
  <2>2. r \in CbRec
    <3>1. opened \in CbRec
      BY DEF CbRec
    <3> HIDE DEF opened
    <3>2. opened.open + 1 \in Nat /\ FALSE \in BOOLEAN
      BY <3>1 DEF CbRec
    <3>3. QED BY <2>1, <3>1, <3>2, Zenon DEF CbRec
  <2>3. r.open = cb.open + 1 /\ r.acc = cb.acc /\ r.dst = "open" /\ r.freeTmFlg = FALSE
    BY <2>1 DEF CbRec
  <2>4. Same(cb, r)
    BY <2>1 DEF CbRec, Same
  <2>5. Counted(r)
    BY <2>3, <1>3 DEF CbRec, Counted, Linked
  <2>6. QED BY <2>2, <2>4, <2>5 DEF Edited
<1>4. CASE cb.dst = "open" /\ r = DecOpen(closed)
  <2>1. closed \in CbRec
    BY DEF CbRec
  <2>2. /\ closed.acc = cb.acc /\ closed.dst = "closed" /\ closed.enb = cb.enb
        /\ closed.freeTmFlg = cb.freeTmFlg /\ closed.open = cb.open /\ Same(cb, closed)
    BY DEF CbRec, Same
  <2>3. Linked(cb) = Linked(closed) + 1
    BY <2>2, <1>4 DEF Linked, CbRec
  <2> HIDE DEF closed
  <2>4. QED BY <1>4, <2>1, <2>2, <2>3, ClosingEdited
<1>5. CASE cb.acc > 0 /\ r = DecOpen(fewer)
  <2>1. fewer \in CbRec
    BY <1>5 DEF CbRec
  <2>2. /\ fewer.acc = cb.acc - 1 /\ fewer.dst = cb.dst /\ fewer.enb = cb.enb
        /\ fewer.freeTmFlg = cb.freeTmFlg /\ fewer.open = cb.open /\ Same(cb, fewer)
    BY DEF CbRec, Same
  <2>3. Linked(cb) = Linked(fewer) + 1
    BY <2>2, <1>5 DEF Linked, CbRec
  <2> HIDE DEF fewer
  <2>4. QED BY <1>5, <2>1, <2>2, <2>3, ClosingEdited
<1>6. CASE r = more
  <2>1. more \in CbRec
    BY DEF CbRec
  <2>2. Same(cb, more) /\ Counted(more)
    BY DEF CbRec, Same, Counted, Linked
  <2>3. QED BY <1>6, <2>1, <2>2 DEF Edited
<1>7. QED BY <1>1, <1>2, <1>3, <1>4, <1>5, <1>6

LEMMA SameTransitive ==
  ASSUME NEW a, NEW b, NEW c, Edited(a, b), Edited(b, c)
  PROVE  Edited(a, c)
BY DEF Edited, Same

-----------------------------------------------------------------------------
(* Steps that leave the hosts as they are *)

TblRec == [main : Seq(Cbs), slot : [Slots -> 0 .. MaxCb], pri : Slots, lastRcv : Slots,
           lastSnd : Slots, cnt : Int]

SameHosts == \A c \in Cbs : Same(hostCb[c], hostCb'[c])

(* The ids that are kept for later may become those of other hosts.        *)
KeptOnly ==
  /\ tbl' \in TblRec /\ tbl'.main = tbl.main /\ tbl'.slot = tbl.slot /\ tbl'.cnt = tbl.cnt
  /\ phase # "done" /\ tbl.main # << >> =>
       /\ tbl.slot[tbl'.pri] # 0 /\ tbl.slot[tbl'.lastRcv] # 0
       /\ tbl.slot[tbl'.lastSnd] # 0 \/ turned'

LEMMA Typed ==
  ASSUME HostInv
  PROVE  /\ \A c \in Cbs : hostCb[c] \in CbRec
         /\ tbl \in TblRec /\ tbl.main \in Seq(Cbs) /\ loopLst \in Seq(Cbs) /\ tick \in Nat
         /\ \A p \in Procs : proc[p] \in ProcRec
BY DEF HostInv, HostTypes, TblRec

(* An id that is kept, or the first host for it, and the next host.        *)
LEMMA KeptFacts ==
  ASSUME HostInv, phase # "done", tbl.main # << >>
  PROVE  /\ \A id \in {tbl.pri, tbl.lastRcv, tbl.lastSnd} : Kept(id) \in ToSet(tbl.main)
         /\ \A c \in ToSet(tbl.main) :
              c \in Cbs /\ c # 0 /\ hostCb[c].id \in Slots /\ tbl.slot[hostCb[c].id] = c
<1>1. ToSet(tbl.main) = Live /\ \A i \in Slots : tbl.slot[i] # 0 => tbl.slot[i] \in Live
  BY DEF HostInv, HostTables
<1>2. tbl.main[1] \in ToSet(tbl.main)
  <2>1. tbl.main \in Seq(Cbs)
    BY Typed
  <2>2. Len(tbl.main) \in Nat /\ Len(tbl.main) # 0
    BY <2>1, ListFacts
  <2>3. 1 \in 1 .. Len(tbl.main)
    BY <2>2
  <2>4. QED BY <2>1, <2>3, ListFacts
<1>3. ASSUME NEW c \in Live
      PROVE  c \in Cbs /\ c # 0 /\ hostCb[c].id \in Slots /\ tbl.slot[hostCb[c].id] = c
  <2>1. c \in Cbs /\ c # 0
    BY HostAssumption DEF HostAssumption, Live, Cbs
  <2>2. hostCb[c].id \in Slots
    BY <2>1, Typed DEF CbRec
  <2>3. QED BY <2>1, <2>2, <1>3 DEF HostInv, HostTables
<1>4. ASSUME NEW id \in Slots PROVE Kept(id) \in ToSet(tbl.main)
  BY <1>1, <1>2 DEF Kept
<1>5. tbl.pri \in Slots /\ tbl.lastRcv \in Slots /\ tbl.lastSnd \in Slots
  BY Typed DEF TblRec
<1>6. QED BY <1>1, <1>3, <1>4, <1>5

(* One control block is edited. *)
LEMMA CbStep ==
  ASSUME HostInv, NEW c \in Cbs, NEW r, Edited(hostCb[c], r), hostCb' = [hostCb EXCEPT ![c] = r]
  PROVE  hostCb' \in [Cbs -> CbRec] /\ SameHosts /\ Connections'
<1>1. hostCb \in [Cbs -> CbRec] /\ r \in CbRec
  BY DEF HostInv, HostTypes, Edited
<1>2. hostCb' \in [Cbs -> CbRec] /\ hostCb'[c] = r /\ \A d \in Cbs : d # c => hostCb'[d] = hostCb[d]
  BY <1>1
<1>3. ASSUME NEW d \in Cbs PROVE Same(hostCb[d], hostCb'[d])
  BY <1>2 DEF Edited, Same
<1>4. ASSUME NEW d \in Cbs, hostCb'[d].live PROVE Counted(hostCb'[d])
  <2>1. hostCb[d].live
    BY <1>3, <1>4 DEF Same
  <2>2. Counted(hostCb[d])
    BY <2>1 DEF HostInv, Connections, Live
  <2>3. QED BY <2>2, <1>2 DEF Edited
<1>5. QED BY <1>2, <1>3, <1>4 DEF SameHosts, Connections, Live

LEMMA CbsStay ==
  ASSUME HostInv, UNCHANGED hostCb
  PROVE  hostCb' \in [Cbs -> CbRec] /\ SameHosts /\ Connections'
BY DEF HostInv, HostTypes, SameHosts, Same, Connections, Live

LEMMA TblStays == ASSUME HostInv, UNCHANGED <<tbl, turned>> PROVE KeptOnly
BY Typed DEF KeptOnly, HostInv, HostTables

LEMMA RoundsStay ==
  ASSUME HostInv, tbl'.main = tbl.main, tbl'.slot = tbl.slot, tbl'.lastSnd = tbl.lastSnd,
         UNCHANGED passed, phase' # "done" => phase # "done"
  PROVE  Rounds'
BY DEF HostInv, Rounds, RoundRobin, Ahead, Start, Kept

LEMMA Frame ==
  ASSUME HostInv, hostCb' \in [Cbs -> CbRec], SameHosts, Connections', KeptOnly, UNCHANGED loopLst,
         proc' \in [Procs -> ProcRec], SameThreads, Ending', Waits', Rounds', tick' \in Nat,
         passed' \in [Cbs -> Nat], phase' \in {"run", "acpt", "threads", "done"},
         phase' # "done" => phase # "done"
  PROVE  HostInv'
<1>1. HostTypes'
  BY DEF HostInv, HostTypes, KeptOnly, TblRec
<1>2. Live' = Live
  BY DEF Live, SameHosts, Same
<1>3. ASSUME phase' # "done" PROVE HostTables'
  <2>1. /\ IsInjective(tbl.main) /\ ToSet(tbl.main) = Live /\ tbl.cnt = Len(tbl.main)
        /\ \A c \in Live : hostCb[c].made /\ tbl.slot[hostCb[c].id] = c
        /\ \A i \in Slots : tbl.slot[i] # 0 => tbl.slot[i] \in Live /\ hostCb[tbl.slot[i]].id = i
        /\ \A c, d \in Live : hostCb[c].host = hostCb[d].host => c = d
    BY <1>3 DEF HostInv, HostTables
  <2>2. \A c \in Live : hostCb'[c].made = hostCb[c].made /\ hostCb'[c].id = hostCb[c].id
                        /\ hostCb'[c].host = hostCb[c].host
    BY DEF SameHosts, Same, Live
  <2>3. IsInjective(tbl'.main) /\ ToSet(tbl'.main) = Live' /\ tbl'.cnt = Len(tbl'.main)
    BY <1>2, <2>1 DEF KeptOnly
  <2>4. \A c \in Live' : hostCb'[c].made /\ tbl'.slot[hostCb'[c].id] = c
    BY <1>2, <2>1, <2>2 DEF KeptOnly
  <2>5. \A i \in Slots : tbl'.slot[i] # 0 => tbl'.slot[i] \in Live' /\ hostCb'[tbl'.slot[i]].id = i
    BY <1>2, <2>1, <2>2 DEF KeptOnly
  <2>6. \A c, d \in Live' : hostCb'[c].host = hostCb'[d].host => c = d
    BY <1>2, <2>1, <2>2
  <2>7. tbl'.main # << >> => tbl'.slot[tbl'.pri] # 0 /\ tbl'.slot[tbl'.lastRcv] # 0
                              /\ (tbl'.slot[tbl'.lastSnd] # 0 \/ turned')
    BY <1>3 DEF KeptOnly
  <2>8. QED BY <2>3, <2>4, <2>5, <2>6, <2>7 DEF HostTables
<1>4. LoopList'
  BY <1>2 DEF HostInv, LoopList, SameThreads
<1>5. HostTables'
  BY <1>3 DEF HostTables
<1>6. QED BY <1>1, <1>4, <1>5 DEF HostInv

(* The next send to any starts at a host: every host is less than a round  *)
(* away.                                                                   *)
LEMMA AheadFacts ==
  ASSUME HostInv, phase # "done"
  PROVE  /\ Len(tbl.main) \in Nat /\ DOMAIN tbl.main = 1 .. Len(tbl.main)
         /\ tbl.main # << >> => Start \in 1 .. Len(tbl.main)
         /\ \A j \in DOMAIN tbl.main : Ahead(j) \in 0 .. Len(tbl.main) - 1
<1>1. Len(tbl.main) \in Nat /\ DOMAIN tbl.main = 1 .. Len(tbl.main)
  BY Typed, ListFacts
<1>2. ASSUME tbl.main # << >> PROVE Start \in 1 .. Len(tbl.main)
  <2>1. tbl.main \in Seq(Cbs) /\ Kept(tbl.lastSnd) \in ToSet(tbl.main)
    BY <1>2, KeptFacts, Typed
  <2>2. QED BY <2>1, PlaceFacts DEF Start
<1>3. ASSUME NEW j \in DOMAIN tbl.main PROVE Ahead(j) \in 0 .. Len(tbl.main) - 1
  <2>1. tbl.main # << >>
    BY <1>1, Typed, ListFacts
  <2>2. Start \in 1 .. Len(tbl.main)
    BY <1>2, <2>1
  <2>3. QED BY <2>2, <1>1 DEF Ahead
<1>4. QED BY <1>1, <1>2, <1>3

(* Nothing was passed over since the hosts became others or the round was  *)
(* reset.                                                                  *)
LEMMA FreshRounds ==
  ASSUME tbl' \in TblRec, \A i \in Slots : tbl'.slot[i] # 0 => tbl'.slot[i] \in ToSet(tbl'.main),
         passed' = [c \in Cbs |-> 0]
  PROVE  Rounds'
<1> DEFINE s == tbl'.main
           id == tbl'.lastSnd
<1>1. s \in Seq(Cbs) /\ id \in Slots
  BY DEF TblRec
<1>2. Len(s) \in Nat /\ DOMAIN s = 1 .. Len(s)
      /\ \A j \in 1 .. Len(s) : s[j] \in Cbs
  BY <1>1, ListFacts
<1>3. ASSUME NEW j \in DOMAIN s PROVE Ahead(j)' \in 0 .. Len(s) - 1
  <2>1. s[1] \in ToSet(s)
    <3>1. 1 \in 1 .. Len(s)
      BY <1>2
    <3>2. QED BY <3>1, <1>1, ListFacts
  <2>2. Kept(tbl.lastSnd)' = IF tbl'.slot[id] # 0 THEN tbl'.slot[id] ELSE s[1]
    BY DEF Kept
  <2> DEFINE st == IF tbl'.slot[id] # 0 THEN tbl'.slot[id] ELSE s[1]
  <2>3. st \in ToSet(s)
    BY <2>1, <1>1
  <2> HIDE DEF st
  <2>4. Place(s, st) \in 1 .. Len(s)
    BY <1>1, <2>3, PlaceFacts
  <2>5. Start' = Place(s, st)
    <3>1. Start' = Place(s, Kept(tbl.lastSnd)')
      BY DEF Start
    <3>2. QED BY <3>1, <2>2 DEF st
  <2>6. Start' \in 1 .. Len(s) /\ j \in 1 .. Len(s)
    BY <2>4, <2>5, <1>2
  <2>7. QED BY <2>6, <1>2 DEF Ahead
<1>4. \A c \in ToSet(s) : c \in Cbs /\ Len(s) > 0
  BY <1>1, <1>2, ListFacts
<1>5. RoundRobin'
  BY <1>4 DEF RoundRobin
<1>6. \A j \in DOMAIN tbl'.main : passed'[tbl'.main[j]] + Ahead(j)' < Len(tbl'.main)
  BY <1>2, <1>3
<1>7. QED BY <1>5, <1>6 DEF Rounds

-----------------------------------------------------------------------------
LEMMA HostInvInit == HostInit => HostInv
<1> SUFFICES ASSUME HostInit PROVE HostInv
  OBVIOUS
<1>0. 0 \in Slots /\ 0 \in 0 .. MaxCb /\ 0 \in Nat
  BY HostAssumption DEF HostAssumption, Slots
<1>1. Live = {}
  BY DEF HostInit, Live, noCb
<1>2. hostCb \in [Cbs -> CbRec]
  <2>1. noCb \in CbRec
    BY <1>0, Zenon DEF noCb, CbRec
  <2>2. QED BY <2>1 DEF HostInit
<1>3. tbl \in TblRec
  <2>1. [i \in Slots |-> 0] \in [Slots -> 0 .. MaxCb] /\ << >> \in Seq(Cbs) /\ 0 \in Int
    BY <1>0
  <2>2. QED BY <1>0, <2>1, Zenon DEF HostInit, TblRec
<1>4. \A p \in Procs : proc[p] = At(IF p \in Threads THEN "pop" ELSE "idle")
  BY DEF HostInit
<1>5. proc \in [Procs -> ProcRec] /\ \A p \in Procs : proc[p].cb = 0
  <2>1. /\ At("pop") \in ProcRec /\ At("pop").cb = 0 /\ At("idle") \in ProcRec /\ At("idle").cb = 0
    BY AtFacts
  <2>2. \A p \in Procs : proc[p] \in ProcRec /\ proc[p].cb = 0
    BY <1>4, <2>1
  <2>3. proc = [p \in Procs |-> proc[p]]
    BY DEF HostInit
  <2>4. QED BY <2>2, <2>3
<1>6. HostTypes
  BY <1>0, <1>2, <1>3, <1>5 DEF HostTypes, HostInit, TblRec
<1>7. tbl.main = << >> /\ loopLst = << >> /\ tbl.cnt = 0 /\ \A i \in Slots : tbl.slot[i] = 0
  BY DEF HostInit
<1>8. /\ IsInjective(tbl.main) /\ ToSet(tbl.main) = {} /\ Len(tbl.main) = 0
      /\ DOMAIN tbl.main = {} /\ DOMAIN loopLst = {}
      /\ IsInjective(loopLst) /\ ToSet(loopLst) = {}
  <2>1. << >> \in Seq(Cbs) /\ DOMAIN << >> = {} /\ Len(<< >>) = 0
    OBVIOUS
  <2>2. QED BY <1>7, <2>1 DEF IsInjective, ToSet
<1>9. HostTables
  BY <1>1, <1>7, <1>8 DEF HostTables
<1>10. LoopList
  <2>1. \A t \in Threads : proc[t].cb = 0 /\ proc[t].pc = "pop"
    BY <1>4, <1>5, AtFacts, Distinct
  <2>2. QED BY <1>1, <1>8, <2>1 DEF LoopList
<1>11. Ending
  BY DEF HostInit, Ending
<1>12. Connections /\ Waits
  BY <1>1, <1>5, Distinct DEF HostInit, Connections, Waits
<1>13. Rounds
  BY <1>8 DEF Rounds, RoundRobin
<1>14. QED BY <1>6, <1>9, <1>10, <1>11, <1>12, <1>13 DEF HostInv

-----------------------------------------------------------------------------
(* The hosts change *)

LEMMA FirstFreeFacts ==
  ASSUME FreeSlots # {}
  PROVE  FirstFree \in Slots /\ tbl.slot[FirstFree] = 0
<1>1. FreeSlots \subseteq Nat
  BY DEF FreeSlots, Slots
<1>2. \E i \in FreeSlots : \A j \in FreeSlots : i =< j
  BY <1>1, LeastFacts
<1>3. FirstFree \in FreeSlots
  BY <1>2 DEF FirstFree
<1>4. QED BY <1>3 DEF FreeSlots

LEMMA NewCbFacts ==
  ASSUME HostInv, phase # "done", NewCbs # {}
  PROVE  NewCb \in Cbs /\ NewCb # 0 /\ NewCb \notin Live
<1>1. NewCbs \subseteq Nat
  BY DEF NewCbs, Cbs
<1>2. \E c \in NewCbs : \A d \in NewCbs : c =< d
  BY <1>1, LeastFacts
<1>3. NewCb \in NewCbs
  BY <1>2 DEF NewCb
<1>4. NewCb \in Cbs /\ ~hostCb[NewCb].made
  BY <1>3 DEF NewCbs
<1>5. \A c \in Live : hostCb[c].made
  BY DEF HostInv, HostTables
<1>6. QED BY <1>4, <1>5 DEF Cbs

LEMMA FindFacts ==
  ASSUME HostInv, phase # "done", NEW h
  PROVE  /\ Find(h) # 0 => Find(h) \in Live /\ Find(h) \in Cbs /\ hostCb[Find(h)].host = h
         /\ Find(h) = 0 => \A c \in Live : hostCb[c].host # h
<1>1. ToSet(tbl.main) = Live /\ \A c \in Live : c \in Cbs /\ c # 0
  BY DEF HostInv, HostTables, Live, Cbs
<1>2. CASE \E c \in ToSet(tbl.main) : hostCb[c].host = h
  BY <1>1, <1>2 DEF Find
<1>3. CASE ~\E c \in ToSet(tbl.main) : hostCb[c].host = h
  BY <1>1, <1>3 DEF Find
<1>4. QED BY <1>2, <1>3

LEMMA MakeKeeps ==
  ASSUME HostInv, phase # "done", NewCbs # {}, FreeSlots # {},
         NEW r \in CbRec, r.made, r.live, r.id = FirstFree, Find(r.host) = 0, Counted(r),
         hostCb' = [hostCb EXCEPT ![NewCb] = r], tbl' = MakeTbl(NewCb),
         loopLst' = Append(loopLst, NewCb), passed' = [d \in Cbs |-> 0], turned' = FALSE,
         proc' \in [Procs -> ProcRec], SameThreads, Ending', Waits', UNCHANGED <<phase, tick>>
  PROVE  HostInv'
<1> DEFINE n == NewCb
           i == FirstFree
           slots == [tbl.slot EXCEPT ![i] = n]
           pri == IF slots[tbl.pri] = 0 THEN i ELSE tbl.pri
<1>1. n \in Cbs /\ n # 0 /\ n \notin Live /\ i \in Slots /\ tbl.slot[i] = 0
  BY NewCbFacts, FirstFreeFacts
<1>2. tbl' = [main |-> Append(tbl.main, n), slot |-> slots, pri |-> pri, lastRcv |-> i,
              lastSnd |-> i, cnt |-> tbl.cnt + 1]
  BY DEF MakeTbl
<1>3. /\ hostCb \in [Cbs -> CbRec] /\ tbl.main \in Seq(Cbs) /\ loopLst \in Seq(Cbs)
      /\ tbl.slot \in [Slots -> 0 .. MaxCb] /\ tbl.pri \in Slots /\ tbl.cnt \in Int
  BY Typed DEF HostInv, HostTypes, TblRec
<1>4. r.id = i
  OBVIOUS
<1>5. hostCb' = [hostCb EXCEPT ![n] = r] /\ loopLst' = Append(loopLst, n)
  OBVIOUS
<1> HIDE DEF n, i
<1>6. slots \in [Slots -> 0 .. MaxCb] /\ slots[i] = n /\ \A j \in Slots : j # i => slots[j] = tbl.slot[j]
  BY <1>1, <1>3 DEF Cbs
<1>7. pri \in Slots /\ slots[pri] # 0
  BY <1>1, <1>3, <1>6
<1>8. hostCb' \in [Cbs -> CbRec] /\ hostCb'[n] = r /\ \A d \in Cbs : d # n => hostCb'[d] = hostCb[d]
  BY <1>1, <1>3, <1>5
<1> HIDE DEF slots, pri
<1>9. Live' = Live \cup {n}
  BY <1>1, <1>8 DEF Live
<1>10. /\ tbl'.main = Append(tbl.main, n) /\ tbl'.slot = slots /\ tbl'.pri = pri
       /\ tbl'.lastRcv = i /\ tbl'.lastSnd = i /\ tbl'.cnt = tbl.cnt + 1
  BY <1>2
<1>11. tbl' \in TblRec
  <2>1. Append(tbl.main, n) \in Seq(Cbs) /\ tbl.cnt + 1 \in Int
    BY <1>1, <1>3, AppendFacts
  <2>2. [main |-> Append(tbl.main, n), slot |-> slots, pri |-> pri, lastRcv |-> i,
         lastSnd |-> i, cnt |-> tbl.cnt + 1] \in TblRec
    BY <1>1, <1>6, <1>7, <2>1 DEF TblRec
  <2>3. QED BY <1>2, <2>2
<1>12. HostTypes'
  <2>1. Append(loopLst, n) \in Seq(Cbs)
    BY <1>1, <1>3, AppendFacts
  <2>2. passed' \in [Cbs -> Nat]
    OBVIOUS
  <2>3. QED BY <1>5, <1>8, <1>11, <2>1, <2>2 DEF HostInv, HostTypes, TblRec
<1>13. /\ IsInjective(tbl.main) /\ ToSet(tbl.main) = Live /\ tbl.cnt = Len(tbl.main)
       /\ \A c \in Live : hostCb[c].made /\ tbl.slot[hostCb[c].id] = c
       /\ \A j \in Slots : tbl.slot[j] # 0 => tbl.slot[j] \in Live /\ hostCb[tbl.slot[j]].id = j
       /\ \A c, d \in Live : hostCb[c].host = hostCb[d].host => c = d
  BY DEF HostInv, HostTables
<1>14. \A c \in Live : /\ c \in Cbs /\ c # 0 /\ c # n /\ hostCb'[c] = hostCb[c]
                       /\ hostCb[c].id \in Slots /\ hostCb[c].id # i /\ hostCb[c].host # r.host
  <2> TAKE c \in Live
  <2>1. c \in Cbs /\ c # 0 /\ c # n
    BY <1>1 DEF Live, Cbs
  <2>2. hostCb[c].id \in Slots
    BY <2>1, <1>3 DEF CbRec
  <2>3. hostCb[c].id # i
    BY <2>1, <1>1, <1>13
  <2>4. hostCb[c].host # r.host
    BY FindFacts
  <2>5. QED BY <2>1, <2>2, <2>3, <2>4, <1>8
<1>15. HostTables'
  <2>1. IsInjective(tbl'.main) /\ ToSet(tbl'.main) = Live' /\ tbl'.cnt = Len(tbl'.main)
    BY <1>1, <1>3, <1>9, <1>10, <1>13, AppendFacts
  <2>2. \A c \in Live' : hostCb'[c].made /\ tbl'.slot[hostCb'[c].id] = c
    BY <1>1, <1>4, <1>6, <1>8, <1>9, <1>10, <1>13, <1>14
  <2>3. \A j \in Slots : tbl'.slot[j] # 0 => tbl'.slot[j] \in Live' /\ hostCb'[tbl'.slot[j]].id = j
    <3> TAKE j \in Slots
    <3>1. CASE j = i   BY <3>1, <1>4, <1>6, <1>8, <1>9, <1>10
    <3>2. CASE j # i   BY <3>2, <1>6, <1>9, <1>10, <1>13, <1>14
    <3>3. QED BY <3>1, <3>2
  <2>4. \A c, d \in Live' : hostCb'[c].host = hostCb'[d].host => c = d
    BY <1>8, <1>9, <1>13, <1>14
  <2>5. tbl'.slot[tbl'.pri] # 0 /\ tbl'.slot[tbl'.lastRcv] # 0 /\ tbl'.slot[tbl'.lastSnd] # 0
    BY <1>1, <1>6, <1>7, <1>10
  <2>6. QED BY <2>1, <2>2, <2>3, <2>4, <2>5 DEF HostTables
<1>16. LoopList'
  <2>1. /\ IsInjective(loopLst) /\ ToSet(loopLst) \subseteq Live
        /\ \A t \in Threads : proc[t].cb = 0 <=> proc[t].pc \in {"pop", "exit"}
        /\ \A t \in Threads : proc[t].cb # 0 => proc[t].cb \in Live
        /\ \A c \in Live : c \in ToSet(loopLst) <=> \A t \in Threads : proc[t].cb # c
        /\ \A t, u \in Threads : proc[t].cb = proc[u].cb /\ proc[t].cb # 0 => t = u
    BY DEF HostInv, LoopList
  <2>2. IsInjective(loopLst') /\ ToSet(loopLst') = ToSet(loopLst) \cup {n}
    BY <1>1, <1>3, <1>5, <2>1, AppendFacts
  <2>3. \A t \in Threads : proc[t].cb # n
    BY <1>1, <2>1
  <2>4. QED BY <1>9, <2>1, <2>2, <2>3 DEF LoopList, SameThreads
<1>17. Connections'
  BY <1>8, <1>9, <1>14 DEF HostInv, Connections
<1>18. Rounds'
  <2>1. phase' # "done" /\ passed' = [d \in Cbs |-> 0]
    OBVIOUS
  <2>2. \A j \in Slots : tbl'.slot[j] # 0 => tbl'.slot[j] \in ToSet(tbl'.main)
    BY <2>1, <1>15 DEF HostTables
  <2>3. QED BY <1>11, <2>1, <2>2, FreshRounds
<1>19. QED BY <1>12, <1>15, <1>16, <1>17, <1>18 DEF HostInv

LEMMA DstryKeeps == ASSUME HostInv, NEW t \in Threads, ThrdDstry(t) PROVE HostInv'
<1> DEFINE c == proc[t].cb
           gone == [noCb EXCEPT !.made = TRUE]
           main == RemoveAt(tbl.main, Place(tbl.main, c))
           k == hostCb[c].id
           first == IF main = << >> THEN 0 ELSE hostCb[main[1]].id
           other(id) == IF id # k THEN id ELSE first
           slots == [tbl.slot EXCEPT ![k] = 0]
<1>1. /\ proc[t].pc = "lock" /\ hostCb' = [hostCb EXCEPT ![c] = gone] /\ tbl' = DstryTbl(c)
      /\ passed' = [d \in Cbs |-> 0] /\ proc' = [proc EXCEPT ![t] = Top]
      /\ UNCHANGED <<condWait, loopLst, tick, phase, turned, hostMemErr>>
  BY DEF ThrdDstry, Holds, Return
<1>2. phase # "done" /\ phase' # "done"
  BY <1>1, Active
<1>3. /\ hostCb \in [Cbs -> CbRec] /\ tbl.main \in Seq(Cbs) /\ loopLst \in Seq(Cbs)
      /\ tbl.slot \in [Slots -> 0 .. MaxCb] /\ tbl.cnt \in Int
      /\ tbl.pri \in Slots /\ tbl.lastRcv \in Slots /\ tbl.lastSnd \in Slots
  BY Typed DEF HostInv, HostTypes, TblRec
<1>4. /\ IsInjective(tbl.main) /\ ToSet(tbl.main) = Live /\ tbl.cnt = Len(tbl.main)
      /\ \A d \in Live : hostCb[d].made /\ tbl.slot[hostCb[d].id] = d
      /\ \A j \in Slots : tbl.slot[j] # 0 => tbl.slot[j] \in Live /\ hostCb[tbl.slot[j]].id = j
      /\ \A d, e \in Live : hostCb[d].host = hostCb[e].host => d = e
      /\ tbl.main # << >> => tbl.slot[tbl.pri] # 0 /\ tbl.slot[tbl.lastRcv] # 0
                            /\ (tbl.slot[tbl.lastSnd] # 0 \/ turned)
  BY <1>2 DEF HostInv, HostTables
<1>5. /\ IsInjective(loopLst) /\ ToSet(loopLst) \subseteq Live
      /\ \A u \in Threads : proc[u].cb = 0 <=> proc[u].pc \in {"pop", "exit"}
      /\ \A u \in Threads : proc[u].cb # 0 => proc[u].cb \in Live
      /\ \A d \in Live : d \in ToSet(loopLst) <=> \A u \in Threads : proc[u].cb # d
      /\ \A u, v \in Threads : proc[u].cb = proc[v].cb /\ proc[u].cb # 0 => u = v
  BY <1>2 DEF HostInv, LoopList
<1>6. c \in Live /\ c # 0
  BY <1>1, <1>5
<1>7. \A d \in Live : d \in Cbs /\ d # 0 /\ hostCb[d].id \in Slots
  BY <1>3 DEF Live, Cbs, CbRec
<1>8. /\ proc' \in [Procs -> ProcRec] /\ proc'[t].cb = 0 /\ proc'[t].pc = "pop"
      /\ Ending' /\ Waits' /\ \A u \in Threads : u # t => proc'[u] = proc[u]
  <2>1. Top \in ProcRec /\ Top.pc = "pop" /\ Top.cb = 0
    BY Typed, TopFacts
  <2>2. QED BY <1>1, <1>2, <2>1, ThreadStep
<1>9. gone \in CbRec /\ gone.live = FALSE
  <2>1. 0 \in Slots /\ 0 \in Nat
    BY HostAssumption DEF HostAssumption, Slots
  <2>2. noCb \in CbRec /\ noCb.live = FALSE /\ TRUE \in BOOLEAN
    BY <2>1, Zenon DEF noCb, CbRec
  <2>3. gone \in CbRec /\ gone.live = FALSE
    <3> HIDE DEF noCb
    <3>1. QED BY <2>2 DEF CbRec
  <2>4. QED BY <2>3
<1>10. tbl' = [main |-> main, slot |-> slots, pri |-> other(tbl.pri), lastRcv |-> other(tbl.lastRcv),
               lastSnd |-> other(tbl.lastSnd), cnt |-> tbl.cnt - 1]
  BY <1>1 DEF DstryTbl
<1>11. main \in Seq(Cbs) /\ Len(main) = Len(tbl.main) - 1 /\ ToSet(main) = Live \ {c} /\ IsInjective(main)
  BY <1>3, <1>4, <1>6, WithoutFacts
<1>12. loopLst' = loopLst /\ hostCb' = [hostCb EXCEPT ![c] = gone] /\ \A d \in Live : d # c => d \in Cbs
  BY <1>1, <1>7
<1>13. k \in Slots /\ \A d \in Live : d # c => hostCb[d].id # k
  BY <1>4, <1>6, <1>7
<1>14. \A u \in Threads : u # t => proc[u].cb # c
  BY <1>5, <1>6
<1>15. c \notin ToSet(loopLst)
  BY <1>5, <1>6
<1> HIDE DEF c, gone, main
<1>16. hostCb' \in [Cbs -> CbRec] /\ hostCb'[c] = gone /\ \A d \in Cbs : d # c => hostCb'[d] = hostCb[d]
  BY <1>3, <1>6, <1>7, <1>9, <1>12
<1>17. Live' = Live \ {c}
  BY <1>6, <1>9, <1>16 DEF Live
<1>18. /\ slots \in [Slots -> 0 .. MaxCb] /\ slots[k] = 0
       /\ \A j \in Slots : j # k => slots[j] = tbl.slot[j]
  BY <1>3, <1>13, HostAssumption DEF HostAssumption
<1>19. main # << >> => first \in Slots /\ first # k /\ slots[first] # 0
  <2>1. ASSUME main # << >> PROVE main[1] \in Live \ {c}
    <3>1. Len(main) \in Nat /\ Len(main) # 0
      BY <1>11, <2>1, ListFacts
    <3>2. 1 \in 1 .. Len(main)
      BY <3>1
    <3>3. QED BY <3>2, <1>11, ListFacts
  <2>2. QED BY <2>1, <1>4, <1>7, <1>13, <1>18
<1>20. first \in Slots
  BY <1>19, HostAssumption DEF HostAssumption, Slots
<1>21. ASSUME NEW id \in Slots
       PROVE  /\ other(id) \in Slots
              /\ main # << >> /\ tbl.slot[id] # 0 => slots[other(id)] # 0
  <2>1. other(id) \in Slots
    BY <1>20
  <2>2. ASSUME main # << >>, tbl.slot[id] # 0 PROVE slots[other(id)] # 0
    <3>1. CASE id = k   BY <3>1, <2>2, <1>19
    <3>2. CASE id # k   BY <3>2, <2>2, <1>18
    <3>3. QED BY <3>1, <3>2
  <2>3. QED BY <2>1, <2>2
<1> DEFINE pri == other(tbl.pri)
           rcv == other(tbl.lastRcv)
           snd == other(tbl.lastSnd)
<1>22. /\ pri \in Slots /\ rcv \in Slots /\ snd \in Slots
       /\ main # << >> => slots[pri] # 0 /\ slots[rcv] # 0 /\ (slots[snd] # 0 \/ turned)
       /\ tbl' = [main |-> main, slot |-> slots, pri |-> pri, lastRcv |-> rcv, lastSnd |-> snd,
                  cnt |-> tbl.cnt - 1]
  <2>1. tbl.main # << >>
    BY <1>3, <1>4, <1>6, ListFacts
  <2> HIDE DEF main, slots, other
  <2>2. /\ pri \in Slots /\ (main # << >> => slots[pri] # 0)
        /\ rcv \in Slots /\ (main # << >> => slots[rcv] # 0)
    BY <2>1, <1>3, <1>4, <1>21
  <2>3. snd \in Slots /\ (main # << >> => slots[snd] # 0 \/ turned)
    BY <2>1, <1>3, <1>4, <1>21
  <2>4. QED BY <1>10, <2>2, <2>3
<1>23. k = hostCb[c].id
  OBVIOUS
<1> HIDE DEF k, slots, pri, rcv, snd, other, first
<1>24. /\ tbl'.main = main /\ tbl'.slot = slots /\ tbl'.pri = pri /\ tbl'.lastRcv = rcv
       /\ tbl'.lastSnd = snd /\ tbl'.cnt = tbl.cnt - 1
  BY <1>22
<1>25. tbl' \in TblRec
  <2>1. tbl.cnt - 1 \in Int
    BY <1>3
  <2>2. [main |-> main, slot |-> slots, pri |-> pri, lastRcv |-> rcv, lastSnd |-> snd,
         cnt |-> tbl.cnt - 1] \in TblRec
    BY <1>11, <1>18, <1>22, <2>1 DEF TblRec
  <2>3. QED BY <1>22, <2>2
<1>26. HostTypes'
  <2>1. passed' \in [Cbs -> Nat]
    BY <1>1
  <2>2. QED BY <1>1, <1>8, <1>16, <1>25, <2>1 DEF HostInv, HostTypes, TblRec
<1>27. HostTables'
  <2>1. IsInjective(tbl'.main) /\ ToSet(tbl'.main) = Live' /\ tbl'.cnt = Len(tbl'.main)
    BY <1>4, <1>11, <1>17, <1>24
  <2>2. \A d \in Live' : hostCb'[d].made /\ tbl'.slot[hostCb'[d].id] = d
    BY <1>4, <1>7, <1>13, <1>16, <1>17, <1>18, <1>24
  <2>3. \A j \in Slots : tbl'.slot[j] # 0 => tbl'.slot[j] \in Live' /\ hostCb'[tbl'.slot[j]].id = j
    BY <1>4, <1>7, <1>16, <1>17, <1>18, <1>23, <1>24
  <2>4. \A d, e \in Live' : hostCb'[d].host = hostCb'[e].host => d = e
    BY <1>4, <1>7, <1>16, <1>17
  <2>5. tbl'.main # << >> => tbl'.slot[tbl'.pri] # 0 /\ tbl'.slot[tbl'.lastRcv] # 0
                              /\ (tbl'.slot[tbl'.lastSnd] # 0 \/ turned')
    BY <1>1, <1>22, <1>24
  <2>6. QED BY <2>1, <2>2, <2>3, <2>4, <2>5 DEF HostTables
<1>28. LoopList'
  <2>1. IsInjective(loopLst') /\ ToSet(loopLst') \subseteq Live'
    BY <1>5, <1>12, <1>15, <1>17
  <2>2. \A u \in Threads : proc'[u].cb = 0 <=> proc'[u].pc \in {"pop", "exit"}
    BY <1>5, <1>8
  <2>3. \A u \in Threads : proc'[u].cb # 0 => proc'[u].cb \in Live'
    BY <1>5, <1>8, <1>14, <1>17
  <2>4. ASSUME NEW d \in Live' PROVE d \in ToSet(loopLst') <=> \A u \in Threads : proc'[u].cb # d
    <3>1. d \in Live /\ d # c /\ d # 0
      BY <1>7, <1>17
    <3>2. proc[t].cb # d /\ proc'[t].cb # d
      BY <3>1, <1>8 DEF c
    <3>3. (\A u \in Threads : proc[u].cb # d) <=> (\A u \in Threads : proc'[u].cb # d)
      BY <3>2, <1>8
    <3>4. QED BY <3>1, <3>3, <1>5, <1>12
  <2>5. \A u, v \in Threads : proc'[u].cb = proc'[v].cb /\ proc'[u].cb # 0 => u = v
    BY <1>5, <1>8
  <2>6. QED BY <2>1, <2>2, <2>3, <2>4, <2>5 DEF LoopList
<1>29. Connections'
  BY <1>7, <1>16, <1>17 DEF HostInv, Connections
<1>30. Rounds'
  <2>1. \A j \in Slots : tbl'.slot[j] # 0 => tbl'.slot[j] \in ToSet(tbl'.main)
    BY <1>2, <1>27 DEF HostTables
  <2>2. QED BY <1>1, <1>25, <2>1, FreshRounds
<1>31. QED BY <1>8, <1>26, <1>27, <1>28, <1>29, <1>30 DEF HostInv

(* Steps of a host thread that change neither a host nor a table.          *)
LEMMA ListStep ==
  ASSUME HostInv, phase # "done", NEW t \in Threads, NEW r \in ProcRec, proc' = [proc EXCEPT ![t] = r],
         loopLst' \in Seq(Cbs), UNCHANGED <<condWait, hostCb, tbl, tick, phase, passed, turned, hostMemErr>>,
         LoopList'
  PROVE  HostInv'
<1>1. proc' \in [Procs -> ProcRec] /\ Ending' /\ Waits'
  BY ThreadStep
<1>2. HostTypes'
  BY <1>1 DEF HostInv, HostTypes
<1>3. HostTables' /\ Connections' /\ Rounds'
  BY RoundsStay DEF HostInv, HostTables, Connections, Live
<1>4. QED BY <1>1, <1>2, <1>3 DEF HostInv

LEMMA PopKeeps == ASSUME HostInv, NEW t \in Threads, ThrdPop(t) PROVE HostInv'
<1> DEFINE cb == hostCb[loopLst[1]]
           go == cb.dstry \/ (cb.freeTmFlg /\ Overdue(proc[t].cur, cb))
           r == [At(IF go THEN "lock" ELSE "serve") EXCEPT
                   !.op = IF go THEN "dstry" ELSE None, !.cb = loopLst[1]]
<1>1. proc[t].pc = "pop" /\ UNCHANGED <<condWait, hostCb, tbl, tick, phase, passed, turned, hostMemErr>>
  BY DEF ThrdPop
<1>2. phase # "done" /\ phase' # "done"
  BY <1>1, Active
<1>3. /\ IsInjective(loopLst) /\ ToSet(loopLst) \subseteq Live /\ loopLst \in Seq(Cbs)
      /\ \A u \in Threads : proc[u].cb = 0 <=> proc[u].pc \in {"pop", "exit"}
      /\ \A u \in Threads : proc[u].cb # 0 => proc[u].cb \in Live
      /\ \A d \in Live : d \in ToSet(loopLst) <=> \A u \in Threads : proc[u].cb # d
      /\ \A u, v \in Threads : proc[u].cb = proc[v].cb /\ proc[u].cb # 0 => u = v
  BY <1>2, Typed DEF HostInv, LoopList
<1>4. Live' = Live /\ proc[t].cb = 0 /\ t \in Procs
  BY <1>1, <1>3, Distinct DEF Live
<1>5. ASSUME NEW q \in ProcRec, q.cb = 0, q.pc \in {"pop", "exit"}, proc' = [proc EXCEPT ![t] = q],
             UNCHANGED loopLst
      PROVE  HostInv'
  <2>1. proc'[t] = q /\ \A u \in Threads : u # t => proc'[u] = proc[u]
    BY <1>1, <1>2, <1>5, ThreadStep
  <2>2. \A u \in Threads : proc'[u].cb = proc[u].cb
                           /\ (proc'[u].pc \in {"pop", "exit"} <=> proc[u].pc \in {"pop", "exit"})
    BY <1>1, <1>4, <1>5, <2>1
  <2>3. LoopList'
    BY <1>2, <1>3, <1>4, <1>5, <2>2 DEF LoopList
  <2>4. QED BY <1>1, <1>2, <1>3, <1>5, <2>3, ListStep
<1>6. CASE phase = "threads" /\ proc' = [proc EXCEPT ![t] = At("exit")] /\ UNCHANGED loopLst
  BY <1>6, <1>5, AtFacts
<1>7. CASE proc' = [proc EXCEPT ![t].cur = tick] /\ UNCHANGED loopLst
  <2> DEFINE q == [proc[t] EXCEPT !.cur = tick]
  <2>1. proc' = [proc EXCEPT ![t] = q]
    BY <1>7
  <2>2. q \in ProcRec /\ q.cb = 0 /\ q.pc = "pop"
    BY <1>1, <1>4, Typed, SMTT(30) DEF ProcRec
  <2> HIDE DEF q
  <2>3. QED BY <1>5, <1>7, <2>1, <2>2
<1>8. CASE loopLst # << >> /\ proc' = [proc EXCEPT ![t] = r] /\ loopLst' = Tail(loopLst)
  <2>1. /\ Tail(loopLst) \in Seq(Cbs) /\ loopLst[1] \in ToSet(loopLst)
        /\ ToSet(Tail(loopLst)) = ToSet(loopLst) \ {loopLst[1]} /\ IsInjective(Tail(loopLst))
    BY <1>3, <1>8, TailFacts
  <2> DEFINE c == loopLst[1]
             pc == IF go THEN "lock" ELSE "serve"
             op == IF go THEN "dstry" ELSE None
  <2>2. c \in Live /\ c \in Cbs /\ c # 0 /\ c \in 0 .. MaxCb
    BY <1>3, <2>1 DEF Live, Cbs
  <2>3. r = [At(pc) EXCEPT !.op = op, !.cb = c] /\ pc \in {"lock", "serve"} /\ op \in {"dstry", None}
    OBVIOUS
  <2>4. loopLst' = Tail(loopLst) /\ ToSet(loopLst') = ToSet(loopLst) \ {c}
    BY <1>8, <2>1
  <2> HIDE DEF c, pc, op
  <2>5. r \in ProcRec /\ r.cb = c /\ r.pc \notin {"pop", "exit"}
    <3>1. At(pc) \in ProcRec
      BY <2>3, AtFacts
    <3>2. r = [At(pc) EXCEPT !.op = op, !.cb = c]
      BY <2>3
    <3>3. op \in {None, "add", "del", "setPri", "addConn", "sndHost", "rcvHost", "sndAny",
                  "sndPri", "rcvAny", "acpt", "attach", "dstry"}
      BY <2>3
    <3>4. r \in ProcRec
      BY <3>1, <3>2, <3>3, <2>2, ZenonT(60) DEF ProcRec
    <3>5. r.cb = c /\ r.pc = At(pc).pc
      BY <3>1, <3>2 DEF ProcRec
    <3>6. At(pc).pc = pc
      BY <2>3, AtFacts
    <3>7. QED BY <2>3, <3>4, <3>5, <3>6
  <2> HIDE DEF r
  <2>6. proc'[t] = r /\ \A u \in Threads : u # t => proc'[u] = proc[u]
    BY <1>1, <1>2, <1>8, <2>5, ThreadStep
  <2>7. \A u \in Threads : proc[u].cb # c
    BY <1>3, <2>1, <2>2 DEF c
  <2>8. LoopList'
    <3>1. IsInjective(loopLst') /\ ToSet(loopLst') \subseteq Live'
      BY <1>3, <1>4, <2>1, <2>4
    <3>2. \A u \in Threads : proc'[u].cb = 0 <=> proc'[u].pc \in {"pop", "exit"}
      BY <1>3, <2>2, <2>5, <2>6
    <3>3. \A u \in Threads : proc'[u].cb # 0 => proc'[u].cb \in Live'
      BY <1>3, <1>4, <2>2, <2>5, <2>6
    <3>4. ASSUME NEW d \in Live' PROVE d \in ToSet(loopLst') <=> \A u \in Threads : proc'[u].cb # d
      <4>1. CASE d = c   BY <4>1, <2>4, <2>5, <2>6
      <4>2. CASE d # c
        <5>1. d \in Live /\ d # 0
          BY <1>4 DEF Live, Cbs
        <5>2. (\A u \in Threads : proc[u].cb # d) <=> (\A u \in Threads : proc'[u].cb # d)
          BY <4>2, <5>1, <1>4, <2>5, <2>6
        <5>3. QED BY <4>2, <5>1, <5>2, <1>3, <2>4
      <4>3. QED BY <4>1, <4>2
    <3>5. \A u, v \in Threads : proc'[u].cb = proc'[v].cb /\ proc'[u].cb # 0 => u = v
      BY <1>3, <2>5, <2>6, <2>7
    <3>6. QED BY <3>1, <3>2, <3>3, <3>4, <3>5 DEF LoopList
  <2>9. loopLst' \in Seq(Cbs)
    BY <2>1, <2>4
  <2>10. QED BY <1>1, <1>2, <1>8, <2>5, <2>8, <2>9, ListStep
<1>9. QED BY <1>6, <1>7, <1>8 DEF ThrdPop, Popped

LEMMA PutKeeps == ASSUME HostInv, NEW t \in Threads, ThrdPut(t) PROVE HostInv'
<1> DEFINE c == proc[t].cb
<1>1. /\ proc[t].pc = "put" /\ loopLst' = Append(loopLst, c) /\ proc' = [proc EXCEPT ![t] = Top]
      /\ UNCHANGED <<condWait, hostCb, tbl, tick, phase, passed, turned, hostMemErr>>
  BY DEF ThrdPut
<1>2. phase # "done" /\ phase' # "done"
  BY <1>1, Active
<1>3. /\ IsInjective(loopLst) /\ ToSet(loopLst) \subseteq Live /\ loopLst \in Seq(Cbs)
      /\ \A u \in Threads : proc[u].cb = 0 <=> proc[u].pc \in {"pop", "exit"}
      /\ \A u \in Threads : proc[u].cb # 0 => proc[u].cb \in Live
      /\ \A d \in Live : d \in ToSet(loopLst) <=> \A u \in Threads : proc[u].cb # d
      /\ \A u, v \in Threads : proc[u].cb = proc[v].cb /\ proc[u].cb # 0 => u = v
  BY <1>2, Typed DEF HostInv, LoopList
<1>4. Live' = Live /\ c \in Live /\ c \in Cbs /\ c # 0 /\ c \notin ToSet(loopLst)
      /\ \A u \in Threads : u # t => proc[u].cb # c
  BY <1>1, <1>3 DEF Live
<1>5. Top \in ProcRec /\ Top.pc = "pop" /\ Top.cb = 0
  BY Typed, TopFacts
<1>6. proc'[t] = Top /\ \A u \in Threads : u # t => proc'[u] = proc[u]
  BY <1>1, <1>2, <1>5, ThreadStep
<1>7. Append(loopLst, c) \in Seq(Cbs) /\ ToSet(Append(loopLst, c)) = ToSet(loopLst) \cup {c}
      /\ IsInjective(Append(loopLst, c))
  BY <1>3, <1>4, AppendFacts
<1>8. loopLst' = Append(loopLst, c) /\ ToSet(loopLst') = ToSet(loopLst) \cup {c}
  BY <1>1, <1>7
<1>9. LoopList'
  <2>1. IsInjective(loopLst') /\ ToSet(loopLst') \subseteq Live'
    BY <1>3, <1>4, <1>7, <1>8
  <2>2. \A u \in Threads : proc'[u].cb = 0 <=> proc'[u].pc \in {"pop", "exit"}
    BY <1>3, <1>5, <1>6
  <2>3. \A u \in Threads : proc'[u].cb # 0 => proc'[u].cb \in Live'
    BY <1>3, <1>4, <1>5, <1>6
  <2>4. ASSUME NEW d \in Live' PROVE d \in ToSet(loopLst') <=> \A u \in Threads : proc'[u].cb # d
    <3>1. CASE d = c
      BY <3>1, <1>4, <1>5, <1>6, <1>8
    <3>2. CASE d # c
      <4>1. d \in Live /\ d # 0
        BY <1>4 DEF Live, Cbs
      <4>2. (\A u \in Threads : proc[u].cb # d) <=> (\A u \in Threads : proc'[u].cb # d)
        BY <3>2, <4>1, <1>5, <1>6
      <4>3. QED BY <3>2, <4>1, <4>2, <1>3, <1>8
    <3>3. QED BY <3>1, <3>2
  <2>5. \A u, v \in Threads : proc'[u].cb = proc'[v].cb /\ proc'[u].cb # 0 => u = v
    BY <1>3, <1>5, <1>6
  <2>6. QED BY <2>1, <2>2, <2>3, <2>4, <2>5 DEF LoopList
<1>10. loopLst' \in Seq(Cbs)
  BY <1>7, <1>8
<1>11. QED BY <1>1, <1>2, <1>5, <1>9, <1>10, ListStep

-----------------------------------------------------------------------------
(* The program *)

LEMMA AppKeeps ==
  ASSUME HostInv, NEW a \in Apps, phase = "run", NEW r \in ProcRec, r.cb # 0 => condWait,
         proc' = [proc EXCEPT ![a] = r], UNCHANGED <<condWait, loopLst, tick, phase>>,
         hostMemErr' = hostMemErr \/ condWait, hostCb' \in [Cbs -> CbRec], SameHosts, Connections',
         KeptOnly, passed' \in [Cbs -> Nat], Rounds'
  PROVE  HostInv'
<1>1. proc' \in [Procs -> ProcRec] /\ SameThreads /\ Ending' /\ Waits'
  BY AppStep
<1>2. tick' \in Nat /\ phase' \in {"run", "acpt", "threads", "done"} /\ phase # "done"
  BY Typed
<1>3. QED BY <1>1, <1>2, Frame

(* A call that leaves all but its own state and control blocks alone.      *)
LEMMA AppEdits ==
  ASSUME HostInv, NEW a \in Apps, phase = "run", NEW r \in ProcRec, r.cb # 0 => condWait,
         proc' = [proc EXCEPT ![a] = r],
         UNCHANGED <<condWait, loopLst, tick, phase, hostMemErr, passed, turned>>,
         hostCb' \in [Cbs -> CbRec], SameHosts, Connections',
         KeptOnly, tbl'.lastSnd = tbl.lastSnd
  PROVE  HostInv'
<1>1. Rounds'
  BY RoundsStay DEF KeptOnly
<1>2. passed' \in [Cbs -> Nat]
  BY DEF HostInv, HostTypes
<1>3. QED BY <1>1, <1>2, AppKeeps

LEMMA LockRec ==
  ASSUME NEW op \in {"add", "del", "setPri", "addConn", "sndHost", "rcvHost", "sndAny", "sndPri",
                     "rcvAny", "acpt"},
         NEW h \in Names \cup {None}, NEW key \in Keys \cup {None}
  PROVE  LET r == [At("lock") EXCEPT !.op = op, !.host = h, !.key = key]
             q == [At("lock") EXCEPT !.op = op, !.host = h]
         IN r \in ProcRec /\ r.cb = 0 /\ q \in ProcRec /\ q.cb = 0
<1> DEFINE r == [At("lock") EXCEPT !.op = op, !.host = h, !.key = key]
           q == [At("lock") EXCEPT !.op = op, !.host = h]
<1>1. At("lock") \in ProcRec /\ At("lock").cb = 0
  BY AtFacts
<1>2. op \in {None, "add", "del", "setPri", "addConn", "sndHost", "rcvHost", "sndAny",
              "sndPri", "rcvAny", "acpt", "attach", "dstry"}
  OBVIOUS
<1>3. r \in ProcRec /\ q \in ProcRec
  BY <1>1, <1>2, ZenonT(60) DEF ProcRec
<1>4. r.cb = 0 /\ q.cb = 0
  BY <1>1 DEF ProcRec
<1>5. QED BY <1>3, <1>4

LEMMA PcRec ==
  ASSUME HostInv, NEW p \in Procs, NEW pc \in {"lock", "relock", "reset", "wait", "put"}
  PROVE  LET r == [proc[p] EXCEPT !.pc = pc] IN r \in ProcRec /\ r.cb = proc[p].cb /\ r.pc = pc
<1>1. proc[p] \in ProcRec
  BY Typed
<1>2. QED BY <1>1 DEF ProcRec

LEMMA AppIdle ==
  ASSUME NEW a \in Apps
  PROVE  /\ Return(a) => proc' = [proc EXCEPT ![a] = At("idle")]
         /\ At("idle") \in ProcRec /\ At("idle").cb = 0
BY Distinct, AtFacts DEF Return

LEMMA CallKeeps ==
  ASSUME HostInv, NEW a \in Apps, NEW h \in Names \cup {None},
         NEW op \in {"add", "del", "setPri", "addConn", "sndHost", "rcvHost", "sndAny", "sndPri", "rcvAny"},
         Call(a, op, h)
  PROVE  HostInv'
<1> DEFINE r == [At("lock") EXCEPT !.op = op, !.host = h]
<1>1. /\ phase = "run" /\ proc' = [proc EXCEPT ![a] = r]
      /\ UNCHANGED <<condWait, hostCb, tbl, loopLst, tick, phase, passed, turned, hostMemErr>>
  BY DEF Call
<1>2. r \in ProcRec /\ r.cb = 0
  <2>1. None \in Keys \cup {None}
    OBVIOUS
  <2>2. op \in {"add", "del", "setPri", "addConn", "sndHost", "rcvHost", "sndAny", "sndPri",
                "rcvAny", "acpt"}
    OBVIOUS
  <2>3. QED BY <2>1, <2>2, LockRec
<1>3. hostCb' \in [Cbs -> CbRec] /\ SameHosts /\ Connections' /\ KeptOnly
  BY <1>1, CbsStay, TblStays
<1> HIDE DEF r
<1>4. QED BY <1>1, <1>2, <1>3, AppEdits

LEMMA MakeCbFacts ==
  ASSUME FreeSlots # {}, NEW h \in Names \cup {None}, NEW key \in Keys \cup {None}, NEW enb \in BOOLEAN
  PROVE  LET r == MakeCb(h, key, enb)
         IN /\ r \in CbRec /\ r.made /\ r.live /\ r.host = h /\ r.id = FirstFree /\ Counted(r)
<1> DEFINE r == MakeCb(h, key, enb)
           i == FirstFree
<1>1. i \in Slots
  BY FirstFreeFacts
<1>2. r = [noCb EXCEPT !.made = TRUE, !.live = TRUE, !.host = h, !.id = i, !.key = key, !.enb = enb]
  BY DEF MakeCb
<1> HIDE DEF i
<1>3. noCb \in CbRec /\ noCb.acc = 0 /\ noCb.open = 0 /\ noCb.dst = None /\ noCb.freeTmFlg = FALSE
  <2>1. 0 \in Slots /\ 0 \in Nat
    BY HostAssumption DEF HostAssumption, Slots
  <2>2. QED BY <2>1, Zenon DEF noCb, CbRec
<1> HIDE DEF r
<1>4. r \in CbRec
  <2>1. TRUE \in BOOLEAN
    OBVIOUS
  <2> HIDE DEF noCb
  <2>2. [noCb EXCEPT !.made = TRUE, !.live = TRUE, !.host = h, !.id = i, !.key = key, !.enb = enb] \in CbRec
    BY <1>1, <1>3, <2>1, Zenon DEF CbRec
  <2>3. QED BY <1>2, <2>2
<1>5. r.made = TRUE /\ r.live = TRUE /\ r.host = h /\ r.id = i /\ r.acc = 0 /\ r.open = 0
      /\ r.dst = None /\ r.freeTmFlg = FALSE
  BY <1>2 DEF noCb
<1>6. Counted(r)
  BY <1>5 DEF Counted, Linked, None
<1>7. QED BY <1>4, <1>5, <1>6 DEF r, i

LEMMA AddKeeps == ASSUME HostInv, NEW a \in Apps, AddHost(a) PROVE HostInv'
<1> DEFINE h == proc[a].host
           known == [proc[a] EXCEPT !.pc = "relock"]
<1>1. /\ phase = "run" /\ a \in Procs /\ h \in Names \cup {None}
      /\ UNCHANGED <<condWait, tick, phase, hostMemErr>>
  BY Active, Typed, Distinct DEF AddHost, Holds, ProcRec
<1>2. CASE proc' = [proc EXCEPT ![a].pc = "relock"] /\ UNCHANGED <<hostCb, tbl, loopLst, passed, turned>>
  <2>1. proc' = [proc EXCEPT ![a] = known]
    BY <1>2
  <2>2. known \in ProcRec /\ known.cb = proc[a].cb
    BY <1>1, PcRec
  <2>3. known.cb # 0 => condWait
    BY <2>2 DEF HostInv, Waits
  <2>4. hostCb' \in [Cbs -> CbRec] /\ SameHosts /\ Connections' /\ KeptOnly
    BY <1>2, CbsStay, TblStays
  <2> HIDE DEF known
  <2>5. QED BY <1>1, <1>2, <2>1, <2>2, <2>3, <2>4, AppEdits
<1>3. CASE Return(a) /\ UNCHANGED <<hostCb, tbl, loopLst, passed, turned>>
  <2>1. hostCb' \in [Cbs -> CbRec] /\ SameHosts /\ Connections' /\ KeptOnly
    BY <1>3, CbsStay, TblStays
  <2>2. QED BY <1>1, <1>3, <2>1, AppIdle, AppEdits
<1>4. ASSUME NEW enb \in BOOLEAN,
             Find(h) = 0 /\ FreeSlots # {} /\ NewCbs # {} /\ Return(a),
             hostCb' = [hostCb EXCEPT ![NewCb] = MakeCb(h, None, enb)], tbl' = MakeTbl(NewCb),
             loopLst' = Append(loopLst, NewCb), passed' = [c \in Cbs |-> 0], turned' = FALSE
      PROVE  HostInv'
  <2> DEFINE r == MakeCb(h, None, enb)
  <2>1. /\ r \in CbRec /\ r.made /\ r.live /\ r.host = h /\ r.id = FirstFree /\ Counted(r)
    BY <1>1, <1>4, MakeCbFacts
  <2>2. proc' \in [Procs -> ProcRec] /\ SameThreads /\ Ending' /\ Waits'
    BY <1>1, <1>4, AppIdle, AppStep
  <2>3. hostCb' = [hostCb EXCEPT ![NewCb] = r] /\ Find(r.host) = 0 /\ phase # "done"
    BY <1>1, <1>4, <2>1
  <2> HIDE DEF r
  <2>4. QED BY <1>1, <1>4, <2>1, <2>2, <2>3, MakeKeeps
<1>5. QED BY <1>2, <1>3, <1>4 DEF AddHost

LEMMA DelKeeps == ASSUME HostInv, NEW a \in Apps, DelHost(a) PROVE HostInv'
<1> DEFINE c == Find(proc[a].host)
           r == [hostCb[c] EXCEPT !.ctrl = @ + 1, !.asked = TRUE]
<1>1. /\ phase = "run" /\ Return(a)
      /\ hostCb' = IF c = 0 THEN hostCb ELSE [hostCb EXCEPT ![c].ctrl = @ + 1, ![c].asked = TRUE]
      /\ UNCHANGED <<condWait, tbl, loopLst, tick, phase, passed, turned, hostMemErr>>
  BY Active DEF DelHost, Holds
<1>2. hostCb' \in [Cbs -> CbRec] /\ SameHosts /\ Connections'
  <2>1. CASE c = 0   BY <1>1, <2>1, CbsStay
  <2>2. CASE c # 0
    <3>1. c \in Cbs /\ hostCb[c] \in CbRec
      BY <1>1, <2>2, FindFacts, Typed
    <3>2. Edited(hostCb[c], r)
      BY <3>1, AskEdited
    <3>3. hostCb' = [hostCb EXCEPT ![c] = r]
      <4>1. hostCb' = [hostCb EXCEPT ![c].ctrl = @ + 1, ![c].asked = TRUE]
        BY <1>1, <2>2
      <4>2. hostCb = [d \in Cbs |-> hostCb[d]]
        BY DEF HostInv, HostTypes
      <4>3. QED BY <4>1, <4>2, <3>1
    <3> HIDE DEF c, r
    <3>4. QED BY <3>1, <3>2, <3>3, CbStep
  <2>3. QED BY <2>1, <2>2
<1>3. KeptOnly
  BY <1>1, TblStays
<1>4. QED BY <1>1, <1>2, <1>3, AppIdle, AppEdits

LEMMA SetPriKeeps == ASSUME HostInv, NEW a \in Apps, SetPriHost(a) PROVE HostInv'
<1> DEFINE c == Find(proc[a].host)
           t == [tbl EXCEPT !.pri = hostCb[c].id]
<1>1. /\ phase = "run" /\ Return(a) /\ tbl' = IF c = 0 THEN tbl ELSE t
      /\ UNCHANGED <<condWait, hostCb, loopLst, tick, phase, passed, turned, hostMemErr>>
  BY Active DEF SetPriHost, Holds
<1>2. hostCb' \in [Cbs -> CbRec] /\ SameHosts /\ Connections'
  BY <1>1, CbsStay
<1>3. KeptOnly /\ tbl'.lastSnd = tbl.lastSnd
  <2>1. CASE c = 0   BY <1>1, <2>1, TblStays
  <2>2. CASE c # 0
    <3>1. c \in Live /\ ToSet(tbl.main) = Live
      BY <1>1, <2>2, FindFacts DEF HostInv, HostTables
    <3>2. tbl \in TblRec /\ tbl.main # << >>
      BY <3>1, Typed, ListFacts
    <3>3. hostCb[c].id \in Slots /\ tbl.slot[hostCb[c].id] = c /\ c # 0
      BY <1>1, <3>1, <3>2, KeptFacts
    <3>4. tbl' = t
      BY <1>1, <2>2
    <3> HIDE DEF c
    <3>5. tbl' \in TblRec /\ tbl'.main = tbl.main /\ tbl'.slot = tbl.slot /\ tbl'.cnt = tbl.cnt
          /\ tbl'.pri = hostCb[c].id /\ tbl'.lastRcv = tbl.lastRcv /\ tbl'.lastSnd = tbl.lastSnd
      BY <3>2, <3>3, <3>4 DEF TblRec
    <3>6. tbl.slot[tbl.lastRcv] # 0 /\ (tbl.slot[tbl.lastSnd] # 0 \/ turned) /\ turned' = turned
      BY <1>1, <3>2 DEF HostInv, HostTables
    <3>7. QED BY <3>3, <3>5, <3>6 DEF KeptOnly
  <2>3. QED BY <2>1, <2>2
<1>4. QED BY <1>1, <1>2, <1>3, AppIdle, AppEdits

LEMMA AddConnKeeps == ASSUME HostInv, NEW a \in Apps, AddConn(a) PROVE HostInv'
<1> DEFINE c == Find(proc[a].host)
           r == [hostCb[c] EXCEPT !.dst = "closed"]
<1>1. /\ phase = "run" /\ Return(a)
      /\ hostCb' = IF c = 0 \/ hostCb[c].dst # None THEN hostCb ELSE [hostCb EXCEPT ![c].dst = "closed"]
      /\ UNCHANGED <<condWait, tbl, loopLst, tick, phase, passed, turned, hostMemErr>>
  BY Active DEF AddConn, Holds
<1>2. hostCb' \in [Cbs -> CbRec] /\ SameHosts /\ Connections'
  <2>1. CASE c = 0 \/ hostCb[c].dst # None   BY <1>1, <2>1, CbsStay
  <2>2. CASE ~(c = 0 \/ hostCb[c].dst # None)
    <3>1. c \in Cbs /\ hostCb[c] \in CbRec
      BY <1>1, <2>2, FindFacts, Typed
    <3>2. Edited(hostCb[c], r)
      BY <2>2, <3>1, DstEdited
    <3>3. hostCb' = [hostCb EXCEPT ![c] = r]
      BY <1>1, <2>2
    <3> HIDE DEF c, r
    <3>4. QED BY <3>1, <3>2, <3>3, CbStep
  <2>3. QED BY <2>1, <2>2
<1>3. KeptOnly
  BY <1>1, TblStays
<1>4. QED BY <1>1, <1>2, <1>3, AppIdle, AppEdits

-----------------------------------------------------------------------------
(* Sends and receives *)

LEMMA PushKeeps ==
  ASSUME HostInv, NEW c \in Cbs \cup {0}, hostCb' = Push(c)
  PROVE  hostCb' \in [Cbs -> CbRec] /\ SameHosts /\ Connections'
<1>1. CASE c = 0
  BY <1>1, CbsStay DEF Push
<1>2. CASE c # 0
  <2> DEFINE r == [hostCb[c] EXCEPT !.snd = @ + 1]
  <2>1. c \in Cbs /\ hostCb[c] \in CbRec
    BY <1>2, Typed
  <2>2. Edited(hostCb[c], r) /\ hostCb' = [hostCb EXCEPT ![c] = r]
    BY <1>2, <2>1, SndEdited DEF Push
  <2> HIDE DEF r
  <2>3. QED BY <2>1, <2>2, CbStep
<1>3. QED BY <1>1, <1>2

(* The id of a host may be kept as one of the last ids. *)
LEMMA KeepId ==
  ASSUME HostInv, phase # "done", tbl.main # << >>, NEW c \in ToSet(tbl.main),
         \/ tbl' = [tbl EXCEPT !.lastSnd = hostCb[c].id]
         \/ tbl' = [tbl EXCEPT !.lastRcv = hostCb[c].id] /\ UNCHANGED turned
  PROVE  KeptOnly
<1>1. tbl \in TblRec
  BY Typed
<1>2. hostCb[c].id \in Slots /\ tbl.slot[hostCb[c].id] # 0
  BY KeptFacts
<1>3. /\ tbl' \in TblRec /\ tbl'.main = tbl.main /\ tbl'.slot = tbl.slot /\ tbl'.cnt = tbl.cnt
      /\ tbl'.pri = tbl.pri /\ tbl'.lastRcv \in {tbl.lastRcv, hostCb[c].id}
      /\ tbl'.lastSnd = hostCb[c].id \/ (tbl'.lastSnd = tbl.lastSnd /\ turned' = turned)
  BY <1>1, <1>2 DEF TblRec
<1>4. tbl.slot[tbl.pri] # 0 /\ tbl.slot[tbl.lastRcv] # 0 /\ (tbl.slot[tbl.lastSnd] # 0 \/ turned)
  BY DEF HostInv, HostTables
<1>5. QED BY <1>2, <1>3, <1>4 DEF KeptOnly

(* A ready host that does not get the message is not the one at the start, *)
(* and the next start is one place nearer to it.                           *)
LEMMA SendGoesOn ==
  ASSUME HostInv, phase = "run", UNCHANGED phase, tbl.main # << >>,
         tbl' = [tbl EXCEPT !.lastSnd = hostCb[NextSnd(Kept(tbl.lastSnd))].id],
         passed' = [c \in Cbs |-> IF c = Route(Kept(tbl.lastSnd)) \/ c \notin ToSet(tbl.main) \/ ~Ready(c)
                                    THEN 0 ELSE passed[c] + 1]
  PROVE  Rounds'
<1> DEFINE st == Kept(tbl.lastSnd)
           next == NextHost(tbl.main, st)
           n == Len(tbl.main)
<1>1. /\ tbl \in TblRec /\ tbl.main \in Seq(Cbs) /\ IsInjective(tbl.main) /\ passed \in [Cbs -> Nat]
      /\ n \in Nat /\ DOMAIN tbl.main = 1 .. n
  BY Typed, AheadFacts DEF HostInv, HostTypes, HostTables
<1>2. st \in ToSet(tbl.main)
  BY KeptFacts
<1>3. next \in ToSet(tbl.main) /\ Place(tbl.main, next) = IF Start = n THEN 1 ELSE Start + 1
  BY <1>1, <1>2, NextFacts, NextPlace DEF Start
<1>4. hostCb[next].id \in Slots /\ tbl.slot[hostCb[next].id] = next /\ next # 0
  BY <1>3, KeptFacts
<1>5. tbl'.main = tbl.main /\ tbl'.slot = tbl.slot /\ tbl'.lastSnd = hostCb[next].id
  BY <1>1 DEF NextSnd, TblRec
<1>6. Start' = Place(tbl.main, next)
  <2>1. Kept(tbl.lastSnd)' = next
    BY <1>4, <1>5 DEF Kept
  <2>2. Start' = Place(tbl'.main, Kept(tbl.lastSnd)')
    BY DEF Start
  <2>3. QED BY <2>1, <2>2, <1>5
<1>7. Start \in 1 .. n
  BY AheadFacts
<1>8. Start' = IF Start = n THEN 1 ELSE Start + 1
  BY <1>3, <1>6
<1>9. tbl.main[Start] = st
  BY <1>1, <1>2, PlaceFacts DEF Start
<1>10. Ready(st) => Route(st) = st
  BY <1>1, <1>2, RouteFacts
<1> HIDE DEF st, next, n
<1>11. ASSUME NEW j \in 1 .. n
       PROVE  /\ Ahead(j)' \in 0 .. n - 1 /\ passed'[tbl.main[j]] \in Nat
              /\ passed'[tbl.main[j]] + Ahead(j)' < n
  <2> DEFINE c == tbl.main[j]
  <2>1. c \in Cbs /\ c \in ToSet(tbl.main)
    BY <1>1, ListFacts
  <2>2. passed[c] \in Nat /\ passed[c] + Ahead(j) < n
    BY <1>1, <2>1 DEF HostInv, Rounds, n
  <2>3. /\ Ahead(j) = IF Start <= j THEN j - Start ELSE j - Start + n
        /\ Ahead(j)' = IF Start' <= j THEN j - Start' ELSE j - Start' + n
    BY <1>5 DEF Ahead, n
  <2>4. Ahead(j)' \in 0 .. n - 1
    BY <2>3, <1>1, <1>7, <1>8, SMTT(30)
  <2>5. CASE c = Route(st) \/ ~Ready(c)
    <3>1. passed'[c] = 0
      BY <2>1, <2>5 DEF st
    <3>2. QED BY <3>1, <2>4, <1>1
  <2>6. CASE ~(c = Route(st) \/ ~Ready(c))
    <3>1. passed'[c] = passed[c] + 1
      BY <2>1, <2>6 DEF st
    <3>2. j # Start
      BY <2>6, <1>9, <1>10
    <3>3. Ahead(j)' = Ahead(j) - 1
      BY <3>2, <2>3, <1>1, <1>7, <1>8
    <3>4. Ahead(j) \in Int
      BY <2>3, <1>1, <1>7
    <3>5. passed'[c] \in Nat /\ passed'[c] + Ahead(j)' < n
      <4> HIDE DEF c
      <4>1. QED BY <3>1, <3>3, <3>4, <2>2, <2>4
    <3>6. QED BY <3>5, <2>4
  <2>7. QED BY <2>5, <2>6
<1>12. ASSUME NEW c \in ToSet(tbl.main) PROVE passed'[c] < n
  <2>1. PICK j \in 1 .. n : tbl.main[j] = c
    BY <1>1, ListFacts DEF n
  <2>2. /\ Ahead(j)' \in 0 .. n - 1 /\ passed'[tbl.main[j]] \in Nat
        /\ passed'[tbl.main[j]] + Ahead(j)' < n
    BY <1>11
  <2>3. QED BY <2>1, <2>2, <1>1
<1>13. RoundRobin'
  BY <1>5, <1>12 DEF RoundRobin, n
<1>14. \A j \in DOMAIN tbl'.main : passed'[tbl'.main[j]] + Ahead(j)' < Len(tbl'.main)
  BY <1>1, <1>5, <1>11 DEF n
<1>15. QED BY <1>13, <1>14 DEF Rounds

LEMMA SndAnyKeeps == ASSUME HostInv, NEW a \in Apps, SndAny(a) PROVE HostInv'
<1>1. phase = "run" /\ a \in Procs /\ UNCHANGED <<condWait, loopLst, tick, phase, hostMemErr>>
  BY Active, Distinct DEF SndAny, Holds
<1>2. CASE tbl.main = << >>
  <2> DEFINE r == [proc[a] EXCEPT !.pc = "reset"]
  <2>1. proc' = [proc EXCEPT ![a].pc = "reset"] /\ UNCHANGED <<hostCb, tbl, passed, turned>>
    BY <1>2 DEF SndAny
  <2>2. proc' = [proc EXCEPT ![a] = r] /\ r \in ProcRec /\ r.cb = proc[a].cb
    BY <1>1, <2>1, PcRec
  <2>3. r.cb # 0 => condWait
    BY <2>2 DEF HostInv, Waits
  <2>4. hostCb' \in [Cbs -> CbRec] /\ SameHosts /\ Connections' /\ KeptOnly
    BY <2>1, CbsStay, TblStays
  <2> HIDE DEF r
  <2>5. QED BY <1>1, <2>1, <2>2, <2>3, <2>4, AppEdits
<1>3. CASE tbl.main # << >>
  <2> DEFINE st == Kept(tbl.lastSnd)
             to == Route(st)
             next == NextHost(tbl.main, st)
  <2>1. /\ hostCb' = Push(to)
        /\ tbl' = [tbl EXCEPT !.lastSnd = hostCb[NextSnd(st)].id]
        /\ passed' = [c \in Cbs |-> IF c = to \/ c \notin ToSet(tbl.main) \/ ~Ready(c)
                                      THEN 0 ELSE passed[c] + 1]
        /\ Return(a)
    BY <1>3 DEF SndAny
  <2>2. phase # "done" /\ tbl.main \in Seq(Cbs) /\ st \in ToSet(tbl.main)
    BY <1>1, <1>3, KeptFacts, Typed
  <2>3. to \in Cbs \cup {0} /\ next \in ToSet(tbl.main)
    BY <1>1, <1>3, <2>2, RouteFacts, NextFacts, KeptFacts
  <2>4. Rounds'
    BY <1>1, <1>3, <2>1, SendGoesOn
  <2>5. tbl' = [tbl EXCEPT !.lastSnd = hostCb[next].id]
    BY <2>1 DEF NextSnd
  <2>6. passed' \in [Cbs -> Nat]
    <3>1. passed \in [Cbs -> Nat]
      BY DEF HostInv, HostTypes
    <3> HIDE DEF to
    <3>2. QED BY <3>1, <2>1
  <2> HIDE DEF to, next, st
  <2>7. KeptOnly
    BY <1>3, <2>2, <2>3, <2>5, KeepId
  <2>8. hostCb' \in [Cbs -> CbRec] /\ SameHosts /\ Connections'
    BY <2>1, <2>3, PushKeeps
  <2>9. QED BY <1>1, <2>1, <2>4, <2>6, <2>7, <2>8, AppIdle, AppKeeps
<1>4. QED BY <1>2, <1>3

(* The round starts anew, whatever hosts there are.                        *)
LEMMA SndResetKeeps == ASSUME HostInv, NEW a \in Apps, SndReset(a) PROVE HostInv'
<1>1. /\ phase = "run" /\ proc' = [proc EXCEPT ![a] = At("idle")] /\ turned' = TRUE
      /\ tbl' = [tbl EXCEPT !.lastSnd = 0] /\ passed' = [c \in Cbs |-> 0]
      /\ UNCHANGED <<condWait, hostCb, loopLst, tick, phase, hostMemErr>>
  BY Active DEF SndReset
<1>2. tbl \in TblRec /\ 0 \in Slots
  BY Typed, HostAssumption DEF HostAssumption, Slots
<1>3. /\ tbl' \in TblRec /\ tbl'.main = tbl.main /\ tbl'.slot = tbl.slot /\ tbl'.cnt = tbl.cnt
      /\ tbl'.pri = tbl.pri /\ tbl'.lastRcv = tbl.lastRcv
  BY <1>1, <1>2 DEF TblRec
<1>4. KeptOnly
  <2>1. tbl.main # << >> => tbl.slot[tbl.pri] # 0 /\ tbl.slot[tbl.lastRcv] # 0
    BY <1>1 DEF HostInv, HostTables
  <2>2. QED BY <1>1, <1>3, <2>1 DEF KeptOnly
<1>5. hostCb' \in [Cbs -> CbRec] /\ SameHosts /\ Connections'
  BY <1>1, CbsStay
<1>6. passed' \in [Cbs -> Nat]
  BY <1>1
<1>7. Rounds'
  <2>1. \A i \in Slots : tbl.slot[i] # 0 => tbl.slot[i] \in ToSet(tbl.main)
    BY <1>1 DEF HostInv, HostTables
  <2>2. \A i \in Slots : tbl'.slot[i] # 0 => tbl'.slot[i] \in ToSet(tbl'.main)
    BY <1>3, <2>1
  <2>3. QED BY <1>1, <1>3, <2>2, FreshRounds
<1>8. QED BY <1>1, <1>4, <1>5, <1>6, <1>7, AppIdle, AppKeeps

LEMMA SndPriKeeps == ASSUME HostInv, NEW a \in Apps, NEW faFlg, SndPri(a, faFlg) PROVE HostInv'
<1>1. /\ phase = "run" /\ Return(a)
      /\ UNCHANGED <<condWait, tbl, loopLst, tick, phase, passed, turned, hostMemErr>>
  BY Active DEF SndPri, Holds
<1>2. hostCb' \in [Cbs -> CbRec] /\ SameHosts /\ Connections'
  <2>1. CASE tbl.main = << >>
    BY <2>1, CbsStay DEF SndPri
  <2>2. CASE tbl.main # << >>
    <3> DEFINE st == Kept(tbl.pri)
               to == IF faFlg THEN Route(st) ELSE IF Room(st) THEN st ELSE 0
    <3>1. hostCb' = Push(to)
      BY <2>2 DEF SndPri
    <3>2. tbl.main \in Seq(Cbs) /\ st \in ToSet(tbl.main) /\ st \in Cbs
      BY <1>1, <2>2, KeptFacts, Typed
    <3>3. Route(st) \in Cbs \cup {0}
      BY <1>1, <2>2, <3>2, RouteFacts, KeptFacts
    <3>4. to \in Cbs \cup {0}
      BY <3>2, <3>3
    <3> HIDE DEF to
    <3>5. QED BY <3>1, <3>4, PushKeeps
  <2>3. QED BY <2>1, <2>2
<1>3. KeptOnly
  BY <1>1, TblStays
<1>4. QED BY <1>1, <1>2, <1>3, AppIdle, AppEdits

LEMMA SndHostKeeps == ASSUME HostInv, NEW a \in Apps, NEW bufOk, SndHost(a, bufOk) PROVE HostInv'
<1> DEFINE c == Find(proc[a].host)
           to == IF c # 0 /\ Room(c) THEN c ELSE 0
<1>1. /\ phase = "run" /\ UNCHANGED <<condWait, tbl, loopLst, tick, phase, passed, turned, hostMemErr>>
  BY Active DEF SndHost, Holds
<1>2. proc' = [proc EXCEPT ![a] = At("idle")]
  BY AppIdle DEF SndHost
<1>3. hostCb' \in [Cbs -> CbRec] /\ SameHosts /\ Connections'
  <2>1. CASE hostCb' = hostCb
    BY <2>1, CbsStay
  <2>2. CASE hostCb' = Push(to)
    <3>1. to \in Cbs \cup {0}
      BY <1>1, FindFacts
    <3> HIDE DEF to
    <3>2. QED BY <2>2, <3>1, PushKeeps
  <2>3. QED BY <2>1, <2>2 DEF SndHost
<1>4. KeptOnly
  BY <1>1, TblStays
<1>5. QED BY <1>1, <1>2, <1>3, <1>4, AppIdle, AppEdits

(* A message is taken from the queue of a host. *)
LEMMA TakeKeeps ==
  ASSUME HostInv, NEW c \in Cbs, hostCb[c].rcv > 0, hostCb' = [hostCb EXCEPT ![c].rcv = @ - 1]
  PROVE  hostCb' \in [Cbs -> CbRec] /\ SameHosts /\ Connections'
<1> DEFINE r == [hostCb[c] EXCEPT !.rcv = @ - 1]
<1>1. Edited(hostCb[c], r) /\ hostCb' = [hostCb EXCEPT ![c] = r]
  BY Typed, RcvEdited
<1> HIDE DEF r
<1>2. QED BY <1>1, CbStep

LEMMA RcvAnyKeeps == ASSUME HostInv, NEW a \in Apps, RcvAny(a) PROVE HostInv'
<1>1. /\ phase = "run" /\ phase # "done" /\ a \in Procs
      /\ UNCHANGED <<condWait, loopLst, tick, phase, passed, turned, hostMemErr>>
  BY Active, Distinct DEF RcvAny, Receives, Holds
<1>2. CASE tbl.main = << >>
  <2>1. Return(a) /\ UNCHANGED <<hostCb, tbl>>
    BY <1>2 DEF RcvAny
  <2>2. hostCb' \in [Cbs -> CbRec] /\ SameHosts /\ Connections' /\ KeptOnly
    BY <1>1, <2>1, CbsStay, TblStays
  <2>3. QED BY <1>1, <2>1, <2>2, AppIdle, AppEdits
<1>3. CASE tbl.main # << >>
  <2> DEFINE ring == From(Kept(tbl.lastRcv))
             some == {i \in DOMAIN ring : hostCb[ring[i]].rcv > 0}
             end  == ring[(MaxHostCnt % Len(ring)) + 1]
             first == CHOOSE i \in some : \A j \in some : i =< j
             got  == ring[first]
  <2>1. tbl \in TblRec /\ tbl.main \in Seq(Cbs) /\ Kept(tbl.lastRcv) \in ToSet(tbl.main)
        /\ Len(tbl.main) \in Nat /\ Len(tbl.main) # 0
    BY <1>1, <1>3, KeptFacts, Typed, ListFacts
  <2>2. /\ DOMAIN ring = 1 .. Len(tbl.main) /\ Len(ring) = Len(tbl.main)
        /\ \A i \in DOMAIN ring : ring[i] \in ToSet(tbl.main)
    BY <2>1, RingFacts
  <2>3. \/ /\ some # {} /\ hostCb' = [hostCb EXCEPT ![got].rcv = @ - 1]
           /\ tbl' = [tbl EXCEPT !.lastRcv = hostCb[NextHost(tbl.main, got)].id] /\ Return(a)
        \/ /\ condWait /\ proc' = [proc EXCEPT ![a].pc = "wait", ![a].cb = end]
           /\ UNCHANGED <<hostCb, tbl>>
        \/ /\ tbl' = [tbl EXCEPT !.lastRcv = hostCb[NextHost(tbl.main, end)].id] /\ Return(a)
           /\ UNCHANGED hostCb
    BY <1>3, Zenon DEF RcvAny
  <2> HIDE DEF ring
  <2>4. end \in ToSet(tbl.main)
    <3> DEFINE n == Len(tbl.main)
    <3>1. n \in Nat /\ n > 0 /\ MaxHostCnt \in Int
      BY <2>1, HostAssumption DEF HostAssumption
    <3> HIDE DEF n
    <3>2. (MaxHostCnt % n) + 1 \in 1 .. n
      BY <3>1
    <3>3. (MaxHostCnt % Len(ring)) + 1 \in 1 .. Len(ring)
      BY <3>2, <2>2 DEF n
    <3>4. QED BY <3>3, <2>2
  <2>5. some # {} => got \in ToSet(tbl.main) /\ hostCb[got].rcv > 0
    <3>1. some \subseteq Nat /\ \A i \in some : ring[i] \in ToSet(tbl.main) /\ hostCb[ring[i]].rcv > 0
      BY <2>2
    <3> HIDE DEF some
    <3>2. ASSUME some # {} PROVE first \in some
      <4>1. \E i \in some : \A j \in some : i =< j
        BY <3>1, <3>2, LeastFacts
      <4>2. QED BY <4>1
    <3>3. QED BY <3>1, <3>2
  <2> HIDE DEF some, end, got
  <2>6. \A c \in ToSet(tbl.main) : c \in Cbs
    BY <1>1, <1>3, KeptFacts
  <2>7. ASSUME NEW c \in ToSet(tbl.main), Return(a),
               tbl' = [tbl EXCEPT !.lastRcv = hostCb[NextHost(tbl.main, c)].id],
               hostCb' \in [Cbs -> CbRec], SameHosts, Connections'
        PROVE  HostInv'
    <3>1. NextHost(tbl.main, c) \in ToSet(tbl.main)
      BY <2>1, NextFacts
    <3>2. KeptOnly
      BY <1>1, <1>3, <2>7, <3>1, KeepId
    <3>3. tbl'.lastSnd = tbl.lastSnd
      BY <2>1, <2>7 DEF TblRec
    <3>4. QED BY <1>1, <2>7, <3>2, <3>3, AppIdle, AppEdits
  <2>8. CASE /\ some # {} /\ hostCb' = [hostCb EXCEPT ![got].rcv = @ - 1]
             /\ tbl' = [tbl EXCEPT !.lastRcv = hostCb[NextHost(tbl.main, got)].id] /\ Return(a)
    <3>1. got \in Cbs /\ hostCb[got].rcv > 0 /\ got \in ToSet(tbl.main)
      BY <2>5, <2>6, <2>8
    <3>2. hostCb' \in [Cbs -> CbRec] /\ SameHosts /\ Connections'
      BY <2>8, <3>1, TakeKeeps
    <3>3. QED BY <2>7, <2>8, <3>1, <3>2
  <2>9. CASE /\ condWait /\ proc' = [proc EXCEPT ![a].pc = "wait", ![a].cb = end]
             /\ UNCHANGED <<hostCb, tbl>>
    <3> DEFINE r == [[proc[a] EXCEPT !.pc = "wait"] EXCEPT !.cb = end]
    <3>1. r \in ProcRec
      <4>1. [proc[a] EXCEPT !.pc = "wait"] \in ProcRec
        BY <1>1, PcRec
      <4>2. end \in 0 .. MaxCb
        BY <2>4, <2>6 DEF Cbs
      <4>3. QED BY <4>1, <4>2 DEF ProcRec
    <3>2. proc' = [proc EXCEPT ![a] = r]
      <4>1. proc = [p \in Procs |-> proc[p]]
        BY DEF HostInv, HostTypes
      <4>2. QED BY <4>1, <2>9, <1>1
    <3>3. hostCb' \in [Cbs -> CbRec] /\ SameHosts /\ Connections' /\ KeptOnly
      BY <1>1, <2>9, CbsStay, TblStays
    <3> HIDE DEF r
    <3>4. QED BY <1>1, <2>9, <3>1, <3>2, <3>3, AppEdits
  <2>10. CASE /\ tbl' = [tbl EXCEPT !.lastRcv = hostCb[NextHost(tbl.main, end)].id] /\ Return(a)
              /\ UNCHANGED hostCb
    BY <2>4, <2>7, <2>10, CbsStay
  <2>11. QED BY <2>3, <2>8, <2>9, <2>10
<1>4. QED BY <1>2, <1>3

LEMMA RcvHostKeeps == ASSUME HostInv, NEW a \in Apps, RcvHost(a) PROVE HostInv'
<1> DEFINE c == Find(proc[a].host)
           r == [proc[a] EXCEPT !.pc = "wait"]
<1>1. /\ phase = "run" /\ a \in Procs
      /\ UNCHANGED <<condWait, tbl, loopLst, tick, phase, passed, turned, hostMemErr>>
  BY Active, Distinct DEF RcvHost, Receives, Holds
<1>2. KeptOnly
  BY <1>1, TblStays
<1>3. \/ c # 0 /\ hostCb[c].rcv > 0 /\ hostCb' = [hostCb EXCEPT ![c].rcv = @ - 1] /\ Return(a)
      \/ proc' = [proc EXCEPT ![a].pc = "wait"] /\ UNCHANGED hostCb
      \/ Return(a) /\ UNCHANGED hostCb
  BY Zenon DEF RcvHost
<1>4. CASE c # 0 /\ hostCb[c].rcv > 0 /\ hostCb' = [hostCb EXCEPT ![c].rcv = @ - 1] /\ Return(a)
  <2>1. c \in Cbs
    BY <1>1, <1>4, FindFacts
  <2> HIDE DEF c
  <2>2. hostCb' \in [Cbs -> CbRec] /\ SameHosts /\ Connections'
    BY <1>4, <2>1, TakeKeeps
  <2>3. QED BY <1>1, <1>2, <1>4, <2>2, AppIdle, AppEdits
<1>5. CASE proc' = [proc EXCEPT ![a].pc = "wait"] /\ UNCHANGED hostCb
  <2>1. proc' = [proc EXCEPT ![a] = r] /\ r \in ProcRec /\ r.cb = proc[a].cb
    BY <1>1, <1>5, PcRec
  <2>2. r.cb # 0 => condWait
    BY <2>1 DEF HostInv, Waits
  <2> HIDE DEF r
  <2>3. QED BY <1>1, <1>2, <1>5, <2>1, <2>2, CbsStay, AppEdits
<1>6. CASE Return(a) /\ UNCHANGED hostCb
  BY <1>1, <1>2, <1>6, CbsStay, AppIdle, AppEdits
<1>7. QED BY <1>3, <1>4, <1>5, <1>6

LEMMA WaitEndKeeps == ASSUME HostInv, NEW a \in Apps, WaitEnd(a) PROVE HostInv'
<1> DEFINE c == proc[a].cb
<1>1. /\ phase = "run" /\ phase # "done" /\ proc' = [proc EXCEPT ![a] = At("idle")]
      /\ UNCHANGED <<condWait, hostCb, loopLst, tick, phase, passed, turned>>
  BY Active DEF WaitEnd
<1>2. hostCb' \in [Cbs -> CbRec] /\ SameHosts /\ Connections' /\ passed' \in [Cbs -> Nat]
  BY <1>1, CbsStay DEF HostInv, HostTypes
<1>3. /\ hostMemErr' = hostMemErr \/ condWait
      /\ KeptOnly /\ tbl'.main = tbl.main /\ tbl'.slot = tbl.slot /\ tbl'.lastSnd = tbl.lastSnd
  <2>1. CASE UNCHANGED <<tbl, hostMemErr>>
    BY <1>1, <2>1, TblStays
  <2>2. CASE /\ c # 0 /\ hostCb[c].live /\ UNCHANGED hostMemErr
             /\ tbl' = [tbl EXCEPT !.lastRcv = hostCb[NextHost(tbl.main, c)].id]
    <3>1. c \in Cbs
      BY <2>2, Typed, Distinct DEF ProcRec, Cbs
    <3>2. c \in ToSet(tbl.main)
      BY <1>1, <2>2, <3>1 DEF HostInv, HostTables, Live
    <3>3. tbl \in TblRec /\ tbl.main \in Seq(Cbs) /\ tbl.main # << >>
      BY <3>2, Typed, ListFacts
    <3> HIDE DEF c
    <3>4. NextHost(tbl.main, c) \in ToSet(tbl.main)
      BY <3>2, <3>3, NextFacts
    <3>5. KeptOnly
      BY <1>1, <2>2, <3>3, <3>4, KeepId
    <3>6. tbl'.lastSnd = tbl.lastSnd
      BY <2>2, <3>3 DEF TblRec
    <3>7. QED BY <2>2, <3>5, <3>6 DEF KeptOnly
  <2>3. CASE c # 0 /\ hostMemErr' = TRUE /\ UNCHANGED tbl
    <3>1. condWait
      BY <2>3 DEF HostInv, Waits
    <3>2. QED BY <1>1, <2>3, <3>1, TblStays
  <2>4. QED BY <2>1, <2>2, <2>3 DEF WaitEnd
<1>4. Rounds'
  BY <1>1, <1>3, RoundsStay
<1>5. QED BY <1>1, <1>2, <1>3, <1>4, AppIdle, AppKeeps

-----------------------------------------------------------------------------
(* The accept thread *)

LEMMA AcptKeeps ==
  ASSUME HostInv, NEW r \in ProcRec, proc' = [proc EXCEPT ![Acpt] = r], phase \in {"run", "acpt"},
         UNCHANGED <<condWait, tbl, loopLst, tick, phase, passed, turned, hostMemErr>>,
         hostCb' \in [Cbs -> CbRec], SameHosts, Connections'
  PROVE  HostInv'
<1>1. proc' \in [Procs -> ProcRec] /\ SameThreads /\ Ending' /\ Waits'
  BY AcptStep
<1>2. tick' \in Nat /\ phase' \in {"run", "acpt", "threads", "done"} /\ phase # "done"
      /\ passed' \in [Cbs -> Nat]
  BY Typed DEF HostInv, HostTypes
<1>3. KeptOnly /\ Rounds'
  BY <1>2, TblStays, RoundsStay
<1>4. QED BY <1>1, <1>2, <1>3, Frame

LEMMA InitReqKeeps == ASSUME HostInv, NEW h \in Names, NEW key \in Keys, InitReq(h, key) PROVE HostInv'
<1> DEFINE r == [At("lock") EXCEPT !.op = "acpt", !.host = h, !.key = key]
<1>1. /\ phase = "run" /\ proc' = [proc EXCEPT ![Acpt] = r]
      /\ UNCHANGED <<condWait, hostCb, tbl, loopLst, tick, phase, passed, turned, hostMemErr>>
  BY DEF InitReq
<1>2. r \in ProcRec
  BY LockRec
<1> HIDE DEF r
<1>3. QED BY <1>1, <1>2, CbsStay, AcptKeeps

(* When every id is taken the slot of id 0 has a host. *)
LEMMA TargetFacts ==
  ASSUME HostInv, phase # "done", NEW h, Target(h) # 0
  PROVE  Target(h) \in Cbs
<1>1. Find(h) # 0 => Find(h) \in Cbs
  BY FindFacts
<1>2. 0 \in Slots
  BY HostAssumption DEF HostAssumption, Slots
<1>3. tbl.slot[0] # 0 => tbl.slot[0] \in Cbs
  BY <1>2 DEF HostInv, HostTables, Live
<1>4. QED BY <1>1, <1>3 DEF Target

LEMMA AcptHostKeeps == ASSUME HostInv, AcptHost PROVE HostInv'
<1> DEFINE h == proc[Acpt].host
           key == proc[Acpt].key
           c == Find(h)
           q == [[proc[Acpt] EXCEPT !.op = "attach"] EXCEPT !.got = 3]
<1>1. /\ phase \in {"run", "acpt"} /\ phase # "done" /\ Acpt \in Procs
      /\ UNCHANGED <<condWait, tick, phase, hostMemErr>>
      /\ h \in Names \cup {None} /\ key \in Keys \cup {None}
  BY Active, Typed, Distinct DEF AcptHost, Holds, ProcRec
<1>2. proc' = [proc EXCEPT ![Acpt] = q] /\ q \in ProcRec
  <2>1. proc' = [proc EXCEPT ![Acpt].op = "attach", ![Acpt].got = 3]
    BY DEF AcptHost
  <2>2. proc = [p \in Procs |-> proc[p]] /\ proc[Acpt] \in ProcRec
    BY <1>1, Typed DEF HostInv, HostTypes
  <2>3. proc' = [proc EXCEPT ![Acpt] = q]
    BY <1>1, <2>1, <2>2
  <2>4. q \in ProcRec
    BY <2>2 DEF ProcRec
  <2>5. QED BY <2>3, <2>4
<1> HIDE DEF q
<1>3. CASE /\ c # 0 /\ hostCb' = [hostCb EXCEPT ![c] = Cleared(@, key)]
           /\ UNCHANGED <<tbl, loopLst, passed, turned>>
  <2> DEFINE r == Cleared(hostCb[c], key)
  <2>1. c \in Cbs /\ hostCb[c] \in CbRec
    BY <1>1, <1>3, FindFacts, Typed
  <2>2. Edited(hostCb[c], r) /\ hostCb' = [hostCb EXCEPT ![c] = r]
    BY <1>1, <1>3, <2>1, ClearedEdited
  <2> HIDE DEF c, r
  <2>3. hostCb' \in [Cbs -> CbRec] /\ SameHosts /\ Connections'
    BY <2>1, <2>2, CbStep
  <2>4. QED BY <1>1, <1>2, <1>3, <2>3, AcptKeeps
<1>4. CASE UNCHANGED <<hostCb, tbl, loopLst, passed, turned>>
  BY <1>1, <1>2, <1>4, CbsStay, AcptKeeps
<1>5. CASE /\ c = 0 /\ FreeSlots # {} /\ NewCbs # {}
           /\ hostCb' = [hostCb EXCEPT ![NewCb] = MakeCb(h, key, TRUE)] /\ tbl' = MakeTbl(NewCb)
           /\ loopLst' = Append(loopLst, NewCb) /\ passed' = [d \in Cbs |-> 0] /\ turned' = FALSE
  <2> DEFINE r == MakeCb(h, key, TRUE)
  <2>1. r \in CbRec /\ r.made /\ r.live /\ r.host = h /\ r.id = FirstFree /\ Counted(r)
    BY <1>1, <1>5, MakeCbFacts
  <2>2. proc' \in [Procs -> ProcRec] /\ SameThreads /\ Ending' /\ Waits'
    BY <1>1, <1>2, AcptStep
  <2>3. hostCb' = [hostCb EXCEPT ![NewCb] = r] /\ Find(r.host) = 0
    BY <1>5, <2>1
  <2> HIDE DEF r
  <2>4. QED BY <1>1, <1>5, <2>1, <2>2, <2>3, MakeKeeps
<1>6. QED BY <1>3, <1>4, <1>5 DEF AcptHost

LEMMA AcptConnKeeps == ASSUME HostInv, AcptConn PROVE HostInv'
<1> DEFINE c == Target(proc[Acpt].host)
           r == Attach(hostCb[c])
<1>1. /\ phase \in {"run", "acpt"} /\ phase # "done"
      /\ UNCHANGED <<condWait, tbl, loopLst, tick, phase, passed, turned, hostMemErr>>
  BY Active DEF AcptConn, Holds
<1>2. proc' = [proc EXCEPT ![Acpt] = At("idle")] /\ At("idle") \in ProcRec
  BY Distinct, AtFacts DEF AcptConn, Return
<1>3. hostCb' = [hostCb EXCEPT ![c] = r]
  BY DEF AcptConn
<1>4. hostCb' \in [Cbs -> CbRec] /\ SameHosts /\ Connections'
  <2>1. CASE c = 0
    <3>1. hostCb = [d \in Cbs |-> hostCb[d]] /\ 0 \notin Cbs
      BY DEF HostInv, HostTypes, Cbs
    <3> HIDE DEF r
    <3>2. hostCb' = hostCb
      BY <1>3, <2>1, <3>1
    <3>3. QED BY <3>2, CbsStay
  <2>2. CASE c # 0
    <3>1. c \in Cbs /\ hostCb[c] \in CbRec
      BY <1>1, <2>2, TargetFacts, Typed
    <3>2. Edited(hostCb[c], r)
      BY <3>1, AttachEdited
    <3> HIDE DEF c, r
    <3>3. QED BY <1>3, <3>1, <3>2, CbStep
  <2>3. QED BY <2>1, <2>2
<1>5. QED BY <1>1, <1>2, <1>4, AcptKeeps

-----------------------------------------------------------------------------
(* Serving a host; the mutexes; the end *)

LEMMA ServeKeeps == ASSUME HostInv, NEW t \in Threads, ThrdServe(t) PROVE HostInv'
<1> DEFINE c == proc[t].cb
           q == [proc[t] EXCEPT !.pc = "put"]
<1>1. /\ proc[t].pc = "serve" /\ proc' = [proc EXCEPT ![t].pc = "put"] /\ t \in Procs
      /\ UNCHANGED <<condWait, tbl, loopLst, tick, phase, passed, turned, hostMemErr>>
  BY Distinct DEF ThrdServe
<1>2. PICK r \in ConnEvents(CtrlSnd(hostCb[c])) : hostCb' = [hostCb EXCEPT ![c] = r]
  BY DEF ThrdServe
<1>3. phase # "done"
  BY <1>1, Active
<1>4. c \in Live /\ c \in Cbs /\ hostCb[c] \in CbRec
  <2>1. c \in Live
    BY <1>1, <1>3 DEF HostInv, LoopList
  <2>2. QED BY <2>1, Typed DEF Live
<1>5. proc' = [proc EXCEPT ![t] = q] /\ q \in ProcRec /\ q.pc = "put" /\ q.cb = c
  BY <1>1, PcRec
<1>6. hostCb' = [hostCb EXCEPT ![c] = r]
  BY <1>2
<1> HIDE DEF c, q
<1>7. Edited(hostCb[c], r)
  <2> DEFINE s == CtrlSnd(hostCb[c])
  <2>1. Edited(hostCb[c], s)
    BY <1>4, CtrlEdited
  <2>2. s \in CbRec /\ Counted(s)
    BY <1>4, <2>1 DEF Edited, HostInv, Connections
  <2>3. r \in ConnEvents(s)
    BY <1>2 DEF c
  <2> HIDE DEF s
  <2>4. Edited(s, r)
    BY <2>2, <2>3, Typed, EventsEdited
  <2>5. QED BY <2>1, <2>4, SameTransitive
<1>8. hostCb' \in [Cbs -> CbRec] /\ SameHosts /\ Connections'
  BY <1>4, <1>6, <1>7, CbStep
<1>9. /\ proc' \in [Procs -> ProcRec] /\ proc'[t] = q /\ Ending' /\ Waits'
      /\ \A u \in Threads : u # t => proc'[u] = proc[u]
  <2>1. Live' = Live
    BY <1>8 DEF SameHosts, Same, Live
  <2>2. QED BY <1>1, <1>3, <1>5, ThreadStep
<1>10. SameThreads
  BY <1>1, <1>5, <1>9 DEF SameThreads, c
<1>11. KeptOnly /\ Rounds' /\ passed' \in [Cbs -> Nat]
  BY <1>1, TblStays, RoundsStay DEF HostInv, HostTypes
<1>12. tick' \in Nat /\ phase' \in {"run", "acpt", "threads", "done"}
  BY <1>1, Typed DEF HostInv, HostTypes
<1>13. QED BY <1>1, <1>8, <1>9, <1>10, <1>11, <1>12, Frame

(* Steps that change neither the hosts nor what a thread has.              *)
LEMMA OtherSteps ==
  ASSUME HostInv, UNCHANGED <<condWait, hostCb, tbl, loopLst, passed, turned, hostMemErr>>,
         proc' \in [Procs -> ProcRec], \A p \in Procs : proc'[p].pc = proc[p].pc /\ proc'[p].cb = proc[p].cb,
         tick' \in Nat, phase' \in {"run", "acpt", "threads"} \/ UNCHANGED phase,
         phase' # "done" => phase # "done", Ending'
  PROVE  HostInv'
<1>1. SameThreads /\ Waits'
  BY Distinct DEF SameThreads, HostInv, Waits
<1>2. passed' \in [Cbs -> Nat] /\ phase' \in {"run", "acpt", "threads", "done"}
  BY DEF HostInv, HostTypes
<1>3. QED BY <1>1, <1>2, CbsStay, TblStays, RoundsStay, Frame

LEMMA TakeMutxKeeps == ASSUME HostInv, NEW p \in Procs, Take(p) PROVE HostInv'
<1> DEFINE r == [proc[p] EXCEPT !.got = @ + 1]
<1>1. /\ proc' = [proc EXCEPT ![p].got = @ + 1]
      /\ UNCHANGED <<condWait, hostCb, tbl, loopLst, tick, phase, passed, turned, hostMemErr>>
  BY DEF Take
<1>2. r \in ProcRec /\ r.pc = proc[p].pc /\ r.cb = proc[p].cb
  <2>1. proc[p] \in ProcRec
    BY Typed
  <2>2. proc[p].got + 1 \in Nat
    BY <2>1 DEF ProcRec
  <2> DEFINE got == proc[p].got + 1
  <2>3. r = [proc[p] EXCEPT !.got = got]
    OBVIOUS
  <2> HIDE DEF r, got
  <2>4. got \in Nat
    BY <2>2 DEF got
  <2>5. r \in ProcRec
    BY <2>1, <2>3, <2>4, Zenon DEF ProcRec
  <2>6. QED BY <2>1, <2>3, <2>5 DEF ProcRec
<1>3. proc' = [proc EXCEPT ![p] = r]
  BY <1>1
<1> HIDE DEF r
<1>4. /\ proc' \in [Procs -> ProcRec]
      /\ \A q \in Procs : proc'[q].pc = proc[q].pc /\ proc'[q].cb = proc[q].cb
  BY <1>2, <1>3, ProcStep DEF HostInv
<1>5. Ending'
  BY <1>1, <1>4, Distinct DEF HostInv, Ending, Live
<1>6. QED BY <1>1, <1>4, <1>5, Typed, OtherSteps

LEMMA ClockKeeps ==
  ASSUME HostInv,
         \/ \E t \in Threads : ThrdStall(t)
         \/ Tick
         \/ DstryMain
         \/ DstryThrds
         \/ UNCHANGED hostVars
  PROVE  HostInv'
<1>1. UNCHANGED <<condWait, hostCb, tbl, loopLst, passed, turned, hostMemErr, proc>>
  BY DEF ThrdStall, Tick, DstryMain, DstryThrds, hostVars
<1>2. tick' \in Nat
  BY Typed DEF ThrdStall, Tick, DstryMain, DstryThrds, hostVars
<1>3. /\ phase' \in {"run", "acpt", "threads"} \/ UNCHANGED phase
      /\ phase' # "done" => phase # "done"
  BY DEF ThrdStall, Tick, DstryMain, DstryThrds, hostVars
<1>4. Ending'
  BY <1>1 DEF HostInv, Ending, Live, ThrdStall, Tick, DstryMain, DstryThrds, hostVars
<1>5. proc' \in [Procs -> ProcRec]
  BY <1>1 DEF HostInv, HostTypes
<1>6. QED BY <1>1, <1>2, <1>3, <1>4, <1>5, OtherSteps

(* No thread has a host at the end: all that is left are in the loop list. *)
LEMMA DstryAllKeeps == ASSUME HostInv, DstryAll PROVE HostInv'
<1> DEFINE gone == [noCb EXCEPT !.made = TRUE]
<1>1. /\ phase = "threads" /\ phase' = "done" /\ \A t \in Threads : proc[t].pc = "exit"
      /\ hostCb' = [c \in Cbs |-> IF c \in ToSet(loopLst) THEN gone ELSE hostCb[c]]
      /\ loopLst' = << >> /\ UNCHANGED <<condWait, tbl, proc, tick, passed, turned, hostMemErr>>
  BY DEF DstryAll
<1>2. gone \in CbRec /\ gone.live = FALSE
  <2>1. 0 \in Slots /\ 0 \in Nat
    BY HostAssumption DEF HostAssumption, Slots
  <2>2. noCb \in CbRec /\ noCb.live = FALSE /\ TRUE \in BOOLEAN
    BY <2>1, Zenon DEF noCb, CbRec
  <2> HIDE DEF noCb
  <2>3. QED BY <2>2 DEF CbRec
<1>3. hostCb \in [Cbs -> CbRec]
  BY DEF HostInv, HostTypes
<1> HIDE DEF gone
<1>4. hostCb' \in [Cbs -> CbRec]
  BY <1>1, <1>2, <1>3
<1>5. Live' = {}
  <2>1. \A c \in Live : c \in ToSet(loopLst)
    BY <1>1 DEF HostInv, LoopList, Live, Cbs
  <2>2. \A c \in Cbs : ~hostCb'[c].live
    BY <1>1, <1>2, <2>1 DEF Live
  <2>3. QED BY <2>2 DEF Live
<1>6. HostTypes'
  <2>1. << >> \in Seq(Cbs)
    OBVIOUS
  <2>2. QED BY <1>1, <1>4, <2>1 DEF HostInv, HostTypes
<1>7. Ending'
  BY <1>1, <1>5 DEF HostInv, Ending
<1>8. HostTables' /\ LoopList'
  BY <1>1 DEF HostTables, LoopList
<1>9. Connections' /\ Waits'
  BY <1>1, <1>5 DEF HostInv, Connections, Waits
<1>10. Rounds'
  BY <1>1, RoundsStay
<1>11. QED BY <1>6, <1>7, <1>8, <1>9, <1>10 DEF HostInv

-----------------------------------------------------------------------------
LEMMA HostInvNext == HostInv /\ [HostNext]_hostVars => HostInv'
<1> SUFFICES ASSUME HostInv, [HostNext]_hostVars PROVE HostInv'
  OBVIOUS
<1>1. CASE \E p \in Procs : Take(p)
  BY <1>1, TakeMutxKeeps
<1>2. ASSUME NEW a \in Apps, NEW h \in Names,
             NEW op \in {"add", "del", "setPri", "addConn", "sndHost", "rcvHost"}, Call(a, op, h)
      PROVE  HostInv'
  <2>1. op \in {"add", "del", "setPri", "addConn", "sndHost", "rcvHost", "sndAny", "sndPri", "rcvAny"}
        /\ h \in Names \cup {None}
    OBVIOUS
  <2>2. QED BY <1>2, <2>1, CallKeeps
<1>3. ASSUME NEW a \in Apps, NEW op \in {"sndAny", "sndPri", "rcvAny"}, Call(a, op, None)
      PROVE  HostInv'
  <2>1. op \in {"add", "del", "setPri", "addConn", "sndHost", "rcvHost", "sndAny", "sndPri", "rcvAny"}
        /\ None \in Names \cup {None}
    OBVIOUS
  <2>2. QED BY <1>3, <2>1, CallKeeps
<1>4. ASSUME NEW a \in Apps, Body(a) PROVE HostInv'
  <2>1. CASE AddHost(a)     BY <2>1, AddKeeps
  <2>2. CASE DelHost(a)     BY <2>2, DelKeeps
  <2>3. CASE SetPriHost(a)  BY <2>3, SetPriKeeps
  <2>4. CASE AddConn(a)     BY <2>4, AddConnKeeps
  <2>5. CASE SndAny(a)      BY <2>5, SndAnyKeeps
  <2>6. CASE \E faFlg \in BOOLEAN : SndPri(a, faFlg)
    BY <2>6, SndPriKeeps
  <2>7. CASE \E bufOk \in BOOLEAN : SndHost(a, bufOk)
    BY <2>7, SndHostKeeps
  <2>8. CASE RcvAny(a)      BY <2>8, RcvAnyKeeps
  <2>9. CASE RcvHost(a)     BY <2>9, RcvHostKeeps
  <2>10. CASE SndReset(a)   BY <2>10, SndResetKeeps
  <2>11. QED BY <1>4, <2>1, <2>2, <2>3, <2>4, <2>5, <2>6, <2>7, <2>8, <2>9, <2>10 DEF Body
<1>5. ASSUME NEW a \in Apps, WaitEnd(a) PROVE HostInv'
  BY <1>5, WaitEndKeeps
<1>6. ASSUME NEW h \in Names, NEW key \in Keys, InitReq(h, key) PROVE HostInv'
  BY <1>6, InitReqKeeps
<1>7. CASE AcptHost \/ AcptConn
  BY <1>7, AcptHostKeeps, AcptConnKeeps
<1>8. ASSUME NEW t \in Threads, Thrd(t) PROVE HostInv'
  BY <1>8, PopKeeps, DstryKeeps, ServeKeeps, PutKeeps DEF Thrd
<1>9. CASE \/ \E t \in Threads : ThrdStall(t)
           \/ Tick
           \/ DstryMain
           \/ DstryThrds
           \/ UNCHANGED hostVars
  BY <1>9, ClockKeeps
<1>10. CASE DstryAll
  BY <1>10, DstryAllKeeps
<1>11. QED BY <1>1, <1>2, <1>3, <1>4, <1>5, <1>6, <1>7, <1>8, <1>9, <1>10 DEF HostNext

(* The invariant of the hosts, for any instance. *)
THEOREM HostsInductive == HostSpec => []HostInv
<1>1. QED BY HostInvInit, HostInvNext, PTL DEF HostSpec

LEMMA HostInvExact == HostInv => HostsExact
<1> SUFFICES ASSUME HostInv PROVE HostsExact
  OBVIOUS
<1> DEFINE live == {c \in Cbs : hostCb[c].live}
<1>1. live = Live
  BY DEF Live
<1>2. ASSUME phase # "done"
      PROVE  /\ ToSet(tbl.main) = live /\ Len(tbl.main) = Cardinality(live)
             /\ tbl.cnt = Cardinality(live)
  <2>1. /\ IsInjective(tbl.main) /\ ToSet(tbl.main) = live /\ tbl.cnt = Len(tbl.main)
        /\ tbl.main \in Seq(Cbs)
    BY <1>1, <1>2, Typed DEF HostInv, HostTables
  <2>2. QED BY <2>1, CountFacts
<1>3. ASSUME phase # "done" PROVE {i \in Slots : tbl.slot[i] # 0} = {hostCb[c].id : c \in live}
  <2>1. /\ \A c \in Live : c \in Cbs /\ c # 0 /\ hostCb[c].id \in Slots /\ tbl.slot[hostCb[c].id] = c
        /\ \A i \in Slots : tbl.slot[i] # 0 => tbl.slot[i] \in Live /\ hostCb[tbl.slot[i]].id = i
    BY <1>3, Typed DEF HostInv, HostTables, Live, Cbs, CbRec
  <2>2. QED BY <1>1, <2>1
<1>4. ASSUME phase # "done", NEW c \in live
      PROVE  /\ tbl.slot[hostCb[c].id] = c
             /\ \A d \in live : hostCb[c].host = hostCb[d].host => c = d
             /\ IF c \in ToSet(loopLst) THEN Keepers(c) = {} ELSE Cardinality(Keepers(c)) = 1
  <2>1. tbl.slot[hostCb[c].id] = c /\ \A d \in live : hostCb[c].host = hostCb[d].host => c = d
    BY <1>1, <1>4 DEF HostInv, HostTables
  <2>2. CASE c \in ToSet(loopLst)
    <3>1. \A t \in Threads : proc[t].cb # c
      BY <1>1, <1>4, <2>2 DEF HostInv, LoopList
    <3>2. QED BY <2>1, <2>2, <3>1 DEF Keepers
  <2>3. CASE c \notin ToSet(loopLst)
    <3>1. PICK t \in Threads : proc[t].cb = c
      BY <1>1, <1>4, <2>3 DEF HostInv, LoopList
    <3>2. c # 0
      BY DEF Cbs
    <3>3. \A u \in Threads : proc[u].cb = c => u = t
      BY <1>4, <3>1, <3>2 DEF HostInv, LoopList
    <3>4. Keepers(c) = {t}
      BY <3>1, <3>3 DEF Keepers
    <3>5. QED BY <2>1, <2>3, <3>4, FS_Singleton
  <2>4. QED BY <2>2, <2>3
<1>5. ASSUME phase # "done"
      PROVE  /\ IsInjective(loopLst) /\ ToSet(loopLst) \subseteq live
             /\ \A t \in Threads : proc[t].cb # 0 => proc[t].cb \in live
             /\ live # {} => \A id \in {tbl.pri, tbl.lastRcv} : tbl.slot[id] # 0
             /\ live # {} /\ ~turned => tbl.slot[tbl.lastSnd] # 0
  <2>1. ToSet(tbl.main) = live /\ tbl.main \in Seq(Cbs)
    BY <1>1, <1>5, Typed DEF HostInv, HostTables
  <2>2. live # {} => tbl.main # << >>
    BY <2>1, ListFacts
  <2>3. QED BY <1>1, <1>5, <2>2 DEF HostInv, HostTables, LoopList
<1> HIDE DEF live
<1>6. TablesAgree
  <2>1. live = {c \in Cbs : hostCb[c].live}
    BY DEF live
  <2>2. QED BY <2>1, <1>2, <1>3, <1>4, <1>5, Zenon DEF TablesAgree
<1>7. FreedUnused
  <2>1. ASSUME NEW c \in Cbs, hostCb[c].live
        PROVE  phase # "done" /\ hostCb[c].open >= Conns(c) /\ (hostCb[c].freeTmFlg => Conns(c) = 0)
    <3>1. c \in Live
      BY <2>1 DEF Live
    <3>2. phase # "done" /\ Counted(hostCb[c])
      BY <3>1 DEF HostInv, Ending, Connections
    <3>3. Conns(c) = Linked(hostCb[c])
      BY DEF Conns, Linked
    <3>4. QED BY <3>2, <3>3 DEF Counted
  <2>2. QED BY <2>1 DEF HostInv, Waits, FreedUnused
<1>8. QED BY <1>6, <1>7 DEF HostsExact

(* The list, the id table, the names and the loop list of the hosts stand  *)
(* for the same hosts, each is with one thread at most, and none that was  *)
(* freed is used but by a receive that waits.                              *)
THEOREM HostsStayExact == HostSpec => []HostsExact
<1>1. QED BY HostsInductive, HostInvExact, PTL

(* A host that is open and has room gets a message before as many as there *)
(* are hosts went past it, from one late reset of the round to the next.   *)
THEOREM SendsGoRound == HostSpec => []RoundRobin
<1>1. HostInv => RoundRobin
  BY DEF HostInv, Rounds
<1>2. QED BY <1>1, HostsInductive, PTL
=============================================================================
