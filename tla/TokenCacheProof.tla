-------------------------- MODULE TokenCacheProof --------------------------
(***************************************************************************)
(* Theorems about TokenCache, for any connection threads, tokens, blocks   *)
(* and terms, and a wheel that is larger than a term and a turn of the     *)
(* main loop together.                                                     *)
(*                                                                         *)
(* The main loop walks a slot without the lock.  It is safe because every  *)
(* node in the timer table is due between the tick of the handler and a    *)
(* term from now, less than a lap: the slot the handler is at holds the    *)
(* nodes that are due at its tick and no others, nobody links a node       *)
(* there meanwhile, and its first node is always the next to fire.         *)
(***************************************************************************)
EXTENDS TokenCache, SequenceTheorems, TLAPS

Inserting(r) == pc[r] \in {"next", "start", "link"}

(* tokenMainMutx is held from the insertion to the unlock, by a request,   *)
(* and by the event function from the removal to the unlock.               *)
Locks ==
  /\ \A r \in Requests : lock = r <=> (Inserting(r) \/ pc[r] \in {"insert", "unlock"})
  /\ lock = Main <=> mpc \in {"del", "free", "evt_unlock"}

(* The handler is between the tick it left off at and the current one.     *)
Clock ==
  /\ prevTick <= cur /\ tick <= prevTick + MaxJump
  /\ mpc = "sleep" => tick = prevTick

(* A node that is being inserted is in the hash table, not yet in a slot,  *)
(* and when its term is set that is still to come.                         *)
Insertions ==
  \A r \in Requests : Inserting(r) =>
    /\ ptr[r] \in Addrs /\ node[ptr[r]].live /\ Contains(chain, ptr[r])
    /\ \A s \in SlotIds : ~Contains(slot[s], ptr[r])
    /\ mpc \in {"event", "del", "free"} => fired # ptr[r]
    /\ pc[r] = "link" => tick < node[ptr[r]].expTick /\ node[ptr[r]].expTick <= tick + ExpTm

(* The handler takes the first node of its slot, and goes on with the one  *)
(* that is first then; a node it fires is in no slot any more.             *)
Firing ==
  /\ mpc = "node" => fired # NULL /\ fired = FirstOf(slot[SlotOf(cur)])
  /\ mpc \in {"event", "del", "free", "evt_unlock"} => nxt = FirstOf(slot[SlotOf(cur)])
  /\ mpc \in {"event", "del", "free"} =>
       fired \in Addrs /\ node[fired].live /\ \A s \in SlotIds : ~Contains(slot[s], fired)
  /\ mpc \in {"event", "del"} => Contains(chain, fired)

(* A node in a slot is cached, the slot is that of its expiry, and its     *)
(* turn has not passed.                                                    *)
Waiting(a, s) ==
  /\ node[a].live /\ Contains(chain, a)
  /\ s = SlotOf(node[a].expTick)
  /\ node[a].expTick <= tick + ExpTm
  /\ node[a].expTick > cur \/ (node[a].expTick = cur /\ mpc \notin {"sleep", "tick"})

Tables ==
  /\ IsInjective(chain) /\ \A s \in SlotIds : IsInjective(slot[s])
  /\ \A a \in Addrs : node[a].live => Contains(chain, a) \/ (mpc = "free" /\ fired = a)
  /\ \A a \in Addrs : \A s \in SlotIds : Contains(slot[s], a) => Waiting(a, s)
  /\ \A a \in Addrs : node[a].live /\ Contains(chain, a) =>
       Held(a) \/ (mpc \in {"event", "del"} /\ fired = a) \/ Contains(slot[SlotOf(node[a].expTick)], a)

(* What a request points to is allocated as long as it was not freed.      *)
Pointers == \A r \in Requests : ptr[r] # NULL /\ ~stale[r] => node[ptr[r]].live

CacheInv == TypeOK /\ Locks /\ Clock /\ Insertions /\ Firing /\ Tables /\ Pointers

-----------------------------------------------------------------------------
(* The lists of the two tables *)

LEMMA FirstFacts ==
  ASSUME NEW s \in Seq(Addrs)
  PROVE  /\ FirstOf(s) \in Addrs \cup {NULL}
         /\ FirstOf(s) # NULL => Contains(s, FirstOf(s))
         /\ \A a : Contains(s, a) => FirstOf(s) # NULL /\ a \in Addrs
<1>1. CASE s = << >>
  BY <1>1 DEF FirstOf, Contains
<1>2. CASE s # << >>
  <2>1. Len(s) \in Nat /\ Len(s) >= 1 /\ Head(s) = s[1] /\ \A i \in 1 .. Len(s) : s[i] \in Addrs
    BY <1>2, HeadTailProperties, LenProperties, EmptySeq
  <2>2. QED BY <1>2, <2>1, CacheAssumption DEF FirstOf, Contains, CacheAssumption
<1>3. QED BY <1>1, <1>2

LEMMA ListElements ==
  ASSUME NEW s \in Seq(Addrs), NEW i \in DOMAIN s
  PROVE  s[i] \in Addrs /\ Contains(s, s[i])
<1>1. DOMAIN s = 1 .. Len(s) /\ s \in [1 .. Len(s) -> Addrs]
  BY LenProperties
<1>2. QED BY <1>1 DEF Contains

LEMMA AppendFacts ==
  ASSUME NEW s \in Seq(Addrs), NEW a \in Addrs
  PROVE  /\ Append(s, a) \in Seq(Addrs)
         /\ \A b : Contains(Append(s, a), b) <=> Contains(s, b) \/ b = a
         /\ IsInjective(s) /\ ~Contains(s, a) => IsInjective(Append(s, a))
         /\ FirstOf(s) # NULL => FirstOf(Append(s, a)) = FirstOf(s)
<1>1. /\ Append(s, a) \in Seq(Addrs)
      /\ Append(s, a) # << >>
      /\ Len(Append(s, a)) = Len(s) + 1
      /\ \A i \in 1 .. Len(s) : Append(s, a)[i] = s[i]
      /\ Append(s, a)[Len(s) + 1] = a
  BY AppendProperties
<1>2. Len(s) \in Nat /\ DOMAIN s = 1 .. Len(s)
      /\ DOMAIN Append(s, a) = 1 .. Len(Append(s, a))
  BY <1>1, LenProperties
<1>3. \A b : Contains(Append(s, a), b) <=> Contains(s, b) \/ b = a
  BY <1>1, <1>2 DEF Contains
<1>4. ASSUME IsInjective(s), ~Contains(s, a) PROVE IsInjective(Append(s, a))
  BY <1>1, <1>2, <1>4 DEF IsInjective, Contains
<1>5. ASSUME FirstOf(s) # NULL PROVE FirstOf(Append(s, a)) = FirstOf(s)
  <2>1. s # << >>
    BY <1>5 DEF FirstOf
  <2>2. QED BY <2>1, <1>1, HeadTailAppend DEF FirstOf
<1>6. QED BY <1>1, <1>3, <1>4, <1>5

LEMMA WithoutFacts ==
  ASSUME NEW s \in Seq(Addrs), IsInjective(s), NEW a, Contains(s, a)
  PROVE  /\ Without(s, a) \in Seq(Addrs)
         /\ \A b : Contains(Without(s, a), b) <=> Contains(s, b) /\ b # a
         /\ IsInjective(Without(s, a))
         /\ a = FirstOf(s) => FirstOf(Without(s, a)) = NextOf(s, a)
<1> DEFINE i == PlaceOf(s, a)
           t == SubSeq(s, 1, i - 1)
           u == SubSeq(s, i + 1, Len(s))
<1>1. Len(s) \in Nat /\ DOMAIN s = 1 .. Len(s) /\ \A k \in 1 .. Len(s) : s[k] \in Addrs
  BY LenProperties
<1>2. i \in 1 .. Len(s) /\ s[i] = a
  BY <1>1 DEF PlaceOf, Contains
<1>3. \A k \in 1 .. Len(s) : s[k] = a => k = i
  BY <1>1, <1>2 DEF IsInjective
<1> HIDE DEF i
<1>4. t \in Seq(Addrs) /\ Len(t) = i - 1 /\ \A k \in 1 .. i - 1 : t[k] = s[k]
  BY <1>1, <1>2, SubSeqProperties
<1>5. u \in Seq(Addrs) /\ Len(u) = Len(s) - i /\ \A k \in 1 .. Len(s) - i : u[k] = s[k + i]
  <2>1. /\ i + 1 \in Int /\ Len(s) \in Int /\ \A k \in i + 1 .. Len(s) : s[k] \in Addrs
        /\ i <= Len(s)
    BY <1>1, <1>2
  <2>2. /\ u \in Seq(Addrs) /\ Len(u) = IF i + 1 <= Len(s) THEN Len(s) - (i + 1) + 1 ELSE 0
        /\ \A k \in 1 .. Len(s) - (i + 1) + 1 : u[k] = s[(i + 1) + k - 1]
    BY <2>1, SubSeqProperties
  <2> HIDE DEF u
  <2>3. \A k \in 1 .. Len(s) - i : u[k] = s[k + i]
    <3> TAKE k \in 1 .. Len(s) - i
    <3>1. k \in 1 .. Len(s) - (i + 1) + 1 /\ (i + 1) + k - 1 = k + i
      BY <1>1, <1>2
    <3>2. QED BY <3>1, <2>2
  <2>4. Len(u) = Len(s) - i
    BY <2>1, <2>2, <1>2
  <2>5. QED BY <2>2, <2>3, <2>4
<1> HIDE DEF t, u
<1> DEFINE w == t \o u
<1>6. Without(s, a) = w
  BY DEF Without, RemoveAt, i, t, u
<1>7. /\ w \in Seq(Addrs) /\ Len(w) = Len(s) - 1
      /\ \A k \in 1 .. Len(s) - 1 : w[k] = IF k < i THEN s[k] ELSE s[k + 1]
  <2>1. /\ t \o u \in Seq(Addrs)
        /\ Len(t \o u) = Len(t) + Len(u)
        /\ \A k \in 1 .. Len(t) + Len(u) :
             (t \o u)[k] = IF k <= Len(t) THEN t[k] ELSE u[k - Len(t)]
    BY <1>4, <1>5, ConcatProperties
  <2>2. Len(w) = Len(s) - 1
    BY <1>1, <1>2, <1>4, <1>5, <2>1
  <2>3. ASSUME NEW k \in 1 .. Len(s) - 1 PROVE w[k] = IF k < i THEN s[k] ELSE s[k + 1]
    <3>1. k \in 1 .. Len(t) + Len(u) /\ Len(t) = i - 1 /\ i \in Int
      BY <1>1, <1>2, <1>4, <1>5
    <3>2. CASE k < i
      BY <3>1, <3>2, <2>1, <1>4
    <3>3. CASE ~(k < i)
      <4>1. w[k] = u[k - (i - 1)]
        BY <3>1, <3>3, <2>1
      <4>2. k - (i - 1) \in 1 .. Len(s) - i /\ (k - (i - 1)) + i = k + 1
        BY <3>1, <3>3, <1>1
      <4>3. QED BY <4>1, <4>2, <1>5, <3>3
    <3>4. QED BY <3>2, <3>3
  <2>4. QED BY <2>1, <2>2, <2>3
<1> HIDE DEF w
<1>8. DOMAIN w = 1 .. Len(s) - 1
  BY <1>7, <1>1, LenProperties
<1>9. \A b : Contains(w, b) <=> Contains(s, b) /\ b # a
  <2>1. ASSUME NEW b, Contains(w, b) PROVE Contains(s, b) /\ b # a
    <3>1. PICK k \in 1 .. Len(s) - 1 : w[k] = b
      BY <2>1, <1>7 DEF Contains
    <3>2. CASE k < i   BY <3>1, <3>2, <1>1, <1>2, <1>3, <1>7 DEF Contains
    <3>3. CASE ~(k < i)
      <4>1. k + 1 \in 1 .. Len(s) /\ s[k + 1] = b /\ k + 1 # i
        BY <3>1, <3>3, <1>1, <1>2, <1>7
      <4>2. QED BY <4>1, <1>3 DEF Contains
    <3>4. QED BY <3>2, <3>3
  <2>2. ASSUME NEW b, Contains(s, b), b # a PROVE Contains(w, b)
    <3>1. PICK k \in 1 .. Len(s) : s[k] = b
      BY <2>2 DEF Contains
    <3>2. CASE k < i   BY <3>1, <3>2, <1>1, <1>2, <1>7 DEF Contains
    <3>3. CASE ~(k < i)
      <4>1. k - 1 \in 1 .. Len(s) - 1 /\ ~(k - 1 < i) /\ (k - 1) + 1 = k
        BY <3>1, <3>3, <1>1, <1>2, <2>2
      <4>2. w[k - 1] = b
        BY <4>1, <3>1, <1>7
      <4>3. QED BY <4>1, <4>2, <1>7 DEF Contains
    <3>4. QED BY <3>2, <3>3
  <2>3. QED BY <2>1, <2>2
<1>10. IsInjective(w)
  BY <1>1, <1>2, <1>7, <1>8, SMTT(30) DEF IsInjective
<1>11. ASSUME a = FirstOf(s) PROVE FirstOf(w) = NextOf(s, a)
  <2>1. i = 1
    <3>1. s # << >>
      BY <1>1, <1>2, EmptySeq
    <3>2. a = s[1]
      BY <1>11, <3>1 DEF FirstOf
    <3>3. QED BY <3>2, <1>1, <1>2, <1>3
  <2>2. CASE Len(s) = 1
    <3>1. w = << >>
      BY <1>7, <2>2, EmptySeq
    <3>2. QED BY <3>1, <2>2 DEF FirstOf, NextOf
  <2>3. CASE Len(s) # 1
    <3>1. w # << >> /\ Head(w) = w[1] /\ w[1] = s[2]
      BY <1>1, <1>2, <1>7, <2>1, <2>3, EmptySeq
    <3>2. 1 \in 1 .. Len(s) - 1 /\ s[1] = a
      BY <1>1, <1>2, <2>1, <2>3
    <3>3. NextOf(s, a) = s[i + 1]
      BY <3>2 DEF NextOf, i
    <3>4. QED BY <3>1, <3>3, <2>1 DEF FirstOf
  <2>4. QED BY <2>2, <2>3
<1>12. QED BY <1>6, <1>7, <1>9, <1>10, <1>11

(* The slots of two ticks less than a lap apart differ.                    *)
LEMMA SlotFacts ==
  /\ \A t \in Nat : SlotOf(t) \in SlotIds
  /\ \A t, u \in Nat : SlotOf(t) = SlotOf(u) /\ t <= u /\ u - t < Slots => t = u
<1>0. Slots \in Nat /\ Slots > 0
  BY CacheAssumption DEF CacheAssumption
<1>1. \A t \in Nat : SlotOf(t) \in SlotIds
  BY <1>0 DEF SlotOf, SlotIds
<1>2. ASSUME NEW t \in Nat, NEW u \in Nat, t % Slots = u % Slots, t <= u, u - t < Slots PROVE t = u
  <2> DEFINE k == (u \div Slots) - (t \div Slots)
  <2>1. /\ t = Slots * (t \div Slots) + (t % Slots) /\ u = Slots * (u \div Slots) + (u % Slots)
        /\ (t \div Slots) \in Int /\ (u \div Slots) \in Int
    BY <1>0
  <2>2. k \in Int /\ u - t = Slots * k
    BY <1>0, <1>2, <2>1
  <2> HIDE DEF k
  <2>3. k = 0
    BY <1>0, <1>2, <2>2
  <2>4. u - t = 0
    BY <1>0, <2>2, <2>3
  <2>5. QED BY <2>4
<1>3. QED BY <1>1, <1>2 DEF SlotOf

-----------------------------------------------------------------------------
LEMMA CacheInvInit == Init => CacheInv
<1> SUFFICES ASSUME Init PROVE CacheInv
  OBVIOUS
<1>1. TypeOK
  <2>1. 0 \in 0 .. MaxTick
    BY CacheAssumption DEF CacheAssumption
  <2>2. slot \in [SlotIds -> Seq(Addrs)] /\ chain \in Seq(Addrs)
    BY DEF Init
  <2>3. noNode \in [tok : Tokens \cup {NULL}, live : BOOLEAN, used : BOOLEAN, expTick : Nat,
                    linked : BOOLEAN]
    BY DEF noNode
  <2>4. node \in [Addrs -> [tok : Tokens \cup {NULL}, live : BOOLEAN, used : BOOLEAN,
                           expTick : Nat, linked : BOOLEAN]]
    BY <2>3 DEF Init
  <2>5. /\ pc \in [Requests -> reqSteps] /\ tok \in [Requests -> Tokens \cup {NULL}]
        /\ ptr \in [Requests -> Addrs \cup {NULL}] /\ stale \in [Requests -> BOOLEAN]
    BY DEF Init, reqSteps
  <2>6. tick \in 0 .. MaxTick /\ prevTick \in 0 .. tick /\ cur \in 0 .. tick
    BY <2>1 DEF Init
  <2>7. /\ lock \in Requests \cup {Main, NULL} /\ mpc = "sleep" /\ memErr \in BOOLEAN
        /\ fired \in Addrs \cup {NULL} /\ nxt \in Addrs \cup {NULL}
    BY DEF Init
  <2>8. QED BY <2>2, <2>4, <2>5, <2>6, <2>7 DEF TypeOK
<1>2. Locks
  BY CacheAssumption DEF Init, Locks, Inserting, CacheAssumption
<1>3. \A b : ~Contains(<< >>, b)
  BY DEF Contains
<1>4. \A a \in Addrs : ~node[a].live
  BY DEF Init, noNode
<1>5. IsInjective(<< >>)
  BY DEF IsInjective
<1>6. Tables
  BY <1>3, <1>4, <1>5 DEF Init, Tables
<1>7. Clock /\ Insertions /\ Firing /\ Pointers
  BY CacheAssumption DEF Init, Clock, Insertions, Firing, Pointers, Inserting, CacheAssumption
<1>8. QED BY <1>1, <1>2, <1>6, <1>7 DEF CacheInv

-----------------------------------------------------------------------------
(* What the invariant says of the values, without the records.             *)
Values ==
  /\ tick \in Nat /\ prevTick \in Nat /\ cur \in Nat /\ cur <= tick
  /\ chain \in Seq(Addrs) /\ \A s \in SlotIds : slot[s] \in Seq(Addrs)
  /\ \A a \in Addrs : node[a].expTick \in Nat /\ SlotOf(node[a].expTick) \in SlotIds
  /\ SlotOf(cur) \in SlotIds
  /\ \A r \in Requests : ptr[r] \in Addrs \cup {NULL}
  /\ fired \in Addrs \cup {NULL} /\ nxt \in Addrs \cup {NULL} /\ NULL \notin Addrs
  /\ slot = [s \in SlotIds |-> slot[s]] /\ pc = [r \in Requests |-> pc[r]]
  /\ ptr = [r \in Requests |-> ptr[r]] /\ stale = [r \in Requests |-> stale[r]]
  /\ ExpTm \in Nat /\ MaxJump \in Nat /\ Slots \in Nat /\ ExpTm + MaxJump < Slots

LEMMA TypedValues == TypeOK => Values
<1> SUFFICES ASSUME TypeOK PROVE Values
  OBVIOUS
<1>1. tick \in Nat /\ prevTick \in Nat /\ cur \in Nat /\ cur <= tick
  BY CacheAssumption DEF TypeOK, CacheAssumption
<1>2. \A a \in Addrs : node[a].expTick \in Nat
  BY DEF TypeOK
<1>3. /\ chain \in Seq(Addrs) /\ (\A s \in SlotIds : slot[s] \in Seq(Addrs))
      /\ slot = [s \in SlotIds |-> slot[s]]
  BY DEF TypeOK
<1>4. /\ pc = [r \in Requests |-> pc[r]] /\ ptr = [r \in Requests |-> ptr[r]]
      /\ stale = [r \in Requests |-> stale[r]]
      /\ \A r \in Requests : ptr[r] \in Addrs \cup {NULL}
      /\ fired \in Addrs \cup {NULL} /\ nxt \in Addrs \cup {NULL}
  BY DEF TypeOK
<1>5. QED BY <1>1, <1>2, <1>3, <1>4, SlotFacts, CacheAssumption DEF Values, CacheAssumption

(* A step of a request that touches neither table, before its insertion or *)
(* after it.                                                               *)
LEMMA RequestStep ==
  ASSUME CacheInv, TypeOK', NEW r \in Requests,
         UNCHANGED <<tick, prevTick, slot, chain, node, mainVars>>,
         \A d \in Requests \ {r} :
           pc'[d] = pc[d] /\ ptr'[d] = ptr[d] /\ stale'[d] = stale[d],
         ~Inserting(r), ~Inserting(r)',
         Locks',
         ptr'[r] # NULL /\ ~stale'[r] => node[ptr'[r]].live
  PROVE  CacheInv'
<1> USE DEF mainVars
<1>1. \A a \in Addrs : Held(a)' = Held(a)
  BY DEF Held, Inserting
<1>2. Insertions'
  BY DEF CacheInv, Insertions, Inserting
<1>3. Tables'
  BY <1>1 DEF CacheInv, Tables, Waiting
<1>4. Clock' /\ Firing' /\ Pointers'
  BY DEF CacheInv, Clock, Firing, Pointers
<1>5. QED BY <1>2, <1>3, <1>4 DEF CacheInv

LEMMA FindKeeps ==
  ASSUME CacheInv, NEW r \in Requests,
         \/ FindBegin(r) \/ FindNext(r) \/ FindHit(r) \/ FindMiss(r)
         \/ AuthRefuse(r) \/ AuthAccept(r) \/ WrLock(r) \/ WrUnlock(r)
  PROVE  CacheInv'
<1> USE DEF cacheVars, mainVars, ReqGoto, Answer
<1>2. Values
  BY TypedValues DEF CacheInv
<1>1. /\ UNCHANGED <<tick, prevTick, slot, chain, node, mainVars, memErr>>
      /\ pc[r] \in {"idle", "find", "auth", "lock", "unlock"}
      /\ \A d \in Requests \ {r} : pc'[d] = pc[d] /\ ptr'[d] = ptr[d] /\ stale'[d] = stale[d]
  BY <1>2 DEF FindBegin, FindNext, FindHit, FindMiss, AuthRefuse, AuthAccept, WrLock, WrUnlock, Values
<1>3. /\ pc'[r] \in {"idle", "find", "auth", "lock", "insert"}
      /\ pc' \in [Requests -> reqSteps]
  BY DEF FindBegin, FindNext, FindHit, FindMiss, AuthRefuse, AuthAccept, WrLock, WrUnlock,
         CacheInv, TypeOK, reqSteps
<1>4. FirstOf(chain) \in Addrs \cup {NULL} /\ \A a \in Addrs : NextOf(chain, a) \in Addrs \cup {NULL}
  <2>1. FirstOf(chain) \in Addrs \cup {NULL}
    BY <1>2, FirstFacts DEF Values
  <2>2. ASSUME NEW a \in Addrs, \E i \in 1 .. Len(chain) - 1 : chain[i] = a
        PROVE  chain[PlaceOf(chain, a) + 1] \in Addrs
    <3>1. Len(chain) \in Nat /\ DOMAIN chain = 1 .. Len(chain)
          /\ \A i \in 1 .. Len(chain) : chain[i] \in Addrs
      BY <1>2, LenProperties DEF Values
    <3>2. PlaceOf(chain, a) \in 1 .. Len(chain) - 1
      <4>1. PICK i \in 1 .. Len(chain) - 1 : chain[i] = a
        BY <2>2
      <4>2. PlaceOf(chain, a) \in DOMAIN chain /\ chain[PlaceOf(chain, a)] = a
        BY <3>1, <4>1 DEF PlaceOf
      <4>3. PlaceOf(chain, a) = i
        BY <3>1, <4>1, <4>2 DEF CacheInv, Tables, IsInjective
      <4>4. QED BY <4>1, <4>3
    <3>3. QED BY <3>1, <3>2
  <2>3. QED BY <2>1, <2>2 DEF NextOf
<1>5. /\ ptr' \in [Requests -> Addrs \cup {NULL}]
      /\ ptr'[r] # NULL /\ ~stale'[r] => node[ptr'[r]].live
  <2>1. CASE FindBegin(r)
    BY <2>1, <1>2, <1>4 DEF FindBegin, CacheInv, TypeOK, Values
  <2>2. CASE FindNext(r)
    BY <2>2, <1>2, <1>4 DEF FindNext, CacheInv, TypeOK, Values
  <2>3. CASE FindHit(r) \/ AuthRefuse(r) \/ WrUnlock(r)
    BY <2>3, <1>2 DEF FindHit, AuthRefuse, WrUnlock, CacheInv, TypeOK, Values
  <2>4. CASE FindMiss(r) \/ AuthAccept(r) \/ WrLock(r)
    BY <2>4 DEF FindMiss, AuthAccept, WrLock, CacheInv, TypeOK, Pointers
  <2>5. QED BY <2>1, <2>2, <2>3, <2>4
<1>6. tok' \in [Requests -> Tokens \cup {NULL}] /\ lock' \in Requests \cup {Main, NULL}
      /\ stale' \in [Requests -> BOOLEAN]
  <2>1. CASE FindBegin(r)
    BY <2>1 DEF FindBegin, CacheInv, TypeOK
  <2>2. CASE FindNext(r)
    BY <2>2 DEF FindNext, CacheInv, TypeOK
  <2>3. CASE FindHit(r) \/ AuthRefuse(r) \/ WrUnlock(r)
    BY <2>3 DEF FindHit, AuthRefuse, WrUnlock, CacheInv, TypeOK
  <2>4. CASE FindMiss(r) \/ AuthAccept(r) \/ WrLock(r)
    BY <2>4 DEF FindMiss, AuthAccept, WrLock, CacheInv, TypeOK
  <2>5. QED BY <2>1, <2>2, <2>3, <2>4
<1>7. TypeOK'
  BY <1>1, <1>3, <1>5, <1>6 DEF CacheInv, TypeOK
<1>8. Locks'
  <2>1. CASE WrLock(r)
    BY <2>1, <1>1, <1>3, CacheAssumption DEF WrLock, CacheInv, Locks, Inserting, CacheAssumption, TypeOK
  <2>2. CASE WrUnlock(r)
    BY <2>2, <1>1, <1>3, CacheAssumption DEF WrUnlock, CacheInv, Locks, Inserting, CacheAssumption, TypeOK
  <2>3. CASE \/ FindBegin(r) \/ FindNext(r) \/ FindHit(r) \/ FindMiss(r)
             \/ AuthRefuse(r) \/ AuthAccept(r)
    <3>1. lock' = lock /\ pc[r] \in {"idle", "find", "auth"}
          /\ pc'[r] \in {"idle", "find", "auth", "lock"}
      BY <2>3 DEF FindBegin, FindNext, FindHit, FindMiss, AuthRefuse, AuthAccept, CacheInv, TypeOK
    <3>2. QED BY <3>1, <1>1 DEF CacheInv, Locks, Inserting
  <2>4. QED BY <2>1, <2>2, <2>3
<1>9. QED BY <1>1, <1>3, <1>5, <1>7, <1>8, RequestStep DEF Inserting

-----------------------------------------------------------------------------
(* An insertion: publication in the hash table, then the timer. *)

Nodes == [tok : Tokens \cup {NULL}, live : BOOLEAN, used : BOOLEAN, expTick : Nat, linked : BOOLEAN]

(* The step of the request that holds the lock: the others are not in an   *)
(* insertion, and the event function has not begun to remove.              *)
LEMMA OneInserts ==
  ASSUME CacheInv, NEW r \in Requests, Inserting(r) \/ pc[r] = "insert"
  PROVE  /\ lock = r /\ \A d \in Requests \ {r} : ~Inserting(d) /\ pc[d] \notin {"insert", "unlock"}
         /\ mpc \notin {"del", "free", "evt_unlock"}
  BY CacheAssumption DEF CacheInv, Locks, CacheAssumption

LEMMA PublishKeeps ==
  ASSUME CacheInv, NEW r \in Requests, InsertPublish(r)
  PROVE  CacheInv'
<1>0. Values /\ TypeOK
  BY TypedValues DEF CacheInv
<1>1. /\ lock = r /\ \A d \in Requests \ {r} : ~Inserting(d) /\ pc[d] \notin {"insert", "unlock"}
      /\ mpc \notin {"del", "free", "evt_unlock"} /\ pc[r] = "insert"
  BY OneInserts DEF InsertPublish
<1>2. PICK a \in Addrs, u \in UsedBytes :
        /\ ~node[a].live /\ ~Contains(chain, a)
        /\ node' = [node EXCEPT ![a] = [noNode EXCEPT !.tok = tok[r], !.live = TRUE, !.used = u]]
        /\ chain' = Append(chain, a)
        /\ ptr' = [ptr EXCEPT ![r] = a]
  <2>1. \E b \in FreeBlocks : b = CHOOSE c \in FreeBlocks : TRUE
    BY DEF InsertPublish
  <2>2. QED BY <2>1 DEF InsertPublish, FreeBlocks
<1>3. /\ UNCHANGED <<tick, prevTick, slot, lock, tok, stale, mainVars, memErr>>
      /\ pc' = [pc EXCEPT ![r] = "next"]
  BY DEF InsertPublish, ReqGoto
<1>4. /\ node'[a].live /\ \A b \in Addrs \ {a} : node'[b] = node[b]
      /\ node' \in [Addrs -> Nodes]
  <2>1. node \in [Addrs -> Nodes] /\ tok[r] \in Tokens \cup {NULL} /\ u \in BOOLEAN
    BY <1>0, CacheAssumption DEF TypeOK, Nodes, CacheAssumption
  <2>2. [noNode EXCEPT !.tok = tok[r], !.live = TRUE, !.used = u].live
    BY DEF noNode
  <2>3. [noNode EXCEPT !.tok = tok[r], !.live = TRUE, !.used = u] \in Nodes
    <3>1. 0 \in Nat
      OBVIOUS
    <3>2. QED BY <2>1, <3>1, Zenon DEF Nodes, noNode
  <2>4. QED BY <1>2, <2>1, <2>2, <2>3
<1>5. /\ chain' \in Seq(Addrs) /\ IsInjective(chain')
      /\ \A b : Contains(chain', b) <=> Contains(chain, b) \/ b = a
  BY <1>0, <1>2, AppendFacts DEF Values, CacheInv, Tables
<1>6. /\ pc'[r] = "next" /\ ptr'[r] = a
      /\ \A d \in Requests \ {r} : pc'[d] = pc[d] /\ ptr'[d] = ptr[d]
  BY <1>0, <1>2, <1>3 DEF Values
<1>7. \A s \in SlotIds : ~Contains(slot[s], a)
  BY <1>2 DEF CacheInv, Tables, Waiting
<1>8. mpc = "event" => fired # a
  BY <1>2 DEF CacheInv, Firing
<1>9. TypeOK'
  BY <1>0, <1>2, <1>3, <1>4, <1>5 DEF TypeOK, Nodes, reqSteps, mainVars
<1>10. Locks' /\ Clock' /\ Firing' /\ Pointers'
  <2>1. Locks'
    BY <1>0, <1>1, <1>3, <1>6 DEF CacheInv, Locks, Inserting, mainVars
  <2>2. Clock'
    BY <1>3 DEF CacheInv, Clock, mainVars
  <2>3. Firing'
    BY <1>0, <1>1, <1>3, <1>4, <1>5, <1>8 DEF CacheInv, Firing, mainVars, Values
  <2>4. Pointers'
    <3> SUFFICES ASSUME NEW d \in Requests, ptr'[d] # NULL, ~stale'[d] PROVE node'[ptr'[d]].live
      BY DEF Pointers
    <3>1. CASE d = r
      BY <3>1, <1>4, <1>6
    <3>2. CASE d # r
      <4>1. ptr'[d] = ptr[d] /\ ptr[d] \in Addrs /\ node[ptr[d]].live
        BY <3>2, <1>0, <1>3, <1>6 DEF CacheInv, Pointers, Values
      <4>2. QED BY <4>1, <1>4
    <3>3. QED BY <3>1, <3>2
  <2>5. QED BY <2>1, <2>2, <2>3, <2>4
<1>11. Insertions'
  BY <1>1, <1>3, <1>4, <1>5, <1>6, <1>7, <1>8 DEF Insertions, Inserting, mainVars
<1>12. Tables'
  <2>1. \A b \in Addrs \ {a} : Held(b) => Held(b)'
    BY <1>1, <1>6 DEF Held, Inserting
  <2>2. Held(a)'
    BY <1>6 DEF Held
  <2>3. \A b \in Addrs \ {a} : \A s \in SlotIds : Waiting(b, s) => Waiting(b, s)'
    BY <1>3, <1>4, <1>5 DEF Waiting, mainVars
  <2>4. QED BY <1>1, <1>3, <1>4, <1>5, <1>7, <2>1, <2>2, <2>3 DEF CacheInv, Tables, mainVars
<1>13. QED BY <1>9, <1>10, <1>11, <1>12 DEF CacheInv

(* A step on the node that is being inserted which leaves it allocated.    *)
LEMMA InsertionStep ==
  ASSUME CacheInv, NEW r \in Requests, Inserting(r), NEW q \in {"start", "link"},
         NEW n \in Nodes, n.live, q = "link" => tick < n.expTick /\ n.expTick <= tick + ExpTm,
         node' = [node EXCEPT ![ptr[r]] = n],
         pc' = [pc EXCEPT ![r] = q],
         UNCHANGED <<tick, prevTick, slot, chain, lock, tok, ptr, stale, mainVars, memErr>>
  PROVE  CacheInv'
<1>0. Values /\ TypeOK
  BY TypedValues DEF CacheInv
<1>1. lock = r /\ \A d \in Requests \ {r} : ~Inserting(d) /\ pc[d] \notin {"insert", "unlock"}
  BY OneInserts
<1>2. /\ ptr[r] \in Addrs /\ node[ptr[r]].live /\ Contains(chain, ptr[r])
      /\ \A s \in SlotIds : ~Contains(slot[s], ptr[r])
      /\ mpc \in {"event", "del", "free"} => fired # ptr[r]
  BY DEF CacheInv, Insertions
<1>3. /\ node'[ptr[r]] = n /\ \A b \in Addrs \ {ptr[r]} : node'[b] = node[b]
      /\ node' \in [Addrs -> Nodes]
  BY <1>0, <1>2 DEF TypeOK, Nodes
<1>4. pc'[r] = q /\ Inserting(r)' /\ \A d \in Requests \ {r} : pc'[d] = pc[d]
  BY <1>0 DEF Values, Inserting
<1>5. TypeOK'
  BY <1>0, <1>3, <1>4 DEF TypeOK, Nodes, reqSteps, mainVars
<1>6. Locks'
  BY <1>0, <1>1, <1>4 DEF CacheInv, Locks, Inserting, mainVars
<1>7. Clock' /\ Firing' /\ Pointers'
  BY <1>0, <1>2, <1>3 DEF CacheInv, Clock, Firing, Pointers, mainVars, Values
<1>8. Insertions'
  BY <1>1, <1>2, <1>3, <1>4 DEF Insertions, Inserting, mainVars
<1>9. Tables'
  <2>1. \A b \in Addrs : Held(b) => Held(b)'
    BY <1>4 DEF Held, Inserting
  <2>2. Held(ptr[r])
    BY DEF Held, Inserting
  <2>3. \A b \in Addrs \ {ptr[r]} : \A s \in SlotIds : Waiting(b, s) => Waiting(b, s)'
    BY <1>3 DEF Waiting, mainVars
  <2>4. QED BY <1>2, <1>3, <2>1, <2>2, <2>3 DEF CacheInv, Tables, mainVars
<1>10. QED BY <1>5, <1>6, <1>7, <1>8, <1>9 DEF CacheInv

LEMMA InsertKeeps ==
  ASSUME CacheInv, NEW r \in Requests, InsertNext(r) \/ StartRead(r)
  PROVE  CacheInv'
<1>0. Values /\ TypeOK
  BY TypedValues DEF CacheInv
<1>1. Inserting(r)
  BY DEF InsertNext, StartRead, Inserting
<1>2. ptr[r] \in Addrs /\ node[ptr[r]].live /\ node \in [Addrs -> Nodes] /\ node[ptr[r]] \in Nodes
  BY <1>0, <1>1 DEF CacheInv, Insertions, TypeOK, Nodes
<1>3. CASE InsertNext(r)
  <2> DEFINE n == [node[ptr[r]] EXCEPT !.linked = TRUE]
  <2>1. node' = [node EXCEPT ![ptr[r]] = n]
    BY <1>3 DEF InsertNext
  <2>2. n \in Nodes /\ n.live
    BY <1>2 DEF Nodes
  <2> HIDE DEF n
  <2>3. "start" \in {"start", "link"} /\ "start" # "link"
    OBVIOUS
  <2>4. /\ pc' = [pc EXCEPT ![r] = "start"]
        /\ UNCHANGED <<tick, prevTick, slot, chain, lock, tok, ptr, stale, mainVars, memErr>>
    BY <1>3 DEF InsertNext, ReqGoto
  <2>5. QED BY <1>1, <2>1, <2>2, <2>3, <2>4, InsertionStep
<1>4. CASE StartRead(r)
  <2> DEFINE n == [node[ptr[r]] EXCEPT !.used = TRUE, !.expTick = tick + ExpTm]
  <2>1. node' = [node EXCEPT ![ptr[r]] = n]
    BY <1>2, <1>4 DEF StartRead
  <2>2. tick + ExpTm \in Nat
    BY <1>0 DEF Values
  <2>3. n \in Nodes
    BY <1>2, <2>2, Zenon DEF Nodes
  <2>4. n.live /\ n.expTick = tick + ExpTm
    BY <1>2 DEF Nodes
  <2> HIDE DEF n
  <2>5. tick < n.expTick /\ n.expTick <= tick + ExpTm
    BY <1>0, <2>4, CacheAssumption DEF Values, CacheAssumption
  <2>6. /\ pc' = [pc EXCEPT ![r] = "link"]
        /\ UNCHANGED <<tick, prevTick, slot, chain, lock, tok, ptr, stale, mainVars, memErr>>
    BY <1>4 DEF StartRead, ReqGoto
  <2>7. QED BY <1>1, <2>1, <2>3, <2>4, <2>5, <2>6, InsertionStep
<1>5. QED BY <1>3, <1>4

(* The timer refuses: the node is freed and stays in the hash table.       *)
LEMMA RefusedKeeps ==
  ASSUME CacheInv, NEW r \in Requests, StartRefused(r)
  PROVE  CacheInv'
<1>0. Values /\ TypeOK
  BY TypedValues DEF CacheInv
<1>1. pc[r] = "start" /\ Inserting(r)
  BY DEF StartRefused, Inserting
<1>2. lock = r /\ \A d \in Requests \ {r} : ~Inserting(d) /\ pc[d] \notin {"insert", "unlock"}
  BY <1>1, OneInserts
<1>3. /\ ptr[r] \in Addrs /\ node[ptr[r]].live /\ Contains(chain, ptr[r])
      /\ \A s \in SlotIds : ~Contains(slot[s], ptr[r])
      /\ mpc \in {"event", "del", "free"} => fired # ptr[r]
  BY <1>1 DEF CacheInv, Insertions
<1>4. /\ node' = [node EXCEPT ![ptr[r]] = noNode]
      /\ stale' = [d \in Requests |-> stale[d] \/ ptr[d] = ptr[r]]
      /\ pc' = [pc EXCEPT ![r] = "unlock"]
      /\ UNCHANGED <<tick, prevTick, slot, chain, lock, tok, ptr, mainVars, memErr>>
  BY DEF StartRefused, Free, ReqGoto
<1>5. noNode \in Nodes /\ ~noNode.live
  BY DEF noNode, Nodes
<1>6. /\ ~node'[ptr[r]].live /\ \A b \in Addrs \ {ptr[r]} : node'[b] = node[b]
      /\ node' \in [Addrs -> Nodes]
  BY <1>0, <1>3, <1>4, <1>5 DEF TypeOK, Nodes
<1>7. pc'[r] = "unlock" /\ ~Inserting(r)' /\ \A d \in Requests \ {r} : pc'[d] = pc[d]
  BY <1>0, <1>4 DEF Values, Inserting
<1>8. TypeOK'
  BY <1>0, <1>4, <1>6 DEF TypeOK, Nodes, reqSteps, mainVars
<1>9. Locks'
  BY <1>0, <1>1, <1>2, <1>4, <1>7 DEF CacheInv, Locks, Inserting, mainVars
<1>10. Clock' /\ Firing' /\ Insertions'
  BY <1>0, <1>2, <1>3, <1>4, <1>6, <1>7
     DEF CacheInv, Clock, Firing, Insertions, Inserting, mainVars, Values
<1>11. Pointers'
  BY <1>0, <1>3, <1>4, <1>6 DEF CacheInv, Pointers, Values, TypeOK
<1>12. Tables'
  <2>1. \A b \in Addrs \ {ptr[r]} : Held(b) => Held(b)'
    BY <1>4, <1>7 DEF Held, Inserting
  <2>2. \A b \in Addrs \ {ptr[r]} : \A s \in SlotIds : Waiting(b, s) => Waiting(b, s)'
    BY <1>4, <1>6 DEF Waiting, mainVars
  <2>3. QED BY <1>3, <1>4, <1>6, <2>1, <2>2 DEF CacheInv, Tables, mainVars
<1>13. QED BY <1>8, <1>9, <1>10, <1>11, <1>12 DEF CacheInv

(* The tick of a node in the timer table, or about to be linked, is less   *)
(* than a lap ahead of the handler's.                                      *)
LEMMA WithinLap ==
  ASSUME Values, Clock, NEW t \in Nat, cur <= t, t <= tick + ExpTm, SlotOf(t) = SlotOf(cur)
  PROVE  t = cur
<1>1. t - cur < Slots
  BY DEF Values, Clock
<1>2. QED BY <1>1, SlotFacts DEF Values

LEMMA LinkKeeps ==
  ASSUME CacheInv, NEW r \in Requests, StartLink(r)
  PROVE  CacheInv'
<1>0. Values /\ TypeOK
  BY TypedValues DEF CacheInv
<1>1. pc[r] = "link" /\ Inserting(r)
  BY DEF StartLink, Inserting
<1>2. /\ lock = r /\ \A d \in Requests \ {r} : ~Inserting(d) /\ pc[d] \notin {"insert", "unlock"}
      /\ mpc \notin {"del", "free", "evt_unlock"}
  BY <1>1, OneInserts
<1> DEFINE a == ptr[r]
           k == SlotOf(node[a].expTick)
<1>3. /\ a \in Addrs /\ node[a].live /\ Contains(chain, a)
      /\ \A s \in SlotIds : ~Contains(slot[s], a)
      /\ mpc \in {"event", "del", "free"} => fired # a
      /\ tick < node[a].expTick /\ node[a].expTick <= tick + ExpTm
  BY <1>1 DEF CacheInv, Insertions
<1>4. k \in SlotIds /\ k # SlotOf(cur)
  <2>1. node[a].expTick # cur /\ cur <= node[a].expTick /\ node[a].expTick \in Nat
        /\ k \in SlotIds
    BY <1>0, <1>3, SMTT(30) DEF Values
  <2>2. Clock
    BY DEF CacheInv
  <2>3. QED BY <1>0, <1>3, <2>1, <2>2, WithinLap
<1>5. /\ slot' = [slot EXCEPT ![k] = Append(slot[k], a)]
      /\ pc' = [pc EXCEPT ![r] = "unlock"]
      /\ UNCHANGED <<tick, prevTick, chain, node, lock, tok, ptr, stale, mainVars, memErr>>
  BY DEF StartLink, ReqGoto
<1> HIDE DEF k, a
<1>6. /\ slot'[k] = Append(slot[k], a) /\ \A s \in SlotIds \ {k} : slot'[s] = slot[s]
      /\ slot[k] \in Seq(Addrs)
  BY <1>0, <1>4, <1>5 DEF Values
<1>7. /\ slot'[k] \in Seq(Addrs) /\ IsInjective(slot'[k])
      /\ \A b : Contains(slot'[k], b) <=> Contains(slot[k], b) \/ b = a
  BY <1>3, <1>4, <1>6, AppendFacts DEF CacheInv, Tables
<1>8. pc'[r] = "unlock" /\ ~Inserting(r)' /\ \A d \in Requests \ {r} : pc'[d] = pc[d]
  BY <1>0, <1>5 DEF Values, Inserting
<1>9. TypeOK'
  BY <1>0, <1>4, <1>5, <1>7 DEF TypeOK, reqSteps, mainVars
<1>10. Locks'
  BY <1>0, <1>1, <1>2, <1>5, <1>8 DEF CacheInv, Locks, Inserting, mainVars
<1>11. Clock' /\ Pointers' /\ Insertions'
  BY <1>0, <1>2, <1>5, <1>8 DEF CacheInv, Clock, Pointers, Insertions, Inserting, mainVars
<1>12. Firing'
  <2>1. slot'[SlotOf(cur)] = slot[SlotOf(cur)]
    BY <1>0, <1>4, <1>6 DEF Values
  <2>2. mpc \in {"event", "del", "free"} => \A s \in SlotIds : ~Contains(slot'[s], fired)
    BY <1>3, <1>6, <1>7, <1>4 DEF CacheInv, Firing
  <2>3. QED BY <1>5, <2>1, <2>2 DEF CacheInv, Firing, mainVars
<1>13. Tables'
  <2>1. \A b \in Addrs \ {a} : Held(b) => Held(b)'
    BY <1>2, <1>5, <1>8 DEF Held, Inserting, a
  <2>2. \A b \in Addrs, s \in SlotIds : Waiting(b, s)' <=> Waiting(b, s)
    BY <1>5 DEF Waiting, mainVars
  <2>3. Waiting(a, k)
    BY <1>0, <1>3 DEF Waiting, k, Values
  <2>4. \A b \in Addrs : \A s \in SlotIds : Contains(slot'[s], b) => Waiting(b, s)'
    BY <1>4, <1>6, <1>7, <2>2, <2>3 DEF CacheInv, Tables
  <2>5. \A s \in SlotIds : IsInjective(slot'[s])
    BY <1>6, <1>7 DEF CacheInv, Tables
  <2>6. \A b \in Addrs : node[b].live /\ Contains(chain, b) =>
          Held(b)' \/ (mpc \in {"event", "del"} /\ fired = b) \/ Contains(slot'[SlotOf(node[b].expTick)], b)
    <3> TAKE b \in Addrs
    <3>1. CASE b = a
      BY <3>1, <1>7 DEF k
    <3>2. CASE b # a
      <4>1. SlotOf(node[b].expTick) \in SlotIds
        BY <1>0 DEF Values
      <4>2. QED BY <3>2, <4>1, <1>6, <1>7, <2>1 DEF CacheInv, Tables
    <3>3. QED BY <3>1, <3>2
  <2>7. QED BY <1>5, <2>4, <2>5, <2>6 DEF CacheInv, Tables, mainVars
<1>14. QED BY <1>9, <1>10, <1>11, <1>12, <1>13 DEF CacheInv

-----------------------------------------------------------------------------
(* The main loop *)

LEMMA ClockKeeps ==
  ASSUME CacheInv, ExecTmrTick \/ NextTick \/ HandlerReturn
  PROVE  CacheInv'
<1>0. Values /\ TypeOK
  BY TypedValues DEF CacheInv
<1>1. UNCHANGED <<cacheVars, reqVars, nxt, memErr>> /\ mpc \in {"sleep", "tick"}
  BY DEF ExecTmrTick, NextTick, HandlerReturn
<1> USE <1>1 DEF cacheVars, reqVars
<1>2. \A a \in Addrs : Held(a)' = Held(a)
  BY DEF Held
<1>3. CASE ExecTmrTick
  <2>1. PICK jump \in 1 .. MaxJump : Elapse(jump)
    BY <1>3 DEF ExecTmrTick
  <2>2. /\ mpc = "sleep" /\ tick = prevTick /\ cur = prevTick
        /\ tick' = tick + jump /\ tick + jump <= MaxTick
        /\ cur' = cur /\ prevTick' = prevTick /\ mpc' = "tick" /\ fired' = fired
    BY <1>0, <1>3, <2>1 DEF ExecTmrTick, Elapse, MainGoto, CacheInv, Clock, Values
  <2>3. TypeOK'
    BY <1>0, <2>2, CacheAssumption DEF TypeOK, CacheAssumption
  <2>4. Insertions'
    <3>1. \A r \in Requests : pc[r] = "link" => tick + jump <= node[ptr[r]].expTick - ExpTm + MaxStall
      BY <2>1 DEF Elapse
    <3>2. ASSUME NEW r \in Requests, Inserting(r), pc[r] = "link"
          PROVE  tick' < node[ptr[r]].expTick /\ node[ptr[r]].expTick <= tick' + ExpTm
      <4>1. ptr[r] \in Addrs /\ node[ptr[r]].expTick \in Nat
            /\ node[ptr[r]].expTick <= tick + ExpTm
        BY <1>0, <3>2 DEF CacheInv, Insertions, Values
      <4>2. tick' <= node[ptr[r]].expTick - ExpTm + MaxStall
        BY <2>2, <3>1, <3>2
      <4>3. MaxStall \in Int /\ MaxStall < ExpTm /\ ExpTm \in Int /\ tick \in Int /\ tick' \in Int
            /\ tick <= tick'
        BY <1>0, <2>2, CacheAssumption DEF Values, CacheAssumption
      <4>4. QED BY <4>1, <4>2, <4>3
    <3>3. QED BY <2>2, <3>2 DEF CacheInv, Insertions, Inserting
  <2>5. \A a \in Addrs, s \in SlotIds : Waiting(a, s) => Waiting(a, s)'
    BY <1>0, <2>2, SMTT(30) DEF Waiting, Values
  <2>6. Tables'
    BY <1>2, <2>2, <2>5 DEF CacheInv, Tables
  <2>7. Clock' /\ Firing' /\ Pointers' /\ Locks'
    BY <1>0, <2>2 DEF CacheInv, Clock, Firing, Pointers, Locks, Inserting, Values
  <2>8. QED BY <2>3, <2>4, <2>6, <2>7 DEF CacheInv
<1>4. CASE NextTick
  <2> DEFINE s == SlotOf(cur + 1)
  <2>1. /\ mpc = "tick" /\ cur < tick /\ cur' = cur + 1 /\ tick' = tick /\ prevTick' = prevTick
        /\ fired' = FirstOf(slot[s]) /\ mpc' = IF fired' = NULL THEN "tick" ELSE "node"
    BY <1>4 DEF NextTick, MainGoto
  <2>2. s \in SlotIds /\ slot[s] \in Seq(Addrs)
    <3>1. cur + 1 \in Nat
      BY <1>0 DEF Values
    <3>2. QED BY <1>0, <3>1, SlotFacts DEF Values
  <2>3. /\ fired' \in Addrs \cup {NULL}
        /\ \A b : Contains(slot[s], b) => fired' # NULL
    BY <2>1, <2>2, FirstFacts
  <2>4. TypeOK'
    BY <1>0, <2>1, <2>3 DEF TypeOK
  <2>5. \A a \in Addrs, t \in SlotIds : Contains(slot[t], a) /\ Waiting(a, t) => Waiting(a, t)'
    <3> SUFFICES ASSUME NEW a \in Addrs, NEW t \in SlotIds, Contains(slot[t], a), Waiting(a, t)
                 PROVE  Waiting(a, t)'
      OBVIOUS
    <3>1. node[a].expTick > cur /\ node[a].expTick \in Nat
      BY <1>0, <2>1 DEF Waiting, Values
    <3>2. node[a].expTick = cur' => t = s
      BY <2>1 DEF Waiting
    <3>3. node[a].expTick > cur' \/ (node[a].expTick = cur' /\ mpc' = "node")
      <4>1. CASE node[a].expTick = cur'
        BY <2>1, <2>3, <3>2, <4>1
      <4>2. CASE node[a].expTick # cur'
        <5>1. cur \in Nat
          BY <1>0 DEF Values
        <5>2. QED BY <2>1, <3>1, <4>2, <5>1
      <4>3. QED BY <4>1, <4>2
    <3>4. QED BY <2>1, <3>3 DEF Waiting
  <2>6. Tables'
    BY <1>2, <2>1, <2>5 DEF CacheInv, Tables
  <2>7. Clock' /\ Firing' /\ Pointers' /\ Locks' /\ Insertions'
    BY <1>0, <2>1 DEF CacheInv, Clock, Firing, Pointers, Locks, Insertions, Inserting, Values
  <2>8. QED BY <2>4, <2>6, <2>7 DEF CacheInv
<1>5. CASE HandlerReturn
  <2>1. /\ mpc = "tick" /\ cur = tick /\ prevTick' = cur /\ mpc' = "sleep"
        /\ tick' = tick /\ cur' = cur /\ fired' = fired
    BY <1>5 DEF HandlerReturn, MainGoto
  <2>2. TypeOK'
    BY <1>0, <2>1 DEF TypeOK
  <2>3. \A a \in Addrs, s \in SlotIds : Waiting(a, s) => Waiting(a, s)'
    BY <2>1 DEF Waiting
  <2>4. Tables'
    BY <1>2, <2>1, <2>3 DEF CacheInv, Tables
  <2>5. Clock' /\ Firing' /\ Pointers' /\ Locks' /\ Insertions'
    BY <1>0, <2>1 DEF CacheInv, Clock, Firing, Pointers, Locks, Insertions, Inserting, Values
  <2>6. QED BY <2>2, <2>4, <2>5 DEF CacheInv
<1>6. QED BY <1>3, <1>4, <1>5

(* The first node of the slot is due: the nodes in the slot of the         *)
(* handler's tick are those with that expiry.                              *)
LEMMA FirstIsDue ==
  ASSUME CacheInv, mpc = "node"
  PROVE  /\ fired \in Addrs /\ Contains(slot[SlotOf(cur)], fired)
         /\ node[fired].live /\ Contains(chain, fired)
         /\ node[fired].expTick = cur /\ ~Held(fired)
         /\ \A t \in SlotIds : Contains(slot[t], fired) => t = SlotOf(cur)
<1>0. Values /\ Clock
  BY TypedValues DEF CacheInv
<1>1. fired \in Addrs /\ Contains(slot[SlotOf(cur)], fired)
  BY <1>0, FirstFacts DEF CacheInv, Firing, Values
<1>2. Waiting(fired, SlotOf(cur))
  BY <1>0, <1>1 DEF CacheInv, Tables, Values
<1>3. node[fired].expTick = cur
  <2>1. /\ node[fired].expTick \in Nat /\ node[fired].expTick <= tick + ExpTm
        /\ cur <= node[fired].expTick /\ SlotOf(node[fired].expTick) = SlotOf(cur)
    BY <1>0, <1>1, <1>2 DEF Waiting, Values
  <2>2. QED BY <1>0, <2>1, WithinLap
<1>4. \A t \in SlotIds : Contains(slot[t], fired) => t = SlotOf(cur)
  BY <1>1, <1>3 DEF CacheInv, Tables, Waiting
<1>5. ~Held(fired)
  BY <1>0, <1>1 DEF Held, CacheInv, Insertions, Inserting, Values
<1>6. QED BY <1>1, <1>2, <1>3, <1>4, <1>5 DEF Waiting

LEMMA VisitKeeps == CacheInv /\ VisitFire => CacheInv'
<1> SUFFICES ASSUME CacheInv, VisitFire PROVE CacheInv'
  OBVIOUS
<1>0. Values /\ TypeOK /\ mpc = "node"
  BY TypedValues DEF CacheInv, VisitFire
<1>1. /\ fired \in Addrs /\ Contains(slot[SlotOf(cur)], fired)
      /\ node[fired].live /\ Contains(chain, fired)
      /\ node[fired].expTick = cur /\ ~Held(fired)
      /\ \A t \in SlotIds : Contains(slot[t], fired) => t = SlotOf(cur)
  BY <1>0, FirstIsDue
<1> DEFINE k == SlotOf(cur)
           n == [node[fired] EXCEPT !.used = FALSE, !.expTick = 0]
<1>2. /\ nxt' = NextOf(slot[k], fired)
      /\ slot' = [slot EXCEPT ![k] = Without(slot[k], fired)]
      /\ mpc' = "event"
      /\ UNCHANGED <<tick, prevTick, chain, lock, reqVars, cur, fired, memErr>>
  BY DEF VisitFire, MainGoto
<1>3. /\ node' = [node EXCEPT ![fired] = n] /\ n.live /\ n \in Nodes
  <2>1. node[fired] \in Nodes
    BY <1>0, <1>1 DEF TypeOK, Nodes
  <2>2. n \in Nodes
    <3>1. 0 \in Nat /\ FALSE \in BOOLEAN
      OBVIOUS
    <3>2. QED BY <2>1, <3>1, Zenon DEF Nodes
  <2>3. n.live
    BY <1>1, <2>1 DEF Nodes
  <2>4. node' = [node EXCEPT ![fired] = n]
    BY <1>1 DEF VisitFire
  <2>5. QED BY <2>2, <2>3, <2>4
<1>4. k \in SlotIds /\ slot[k] \in Seq(Addrs) /\ IsInjective(slot[k])
      /\ fired = FirstOf(slot[k])
  BY <1>0 DEF Values, CacheInv, Tables, Firing
<1> HIDE DEF k, n
<1>5. /\ slot'[k] \in Seq(Addrs) /\ IsInjective(slot'[k])
      /\ \A b : Contains(slot'[k], b) <=> Contains(slot[k], b) /\ b # fired
      /\ nxt' = FirstOf(slot'[k])
      /\ \A t \in SlotIds \ {k} : slot'[t] = slot[t]
  <2>1. slot'[k] = Without(slot[k], fired) /\ \A t \in SlotIds \ {k} : slot'[t] = slot[t]
    BY <1>0, <1>2, <1>4 DEF Values
  <2>2. QED BY <2>1, <1>1, <1>2, <1>4, WithoutFacts DEF k
<1>6. /\ node'[fired].live /\ (\A b \in Addrs \ {fired} : node'[b] = node[b])
      /\ node' \in [Addrs -> Nodes]
  BY <1>0, <1>1, <1>3 DEF TypeOK, Nodes
<1>7. \A t \in SlotIds : ~Contains(slot'[t], fired)
  BY <1>1, <1>5 DEF k
<1>8. \A b \in Addrs : Held(b)' = Held(b)
  BY <1>2 DEF Held, reqVars
<1>9. TypeOK'
  <2>1. nxt' \in Addrs \cup {NULL}
    BY <1>5, FirstFacts
  <2>2. slot' \in [SlotIds -> Seq(Addrs)]
    BY <1>0, <1>2, <1>4, <1>5 DEF TypeOK
  <2>3. QED BY <1>0, <1>2, <1>6, <2>1, <2>2 DEF TypeOK, Nodes, reqVars
<1>10. Locks' /\ Clock'
  BY <1>0, <1>2 DEF CacheInv, Locks, Clock, Inserting, reqVars
<1>11. Firing'
  BY <1>1, <1>2, <1>5, <1>6, <1>7 DEF Firing, k
<1>12. Pointers'
  BY <1>0, <1>2, <1>6 DEF CacheInv, Pointers, reqVars, Values
<1>13. Insertions'
  <2> SUFFICES ASSUME NEW r \in Requests, Inserting(r)
               PROVE  /\ ptr[r] \in Addrs /\ node'[ptr[r]].live /\ Contains(chain, ptr[r])
                      /\ \A t \in SlotIds : ~Contains(slot'[t], ptr[r])
                      /\ fired # ptr[r]
                      /\ pc[r] = "link" => /\ tick < node'[ptr[r]].expTick
                                           /\ node'[ptr[r]].expTick <= tick + ExpTm
    BY <1>2 DEF Insertions, Inserting, reqVars
  <2>1. fired # ptr[r]
    BY <1>1 DEF Held, Inserting
  <2>2. QED BY <2>1, <1>5, <1>6 DEF CacheInv, Insertions
<1>14. Tables'
  <2>1. \A b \in Addrs \ {fired} : \A t \in SlotIds : Waiting(b, t) => Waiting(b, t)'
    BY <1>0, <1>2, <1>6 DEF Waiting
  <2>2. \A b \in Addrs \ {fired} : Contains(slot[SlotOf(node[b].expTick)], b) =>
          Contains(slot'[SlotOf(node'[b].expTick)], b)
    BY <1>0, <1>5, <1>6 DEF Values
  <2>3. \A t \in SlotIds : IsInjective(slot'[t])
    BY <1>5 DEF CacheInv, Tables
  <2>4. \A b \in Addrs : \A t \in SlotIds : Contains(slot'[t], b) => Waiting(b, t)'
    BY <2>1, <1>5, <1>7 DEF CacheInv, Tables
  <2>5. QED BY <1>0, <1>1, <1>2, <1>6, <1>8, <2>2, <2>3, <2>4 DEF CacheInv, Tables
<1>15. QED BY <1>9, <1>10, <1>11, <1>12, <1>13, <1>14 DEF CacheInv

LEMMA LockKeeps == CacheInv /\ EvtLock => CacheInv'
<1> SUFFICES ASSUME CacheInv, EvtLock PROVE CacheInv'
  OBVIOUS
<1> USE DEF reqVars
<1>0. Values /\ TypeOK
  BY TypedValues DEF CacheInv
<1>1. /\ mpc = "event" /\ lock = NULL /\ lock' = Main /\ mpc' = "del"
      /\ UNCHANGED <<tick, prevTick, slot, chain, node, reqVars, cur, fired, nxt, memErr>>
  BY DEF EvtLock, MainGoto
<1>2. \A b \in Addrs : Held(b)' = Held(b)
  BY <1>1 DEF Held
<1>3. TypeOK' /\ Clock' /\ Firing' /\ Pointers' /\ Insertions'
  BY <1>0, <1>1 DEF CacheInv, TypeOK, Clock, Firing, Pointers, Insertions, Inserting
<1>4. Locks'
  BY <1>1, CacheAssumption DEF CacheInv, Locks, Inserting, CacheAssumption
<1>5. \A b \in Addrs, t \in SlotIds : Waiting(b, t) => Waiting(b, t)'
  BY <1>1 DEF Waiting
<1>6. Tables'
  BY <1>1, <1>2, <1>5 DEF CacheInv, Tables
<1>7. QED BY <1>3, <1>4, <1>6 DEF CacheInv

LEMMA DelKeeps == CacheInv /\ EvtDel => CacheInv'
<1> SUFFICES ASSUME CacheInv, EvtDel PROVE CacheInv'
  OBVIOUS
<1> USE DEF reqVars
<1>0. Values /\ TypeOK
  BY TypedValues DEF CacheInv
<1>1. /\ mpc = "del" /\ chain' = Without(chain, fired) /\ mpc' = "free"
      /\ UNCHANGED <<tick, prevTick, slot, node, lock, reqVars, cur, fired, nxt, memErr>>
  BY DEF EvtDel, MainGoto
<1>2. /\ fired \in Addrs /\ node[fired].live /\ Contains(chain, fired)
      /\ \A s \in SlotIds : ~Contains(slot[s], fired)
  BY <1>1 DEF CacheInv, Firing
<1>3. /\ chain' \in Seq(Addrs) /\ IsInjective(chain')
      /\ \A b : Contains(chain', b) <=> Contains(chain, b) /\ b # fired
  BY <1>0, <1>1, <1>2, WithoutFacts DEF Values, CacheInv, Tables
<1>4. \A b \in Addrs : Held(b)' = Held(b)
  BY <1>1 DEF Held
<1>5. \A r \in Requests : ~Inserting(r)
  BY <1>1, CacheAssumption DEF CacheInv, Locks, CacheAssumption
<1>6. TypeOK' /\ Clock' /\ Pointers' /\ Locks'
  BY <1>0, <1>1, <1>3 DEF CacheInv, TypeOK, Clock, Pointers, Locks, Inserting
<1>7. Firing' /\ Insertions'
  BY <1>1, <1>2, <1>5 DEF CacheInv, Firing, Insertions, Inserting
<1>8. Tables'
  <2>1. \A b \in Addrs, t \in SlotIds : Contains(slot[t], b) => b # fired /\ Waiting(b, t)'
    BY <1>1, <1>2, <1>3 DEF CacheInv, Tables, Waiting
  <2>2. QED BY <1>1, <1>3, <1>4, <2>1 DEF CacheInv, Tables
<1>9. QED BY <1>6, <1>7, <1>8 DEF CacheInv

LEMMA FreeKeeps == CacheInv /\ EvtFree => CacheInv'
<1> SUFFICES ASSUME CacheInv, EvtFree PROVE CacheInv'
  OBVIOUS
<1>0. Values /\ TypeOK
  BY TypedValues DEF CacheInv
<1>1. /\ mpc = "free" /\ mpc' = "evt_unlock"
      /\ node' = [node EXCEPT ![fired] = noNode]
      /\ stale' = [d \in Requests |-> stale[d] \/ ptr[d] = fired]
      /\ UNCHANGED <<tick, prevTick, slot, chain, lock, pc, tok, ptr, cur, fired, nxt, memErr>>
  BY DEF EvtFree, MainGoto, Free
<1>2. /\ fired \in Addrs /\ node[fired].live
      /\ \A s \in SlotIds : ~Contains(slot[s], fired)
  BY <1>1 DEF CacheInv, Firing
<1>3. noNode \in Nodes /\ ~noNode.live
  BY DEF noNode, Nodes
<1>4. /\ ~node'[fired].live /\ \A b \in Addrs \ {fired} : node'[b] = node[b]
      /\ node' \in [Addrs -> Nodes]
  BY <1>0, <1>1, <1>2, <1>3 DEF TypeOK, Nodes
<1>5. \A b \in Addrs : Held(b)' = Held(b)
  BY <1>1 DEF Held
<1>6. \A r \in Requests : ~Inserting(r)
  BY <1>1, CacheAssumption DEF CacheInv, Locks, CacheAssumption
<1>7. TypeOK'
  BY <1>0, <1>1, <1>4 DEF TypeOK, Nodes
<1>8. Clock' /\ Locks' /\ Firing' /\ Insertions'
  BY <1>0, <1>1, <1>6 DEF CacheInv, Clock, Locks, Firing, Insertions, Inserting
<1>9. Pointers'
  BY <1>0, <1>1, <1>4 DEF CacheInv, Pointers, Values, TypeOK
<1>10. Tables'
  <2>1. \A b \in Addrs, t \in SlotIds : Contains(slot[t], b) => b # fired /\ Waiting(b, t)'
    BY <1>1, <1>2, <1>4 DEF CacheInv, Tables, Waiting
  <2>2. QED BY <1>1, <1>4, <1>5, <2>1 DEF CacheInv, Tables
<1>11. QED BY <1>7, <1>8, <1>9, <1>10 DEF CacheInv

LEMMA UnlockKeeps == CacheInv /\ EvtUnlock => CacheInv'
<1> SUFFICES ASSUME CacheInv, EvtUnlock PROVE CacheInv'
  OBVIOUS
<1> USE DEF reqVars
<1>0. Values /\ TypeOK
  BY TypedValues DEF CacheInv
<1>1. /\ mpc = "evt_unlock" /\ lock' = NULL /\ fired' = nxt /\ nxt' = NULL
      /\ mpc' = IF nxt = NULL THEN "tick" ELSE "node"
      /\ UNCHANGED <<tick, prevTick, slot, chain, node, reqVars, cur, memErr>>
  BY DEF EvtUnlock, MainGoto, GoOn
<1>2. nxt = FirstOf(slot[SlotOf(cur)])
  BY <1>1 DEF CacheInv, Firing
<1>3. nxt = NULL => \A b : ~Contains(slot[SlotOf(cur)], b)
  BY <1>0, <1>2, FirstFacts DEF Values
<1>4. \A b \in Addrs : Held(b)' = Held(b)
  BY <1>1 DEF Held
<1>5. lock = Main /\ Main # NULL /\ \A r \in Requests : lock # r /\ NULL # r
  BY <1>1, CacheAssumption DEF CacheInv, Locks, CacheAssumption
<1>6. TypeOK' /\ Clock' /\ Pointers' /\ Firing'
  BY <1>0, <1>1, <1>2 DEF CacheInv, TypeOK, Clock, Pointers, Firing, Values
<1>7. \A r \in Requests : ~Inserting(r) /\ pc[r] \notin {"insert", "unlock"}
  BY <1>5 DEF CacheInv, Locks
<1>a. Locks' /\ Insertions'
  <2>1. Locks'
    BY <1>1, <1>5, <1>7 DEF Locks, Inserting
  <2>2. Insertions'
    BY <1>1, <1>7 DEF Insertions, Inserting
  <2>3. QED BY <2>1, <2>2
<1>8. Tables'
  <2>1. ASSUME NEW b \in Addrs, NEW t \in SlotIds, Contains(slot[t], b) PROVE Waiting(b, t)'
    <3>1. Waiting(b, t)
      BY <2>1 DEF CacheInv, Tables
    <3>2. node[b].expTick = cur => nxt # NULL
      BY <2>1, <3>1, <1>3 DEF Waiting
    <3>3. QED BY <3>1, <3>2, <1>1 DEF Waiting
  <2>2. QED BY <1>1, <1>4, <2>1 DEF CacheInv, Tables
<1>9. QED BY <1>6, <1>a, <1>8 DEF CacheInv

-----------------------------------------------------------------------------
LEMMA CacheInvNext == CacheInv /\ [Next]_vars => CacheInv'
<1> SUFFICES ASSUME CacheInv, [Next]_vars PROVE CacheInv'
  OBVIOUS
<1>1. ASSUME UNCHANGED <<tick, prevTick, cacheVars, reqVars, mainVars>>, memErr' \in BOOLEAN
      PROVE  CacheInv'
  <2> USE <1>1 DEF cacheVars, reqVars, mainVars
  <2>1. \A b \in Addrs : Held(b)' = Held(b)
    BY DEF Held
  <2>2. \A b \in Addrs, t \in SlotIds : Waiting(b, t)' = Waiting(b, t)
    BY DEF Waiting
  <2>3. Tables'
    BY <2>1, <2>2 DEF CacheInv, Tables
  <2>4. TypeOK' /\ Locks' /\ Clock' /\ Insertions' /\ Firing' /\ Pointers'
    BY DEF CacheInv, TypeOK, Locks, Clock, Insertions, Firing, Pointers, Inserting
  <2>5. QED BY <2>3, <2>4 DEF CacheInv
<1>2. ASSUME NEW r \in Requests, Request(r) PROVE CacheInv'
  <2>1. CASE FindBad(r) \/ InsertBad(r)
    BY <2>1, <1>1 DEF FindBad, InsertBad
  <2>2. QED BY <1>2, <2>1, FindKeeps, PublishKeeps, InsertKeeps, RefusedKeeps, LinkKeeps DEF Request
<1>3. ASSUME MainLoop PROVE CacheInv'
  <2>1. CASE EvtBad
    BY <2>1, <1>1 DEF EvtBad
  <2>2. QED
    BY <1>3, <2>1, ClockKeeps, VisitKeeps, LockKeeps, DelKeeps, FreeKeeps, UnlockKeeps DEF MainLoop
<1>4. CASE UNCHANGED vars
  <2>1. UNCHANGED <<tick, prevTick, cacheVars, reqVars, mainVars>> /\ memErr' = memErr
    BY <1>4 DEF vars
  <2>2. QED BY <2>1, <1>1 DEF CacheInv, TypeOK
<1>5. QED BY <1>2, <1>3, <1>4 DEF Next

(* The invariant holds in every reachable state.                           *)
THEOREM CacheInductive == Spec => []CacheInv
<1>1. QED BY CacheInvInit, CacheInvNext, PTL DEF Spec

LEMMA InvTimed ==
  ASSUME CacheInv, NEW a \in Addrs, Contains(slot[SlotOf(node[a].expTick)], a)
  PROVE  Timed(a)
<1>0. Values
  BY TypedValues DEF CacheInv
<1>1. \A s \in SlotIds : Contains(slot[s], a) => s = SlotOf(node[a].expTick)
  BY DEF CacheInv, Tables, Waiting
<1>2. \A s \in SlotIds : DOMAIN slot[s] = 1 .. Len(slot[s])
  BY <1>0, LenProperties DEF Values
<1>3. \A s \in SlotIds : \A i \in DOMAIN slot[s] : slot[s][i] = a => s = SlotOf(node[a].expTick)
  BY <1>1, <1>2 DEF Contains
<1>4. QED BY <1>3 DEF Timed, CacheInv, Tables, IsInjective

(* The hash table and the timer table hold the same tokens, each once in   *)
(* the slot of its expiry, no node is lost, and the handler misses none,   *)
(* whatever the requests insert while it walks a slot without the lock     *)
(* (rss_auth.c, rss_token.c).                                              *)
THEOREM CacheStaysExact == Spec => []CacheExact
<1>1. CacheInv => CacheExact
  <2> SUFFICES ASSUME CacheInv PROVE CacheExact
    OBVIOUS
  <2>0. Values
    BY TypedValues DEF CacheInv
  <2>1. \A s \in SlotIds : \A i \in DOMAIN slot[s] :
          slot[s][i] \in Addrs /\ Contains(slot[s], slot[s][i])
    <3>1. ASSUME NEW s \in SlotIds, NEW i \in DOMAIN slot[s]
          PROVE  slot[s][i] \in Addrs /\ Contains(slot[s], slot[s][i])
      BY <2>0, ListElements DEF Values
    <3>2. QED BY <3>1
  <2>2. \A j \in DOMAIN chain : chain[j] \in Addrs /\ Contains(chain, chain[j])
    BY <2>0, ListElements DEF Values
  <2>3. TablesAgree
    <3>1. \A s \in SlotIds : \A i \in DOMAIN slot[s] : Contains(chain, slot[s][i])
      BY <2>1 DEF CacheInv, Tables, Waiting
    <3>2. \A a \in Addrs : node[a].live => Contains(chain, a) \/ (mpc = "free" /\ fired = a)
      BY DEF CacheInv, Tables
    <3>3. ASSUME NEW a \in Addrs, Contains(chain, a)
          PROVE  ~node[a].live \/ Held(a) \/ (mpc \in {"event", "del"} /\ fired = a) \/ Timed(a)
      BY <3>3, InvTimed DEF CacheInv, Tables
    <3>4. QED BY <2>2, <3>1, <3>2, <3>3 DEF TablesAgree
  <2>4. NoneMissed
    <3>1. mpc = "node" => node[fired].expTick = cur
      BY FirstIsDue
    <3>2. ASSUME mpc = "sleep", NEW s \in SlotIds, NEW i \in DOMAIN slot[s]
          PROVE  node[slot[s][i]].expTick > prevTick
      <4>1. Waiting(slot[s][i], s) /\ slot[s][i] \in Addrs
        BY <2>1 DEF CacheInv, Tables
      <4>2. node[slot[s][i]].expTick > cur /\ node[slot[s][i]].expTick \in Nat
        BY <2>0, <3>2, <4>1 DEF Waiting, Values
      <4>3. prevTick <= cur
        BY DEF CacheInv, Clock
      <4>4. QED BY <2>0, <4>2, <4>3, SMTT(30) DEF Values
    <3>3. QED BY <3>1, <3>2 DEF NoneMissed
  <2>5. QED BY <2>3, <2>4 DEF CacheExact
<1>2. QED BY <1>1, CacheInductive, PTL

(* No request links a node into the slot that the handler is walking: what *)
(* is being inserted is due later than now, and less than a lap later.     *)
THEOREM NoRaceInSlot == Spec => []NoSlotRace
<1>1. CacheInv => NoSlotRace
  <2> SUFFICES ASSUME CacheInv, NEW r \in Requests, pc[r] = "link",
                      SlotOf(node[ptr[r]].expTick) = SlotOf(cur)
               PROVE  FALSE
    BY DEF NoSlotRace
  <2>1. Values /\ Clock
    BY TypedValues DEF CacheInv
  <2>2. /\ ptr[r] \in Addrs /\ tick < node[ptr[r]].expTick
        /\ node[ptr[r]].expTick <= tick + ExpTm
    BY DEF CacheInv, Insertions, Inserting
  <2>3. node[ptr[r]].expTick \in Nat /\ cur <= node[ptr[r]].expTick /\ node[ptr[r]].expTick # cur
    BY <2>1, <2>2 DEF Values
  <2>4. QED BY <2>1, <2>2, <2>3, WithinLap
<1>2. QED BY <1>1, CacheInductive, PTL

(* A token that is answered for from the cache is within its term, though  *)
(* the search holds no lock and may have come to the node long before.     *)
THEOREM HitsAreFresh == Spec => HitIsFresh
<1> DEFINE Fresh(r) == \/ Held(ptr[r])
                       \/ mpc \in {"event", "del", "free"} /\ fired = ptr[r]
                       \/ node[ptr[r]].expTick > cur
                       \/ node[ptr[r]].expTick = cur /\ mpc \notin {"sleep", "tick"}
<1>1. CacheInv => \A r \in Requests : FindHit(r) => Fresh(r)
  <2> SUFFICES ASSUME CacheInv, NEW r \in Requests, FindHit(r), ~Held(ptr[r]),
                      ~(mpc \in {"event", "del", "free"} /\ fired = ptr[r])
               PROVE  Waiting(ptr[r], SlotOf(node[ptr[r]].expTick))
    BY DEF Waiting
  <2>1. Values
    BY TypedValues DEF CacheInv
  <2>2. ptr[r] \in Addrs /\ node[ptr[r]].live
    BY <2>1 DEF FindHit, CacheInv, Pointers, Values
  <2>3. Contains(slot[SlotOf(node[ptr[r]].expTick)], ptr[r])
    BY <2>2 DEF CacheInv, Tables
  <2>4. QED BY <2>1, <2>2, <2>3 DEF CacheInv, Tables, Values
<1>2. CacheInv /\ [Next]_vars => [\A r \in Requests : FindHit(r) => Fresh(r)]_vars
  BY <1>1
<1>3. QED BY <1>2, CacheInductive, PTL DEF Spec, HitIsFresh
=============================================================================
