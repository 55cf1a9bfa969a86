----------------------------- MODULE ThrTqProof -----------------------------
(***************************************************************************)
(* Theorems about ThrTq, for any threads, any size of the queue and any    *)
(* number of pushes.                                                       *)
(***************************************************************************)
EXTENDS ThrTq, SequenceTheorems, TLAPS

(* A thread inside thrlib_tqPush owns pushMutx. *)
PushExclusive == \A p \in Producers : pc[p] \in pushSteps <=> pushMutx = p

(* At most one thread is inside thrlib_tqPop: by popMutx, or because a     *)
(* LOCK_FREE queue has one consumer.                                       *)
PopExclusive ==
  /\ LockType = "LOCKED" => \A c \in Consumers : pc[c] \in popSteps <=> popMutx = c
  /\ \A c, d \in Consumers : pc[c] \in popSteps /\ pc[d] \in popSteps => c = d

(* A push past the test of a full queue still finds the slot before first  *)
(* free; a pop past the test of an empty queue still finds an element.     *)
PushHasRoom ==
  \A p \in Producers : pc[p] \in {"push_store", "push_adv"} => ~IsFull
PopHasElmnt ==
  \A c \in Consumers : pc[c] \in {"pop_load", "pop_clear", "pop_adv"} => first # last

(* The elements queued are the accepted ones not delivered yet, in order.  *)
InWindow(i) ==
  IF first <= last THEN first <= i /\ i < last ELSE first <= i \/ i < last
Rank(i) ==
  IF first <= i THEN rcvd + 1 + i - first ELSE rcvd + 1 + i - first + MaxCnt
Cleared(i) == i = first /\ \E c \in Consumers : pc[c] = "pop_adv"
Contents == \A i \in Indices : InWindow(i) /\ ~Cleared(i) => elmnt[i] = Rank(i)
PushStored == \A p \in Producers : pc[p] = "push_adv" => elmnt[last] = sent + 1

DataInv ==
  ~overrun =>
    /\ PushHasRoom
    /\ PopHasElmnt
    /\ Contents
    /\ PushStored
    /\ FifoExact

IInv == TypeOK /\ PushExclusive /\ PopExclusive /\ DataInv

-----------------------------------------------------------------------------
(* Type correctness. *)

(* A thread steps from one label of its own call to another. *)
LEMMA TypeInit == Init => TypeOK
<1> SUFFICES ASSUME Init PROVE TypeOK
  OBVIOUS
<1> USE TqAssumption DEF TqAssumption, Init, Indices, Threads, NULL
<1>1. first \in Indices /\ last \in Indices /\ elmnt \in [Indices -> Nat]
  OBVIOUS
<1>2. pc \in [Threads -> {"idle"} \cup pushSteps \cup popSteps]
  OBVIOUS
<1>3. /\ \A p \in Producers : pc[p] \notin popSteps
      /\ \A c \in Consumers : pc[c] \notin pushSteps
  BY DEF pushSteps, popSteps
<1>4. rtElmnt \in [Consumers -> Nat] /\ cntReg \in [Threads -> Int]
  OBVIOUS
<1>5. QED BY <1>1, <1>2, <1>3, <1>4 DEF TypeOK

LEMMA TypePush == ASSUME TypeOK, NEW p \in Producers, Push(p) PROVE TypeOK'
<1> USE TqAssumption DEF TqAssumption, TypeOK, Indices, Threads, pushSteps, popSteps, que, hist, Goto
<1>1. CASE PushLock(p)        BY <1>1 DEF PushLock
<1>2. CASE PushFull(p)        BY <1>2 DEF PushFull
<1>3. CASE PushCheck(p)       BY <1>3 DEF PushCheck
<1>4. CASE PushStore(p)       BY <1>4 DEF PushStore
<1>5. CASE PushAdvance(p)     BY <1>5 DEF PushAdvance, NextIdx
<1>6. CASE PushLoadCnt(p)     BY <1>6 DEF PushLoadCnt
<1>7. CASE PushStoreCnt(p)    BY <1>7 DEF PushStoreCnt
<1>8. QED BY <1>1, <1>2, <1>3, <1>4, <1>5, <1>6, <1>7 DEF Push

LEMMA TypePop == ASSUME TypeOK, NEW c \in Consumers, Pop(c) PROVE TypeOK'
<1> USE TqAssumption DEF TqAssumption, TypeOK, Indices, Threads, pushSteps, popSteps, que, hist, Goto,
        PopUnlock, NULL
<1>1. CASE PopLock(c)         BY <1>1 DEF PopLock
<1>2. CASE PopEmpty(c)        BY <1>2 DEF PopEmpty
<1>3. CASE PopCheck(c)        BY <1>3 DEF PopCheck
<1>4. CASE PopLoad(c)         BY <1>4 DEF PopLoad
<1>5. CASE PopClear(c)        BY <1>5 DEF PopClear
<1>6. CASE PopAdvance(c)      BY <1>6 DEF PopAdvance, NextIdx
<1>7. CASE PopLoadCnt(c)      BY <1>7 DEF PopLoadCnt
<1>8. CASE PopStoreCnt(c)     BY <1>8 DEF PopStoreCnt
<1>9. QED BY <1>1, <1>2, <1>3, <1>4, <1>5, <1>6, <1>7, <1>8 DEF Pop

LEMMA TypeStep == TypeOK /\ [Next]_vars => TypeOK'
<1> SUFFICES ASSUME TypeOK, [Next]_vars PROVE TypeOK'
  OBVIOUS
<1>1. CASE \E p \in Producers : Push(p)  BY <1>1, TypePush
<1>2. CASE \E c \in Consumers : Pop(c)   BY <1>2, TypePop
<1>3. CASE UNCHANGED vars
  BY <1>3 DEF vars, que, hist, TypeOK, Indices, Threads
<1>4. QED BY <1>1, <1>2, <1>3 DEF Next

(* Every reachable state of the queue is well typed: first and last stay   *)
(* inside the array whatever the interleaving of pushes and pops.          *)
THEOREM TypeCorrect == Spec => []TypeOK
<1>1. TypeOK /\ [Next]_vars => TypeOK'  BY TypeStep
<1>2. QED BY TypeInit, <1>1, PTL DEF Spec

-----------------------------------------------------------------------------
(* Mutual exclusion on each side. *)

Exclusive == PushExclusive /\ PopExclusive

LEMMA ExclusiveInit == Init => Exclusive
BY TqAssumption DEF TqAssumption, Init, Exclusive, PushExclusive, PopExclusive, Threads, pushSteps, popSteps

LEMMA ExclusivePush ==
  ASSUME TypeOK, Exclusive, NEW p \in Producers, Push(p) PROVE Exclusive'
<1> USE TqAssumption DEF TqAssumption, TypeOK, Threads, pushSteps, popSteps, Goto, Exclusive,
        PushExclusive, PopExclusive
<1>1. CASE PushLock(p)        BY <1>1 DEF PushLock
<1>2. CASE PushFull(p)        BY <1>2 DEF PushFull
<1>3. CASE PushCheck(p)       BY <1>3 DEF PushCheck
<1>4. CASE PushStore(p)       BY <1>4 DEF PushStore
<1>5. CASE PushAdvance(p)     BY <1>5 DEF PushAdvance
<1>6. CASE PushLoadCnt(p)     BY <1>6 DEF PushLoadCnt
<1>7. CASE PushStoreCnt(p)    BY <1>7 DEF PushStoreCnt
<1>8. QED BY <1>1, <1>2, <1>3, <1>4, <1>5, <1>6, <1>7 DEF Push

LEMMA ExclusivePop ==
  ASSUME TypeOK, Exclusive, NEW c \in Consumers, Pop(c) PROVE Exclusive'
<1> USE TqAssumption DEF TqAssumption, TypeOK, Threads, pushSteps, popSteps, Goto, Exclusive,
        PushExclusive, PopExclusive, PopUnlock
<1>1. CASE PopLock(c)         BY <1>1 DEF PopLock
<1>2. CASE PopEmpty(c)        BY <1>2 DEF PopEmpty
<1>3. CASE PopCheck(c)        BY <1>3 DEF PopCheck
<1>4. CASE PopLoad(c)         BY <1>4 DEF PopLoad
<1>5. CASE PopClear(c)        BY <1>5 DEF PopClear
<1>6. CASE PopAdvance(c)      BY <1>6 DEF PopAdvance
<1>7. CASE PopLoadCnt(c)      BY <1>7 DEF PopLoadCnt
<1>8. CASE PopStoreCnt(c)     BY <1>8 DEF PopStoreCnt
<1>9. QED BY <1>1, <1>2, <1>3, <1>4, <1>5, <1>6, <1>7, <1>8 DEF Pop

LEMMA ExclusiveStep == TypeOK /\ Exclusive /\ [Next]_vars => Exclusive'
<1> SUFFICES ASSUME TypeOK, Exclusive, [Next]_vars PROVE Exclusive'
  OBVIOUS
<1>1. CASE \E p \in Producers : Push(p)  BY <1>1, ExclusivePush
<1>2. CASE \E c \in Consumers : Pop(c)   BY <1>2, ExclusivePop
<1>3. CASE UNCHANGED vars
  BY <1>3 DEF vars, que, hist, Exclusive, PushExclusive, PopExclusive
<1>4. QED BY <1>1, <1>2, <1>3 DEF Next

-----------------------------------------------------------------------------
(* The contents of the queue. *)

LEMMA DataInit == Init => DataInv
BY TqAssumption DEF TqAssumption, Init, DataInv, PushHasRoom, PopHasElmnt, Contents,
   PushStored, FifoExact, InWindow, Indices, Threads, Queued

(* What a push does to the data.  Only two of its steps touch it: the store *)
(* goes to a slot outside the window first .. last - 1, and advancing last  *)
(* adds that slot, unless it makes last meet first.                         *)
LEMMA DataPush ==
  ASSUME TypeOK, Exclusive, DataInv, NEW p \in Producers, Push(p)
  PROVE  DataInv'
<1> SUFFICES ASSUME ~overrun'
             PROVE  (PushHasRoom /\ PopHasElmnt /\ Contents /\ PushStored /\ FifoExact)'
  BY DEF DataInv
<1> USE TqAssumption DEF TqAssumption, Goto, Threads
<1>a. ~overrun
  BY DEF Push, PushLock, PushFull, PushCheck, PushStore, PushAdvance, PushLoadCnt,
         PushStoreCnt, hist, TypeOK
<1>b. PushHasRoom /\ PopHasElmnt /\ Contents /\ PushStored /\ FifoExact
  BY <1>a DEF DataInv
<1>c. \A q \in Producers : pc[q] \in pushSteps /\ pc[p] \in pushSteps => q = p
  BY DEF Exclusive, PushExclusive
<1>d. \A c \in Consumers : pc'[c] = pc[c] /\ rtElmnt' = rtElmnt
  BY DEF TypeOK, Push, PushLock, PushFull, PushCheck, PushStore, PushAdvance, PushLoadCnt,
         PushStoreCnt
<1>1. CASE PushLock(p) \/ PushFull(p) \/ PushCheck(p) \/ PushLoadCnt(p) \/ PushStoreCnt(p)
  <2>1. first' = first /\ last' = last /\ elmnt' = elmnt /\ UNCHANGED hist
    BY <1>1 DEF PushLock, PushFull, PushCheck, PushLoadCnt, PushStoreCnt, que
  <2>2. PushHasRoom'
    BY <1>1, <1>b, <2>1 DEF PushHasRoom, IsFull, PushLock, PushFull, PushCheck, PushLoadCnt,
       PushStoreCnt, TypeOK
  <2>3. PopHasElmnt'  BY <1>b, <1>d, <2>1 DEF PopHasElmnt
  <2>4. Contents'
    BY <1>b, <1>d, <2>1 DEF Contents, InWindow, Cleared, Rank, hist, Indices
  <2>5. PushStored'
    BY <1>1, <1>b, <2>1 DEF PushStored, PushLock, PushFull, PushCheck, PushLoadCnt,
       PushStoreCnt, TypeOK, hist
  <2>6. FifoExact'  BY <1>b, <1>d, <1>a, <2>1 DEF FifoExact, Queued, hist
  <2>7. QED BY <2>2, <2>3, <2>4, <2>5, <2>6
<1>2. CASE PushStore(p)
  <2>1. /\ first' = first /\ last' = last /\ UNCHANGED hist
        /\ elmnt' = [elmnt EXCEPT ![last] = sent + 1]
        /\ pc[p] = "push_store" /\ pc' = [pc EXCEPT ![p] = "push_adv"]
    BY <1>2 DEF PushStore
  <2>2. PushHasRoom'
    BY <1>b, <2>1 DEF PushHasRoom, IsFull, TypeOK
  <2>3. PopHasElmnt'  BY <1>b, <1>d, <2>1 DEF PopHasElmnt
  <2>4. ~InWindow(last)  BY DEF InWindow, TypeOK, Indices
  <2>5. Contents'
    BY <1>b, <1>d, <2>1, <2>4 DEF Contents, InWindow, Cleared, Rank, hist, TypeOK, Indices
  <2>6. PushStored'
    BY <1>b, <1>c, <2>1 DEF PushStored, TypeOK, hist, pushSteps
  <2>7. FifoExact'  BY <1>b, <1>d, <1>a, <2>1 DEF FifoExact, Queued, hist
  <2>8. QED BY <2>2, <2>3, <2>5, <2>6, <2>7
<1>3. CASE PushAdvance(p)
  <2>1. /\ first' = first /\ elmnt' = elmnt /\ rcvd' = rcvd /\ lastRcv' = lastRcv
        /\ last' = NextIdx(last) /\ sent' = sent + 1
        /\ pc[p] = "push_adv" /\ pc' = [pc EXCEPT ![p] = "push_load_cnt"]
        /\ NextIdx(last) # first
    BY <1>3 DEF PushAdvance
  <2>2. \A q \in Producers : pc'[q] \notin {"push_store", "push_adv"}
    BY <1>c, <2>1 DEF TypeOK, pushSteps
  <2>3. PushHasRoom' /\ PushStored'  BY <2>2 DEF PushHasRoom, PushStored
  <2>4. PopHasElmnt'  BY <1>b, <1>d, <2>1 DEF PopHasElmnt
  <2>5. elmnt[last] = sent + 1  BY <1>b, <2>1 DEF PushStored
  <2>6. sent - rcvd = Queued  BY <1>a, <1>b DEF FifoExact
  <2>7. Queued' = Queued + 1
    BY <2>1 DEF Queued, NextIdx, TypeOK, Indices
  <2>8. Contents'
    <3> SUFFICES ASSUME NEW i \in Indices, InWindow(i)', ~Cleared(i)'
                 PROVE  elmnt'[i] = Rank(i)'
      BY DEF Contents, Indices
    <3>1. ~Cleared(i)  BY <1>d, <2>1 DEF Cleared
    <3>2. Rank(i)' = Rank(i)  BY <2>1 DEF Rank
    <3>3. CASE i = last
      <4>1. Rank(last) = rcvd + 1 + Queued
        BY DEF Rank, Queued, TypeOK, Indices
      <4>2. QED BY <3>2, <3>3, <4>1, <2>1, <2>5, <2>6 DEF TypeOK
    <3>4. CASE i # last
      <4>1. InWindow(i)
        BY <3>4, <2>1 DEF InWindow, NextIdx, TypeOK, Indices
      <4>2. QED BY <3>1, <3>2, <4>1, <1>b, <2>1 DEF Contents
    <3>5. QED BY <3>3, <3>4
  <2>9. FifoExact'
    BY <1>b, <1>d, <1>a, <2>1, <2>6, <2>7 DEF FifoExact, TypeOK
  <2>10. QED BY <2>3, <2>4, <2>8, <2>9
<1>4. QED BY <1>1, <1>2, <1>3 DEF Push

(* What a pop does to the data.  It empties and then leaves the first slot *)
(* of the window, which no push can have reached.                          *)
LEMMA DataPop ==
  ASSUME TypeOK, Exclusive, DataInv, NEW c \in Consumers, Pop(c)
  PROVE  DataInv'
<1> SUFFICES ASSUME ~overrun'
             PROVE  (PushHasRoom /\ PopHasElmnt /\ Contents /\ PushStored /\ FifoExact)'
  BY DEF DataInv
<1> USE TqAssumption DEF TqAssumption, Goto, Threads
<1>a. ~overrun /\ last' = last /\ sent' = sent
  BY DEF Pop, PopLock, PopEmpty, PopCheck, PopLoad, PopClear, PopAdvance, PopLoadCnt,
         PopStoreCnt, hist, que, TypeOK
<1>b. PushHasRoom /\ PopHasElmnt /\ Contents /\ PushStored /\ FifoExact
  BY <1>a DEF DataInv
<1>c. \A d \in Consumers : pc[d] \in popSteps /\ pc[c] \in popSteps => d = c
  BY DEF Exclusive, PopExclusive
<1>d. \A p \in Producers : pc'[p] = pc[p]
  BY DEF TypeOK, Pop, PopLock, PopEmpty, PopCheck, PopLoad, PopClear, PopAdvance, PopLoadCnt,
         PopStoreCnt
<1>1. CASE PopLock(c) \/ PopEmpty(c) \/ PopCheck(c) \/ PopLoadCnt(c) \/ PopStoreCnt(c)
  <2>1. first' = first /\ elmnt' = elmnt /\ UNCHANGED hist
    BY <1>1 DEF PopLock, PopEmpty, PopCheck, PopLoadCnt, PopStoreCnt, que
  <2>2. PushHasRoom' /\ PushStored'
    BY <1>a, <1>b, <1>d, <2>1 DEF PushHasRoom, PushStored, IsFull, hist
  <2>3. \A d \in Consumers : (pc'[d] = "pop_adv") <=> (pc[d] = "pop_adv")
    BY <1>1 DEF PopLock, PopEmpty, PopCheck, PopLoadCnt, PopStoreCnt, TypeOK
  <2>4. PopHasElmnt'
    BY <1>1, <1>a, <1>b, <2>1 DEF PopHasElmnt, IsEmpty, PopLock, PopEmpty, PopCheck, PopLoadCnt,
       PopStoreCnt, TypeOK
  <2>5. Contents'
    BY <1>a, <1>b, <2>1, <2>3 DEF Contents, InWindow, Cleared, Rank, hist, Indices
  <2>6. FifoExact'
    BY <1>1, <1>a, <1>b, <2>1 DEF FifoExact, Queued, hist, PopLock, PopEmpty, PopCheck,
       PopLoadCnt, PopStoreCnt, TypeOK
  <2>7. QED BY <2>2, <2>4, <2>5, <2>6
<1>2. CASE PopLoad(c)
  <2>1. /\ first' = first /\ elmnt' = elmnt /\ UNCHANGED hist
        /\ rtElmnt' = [rtElmnt EXCEPT ![c] = elmnt[first]]
        /\ pc[c] = "pop_load" /\ pc' = [pc EXCEPT ![c] = "pop_clear"]
    BY <1>2 DEF PopLoad, que
  <2>2. PushHasRoom' /\ PushStored'
    BY <1>a, <1>b, <1>d, <2>1 DEF PushHasRoom, PushStored, IsFull, hist
  <2>3. PopHasElmnt'  BY <1>a, <1>b, <2>1 DEF PopHasElmnt, TypeOK
  <2>4. \A d \in Consumers : pc[d] # "pop_adv" /\ pc'[d] # "pop_adv"
    BY <1>c, <2>1 DEF popSteps, TypeOK
  <2>5. Contents'
    BY <1>a, <1>b, <2>1, <2>4 DEF Contents, InWindow, Cleared, Rank, hist, Indices
  <2>6. elmnt[first] = rcvd + 1
    <3>1. first # last  BY <1>b, <2>1 DEF PopHasElmnt
    <3>2. InWindow(first) /\ ~Cleared(first)
      BY <2>4, <3>1 DEF InWindow, Cleared, TypeOK, Indices
    <3>3. Rank(first) = rcvd + 1  BY DEF Rank, TypeOK, Indices
    <3>4. QED BY <1>b, <3>2, <3>3 DEF Contents, TypeOK
  <2>7. FifoExact'
    BY <1>a, <1>b, <1>c, <2>1, <2>6 DEF FifoExact, Queued, hist, TypeOK, popSteps
  <2>8. QED BY <2>2, <2>3, <2>5, <2>7
<1>3. CASE PopClear(c)
  <2>1. /\ first' = first /\ UNCHANGED hist /\ rtElmnt' = rtElmnt
        /\ elmnt' = [elmnt EXCEPT ![first] = NULL]
        /\ pc[c] = "pop_clear" /\ pc' = [pc EXCEPT ![c] = "pop_adv"]
    BY <1>3 DEF PopClear
  <2>2. first # last  BY <1>b, <2>1 DEF PopHasElmnt
  <2>3. PushHasRoom' /\ PushStored'
    BY <1>a, <1>b, <1>d, <2>1, <2>2 DEF PushHasRoom, PushStored, IsFull, hist, TypeOK
  <2>4. PopHasElmnt'  BY <1>a, <1>b, <2>1 DEF PopHasElmnt, TypeOK
  <2>5. Contents'
    BY <1>a, <1>b, <2>1 DEF Contents, InWindow, Cleared, Rank, hist, Indices, TypeOK
  <2>6. FifoExact'
    BY <1>a, <1>b, <2>1 DEF FifoExact, Queued, hist, TypeOK
  <2>7. QED BY <2>3, <2>4, <2>5, <2>6
<1>4. CASE PopAdvance(c)
  <2>1. /\ elmnt' = elmnt /\ rcvd' = rcvd + 1 /\ lastRcv' = rtElmnt[c]
        /\ rtElmnt' = rtElmnt /\ first' = NextIdx(first)
        /\ pc[c] = "pop_adv" /\ pc' = [pc EXCEPT ![c] = "pop_load_cnt"]
    BY <1>4 DEF PopAdvance
  <2>2. first # last  BY <1>b, <2>1 DEF PopHasElmnt
  <2>3. \A d \in Consumers : pc'[d] \notin {"pop_load", "pop_clear", "pop_adv"}
    BY <1>c, <2>1 DEF TypeOK, popSteps
  <2>4. PushStored'  BY <1>a, <1>b, <1>d, <2>1 DEF PushStored
  <2>5. PushHasRoom'
    BY <1>a, <1>b, <1>d, <2>1, <2>2 DEF PushHasRoom, IsFull, NextIdx, TypeOK, Indices
  <2>6. PopHasElmnt'  BY <2>3 DEF PopHasElmnt
  <2>7. Contents'
    <3> SUFFICES ASSUME NEW i \in Indices, InWindow(i)', ~Cleared(i)'
                 PROVE  elmnt'[i] = Rank(i)'
      BY DEF Contents, Indices
    <3>1. InWindow(i) /\ i # first
      BY <1>a, <2>1, <2>2 DEF InWindow, NextIdx, TypeOK, Indices
    <3>2. Rank(i)' = Rank(i)
      BY <1>a, <2>1, <2>2, <3>1 DEF Rank, InWindow, NextIdx, TypeOK, Indices
    <3>3. QED BY <1>b, <2>1, <3>1, <3>2 DEF Contents, Cleared
  <2>8. Queued' = Queued - 1
    BY <1>a, <2>1, <2>2 DEF Queued, NextIdx, TypeOK, Indices
  <2>9. FifoExact'
    BY <1>a, <1>b, <2>1, <2>3, <2>8 DEF FifoExact, TypeOK
  <2>10. QED BY <2>4, <2>5, <2>6, <2>7, <2>9
<1>5. QED BY <1>1, <1>2, <1>3, <1>4 DEF Pop

LEMMA DataStep == TypeOK /\ Exclusive /\ DataInv /\ [Next]_vars => DataInv'
<1> SUFFICES ASSUME TypeOK, Exclusive, DataInv, [Next]_vars PROVE DataInv'
  OBVIOUS
<1>1. CASE \E p \in Producers : Push(p)  BY <1>1, DataPush
<1>2. CASE \E c \in Consumers : Pop(c)   BY <1>2, DataPop
<1>3. CASE UNCHANGED vars
  BY <1>3 DEF vars, que, hist, DataInv, PushHasRoom, PopHasElmnt, Contents, PushStored,
     FifoExact, IsFull, InWindow, Cleared, Rank, Queued, Indices
<1>4. QED BY <1>1, <1>2, <1>3 DEF Next

(* The inductive invariant. *)
THEOREM Inductive == Spec => []IInv
<1>1. Init => IInv
  BY TypeInit, ExclusiveInit, DataInit DEF IInv, Exclusive
<1>2. IInv /\ [Next]_vars => IInv'
  BY TypeStep, ExclusiveStep, DataStep DEF IInv, Exclusive
<1>3. QED BY <1>1, <1>2, PTL DEF Spec

-----------------------------------------------------------------------------
(* What it is for. *)

(* Until some push makes last meet first, the n-th element delivered is    *)
(* the n-th accepted, and the indices account for every element.           *)
THEOREM Fifo == Spec => []FifoExact
<1>1. IInv => FifoExact
  BY DEF IInv, DataInv, FifoExact
<1>2. QED BY <1>1, Inductive, PTL

(* Until then a push and a pop in progress never touch the same slot,      *)
(* although they hold different mutexes or none.                           *)
THEOREM NoRace == Spec => []NoSlotRace
<1>1. IInv => NoSlotRace
  BY DEF IInv, DataInv, NoSlotRace, PopHasElmnt
<1>2. QED BY <1>1, Inductive, PTL

(* The first overrun is a push into the last slot while first is 0: the    *)
(* test of a full queue is right for every other position of the consumer. *)
THEOREM FirstOverrun == Spec => OverrunOnlyAtSlotZero
<1> DEFINE A == ~overrun /\ overrun' => first = 0 /\ last = MaxCnt - 1
<1>1. IInv /\ [Next]_vars => A
  <2> SUFFICES ASSUME IInv, Next, ~overrun, overrun'
               PROVE  first = 0 /\ last = MaxCnt - 1
    BY DEF vars, hist
  <2>1. PICK p \in Producers : PushAdvance(p)
    BY DEF Next, Push, Pop, PushLock, PushFull, PushCheck, PushStore, PushLoadCnt,
       PushStoreCnt, PopLock, PopEmpty, PopCheck, PopLoad, PopClear, PopAdvance,
       PopLoadCnt, PopStoreCnt, hist
  <2>2. ~IsFull
    BY <2>1 DEF PushAdvance, IInv, DataInv, PushHasRoom
  <2>3. NextIdx(last) = first
    BY <2>1 DEF PushAdvance
  <2>4. QED
    BY <2>2, <2>3, TqAssumption DEF TqAssumption, IsFull, NextIdx, IInv, TypeOK, Indices
<1>2. QED BY <1>1, Inductive, PTL DEF Spec, OverrunOnlyAtSlotZero

-----------------------------------------------------------------------------
(* Refinement of the channel. *)

(* The ranks rcvd + 1, rcvd + 2, ... of the queued elements. *)
NatSeq(m, n) == [k \in 1 .. n |-> m + k]
RankSeq(n) == NatSeq(rcvd, n)
ChanMap == IF overrun THEN << >> ELSE [k \in 1 .. Queued |-> QueuedElmnt(k)]

LEMMA QueuedInRange == TypeOK => Queued \in 0 .. MaxCnt - 1
BY TqAssumption DEF TqAssumption, TypeOK, Indices, Queued

(* Appending to and taking the head of m + 1, m + 2, ..., m + n. *)
LEMMA NatSeqType ==
  ASSUME NEW m \in Nat, NEW n \in Nat
  PROVE  NatSeq(m, n) \in Seq(Nat) /\ Len(NatSeq(m, n)) = n
BY DEF NatSeq

LEMMA NatSeqAppend ==
  ASSUME NEW m \in Nat, NEW n \in Nat
  PROVE  Append(NatSeq(m, n), m + n + 1) = NatSeq(m, n + 1)
<1> DEFINE s == Append(NatSeq(m, n), m + n + 1)
           t == NatSeq(m, n + 1)
<1>0. NatSeq(m, n) \in Seq(Nat) /\ Len(NatSeq(m, n)) = n /\ m + n + 1 \in Nat
  BY NatSeqType
<1> HIDE DEF NatSeq
<1>1. /\ s \in Seq(Nat)
      /\ Len(s) = n + 1
      /\ \A i \in 1 .. n : s[i] = NatSeq(m, n)[i]
      /\ s[n + 1] = m + n + 1
  BY <1>0, AppendProperties
<1>2. t \in Seq(Nat) /\ Len(t) = n + 1
  <2>1. n + 1 \in Nat
    OBVIOUS
  <2>2. QED BY <2>1, NatSeqType
<1>3. \A i \in 1 .. n + 1 : s[i] = t[i]
  BY <1>1 DEF NatSeq
<1> HIDE DEF s, t
<1>4. s = t
  BY <1>1, <1>2, <1>3, SeqEqual
<1>5. QED BY <1>4 DEF s, t

LEMMA NatSeqTail ==
  ASSUME NEW m \in Nat, NEW n \in Nat \ {0}
  PROVE  /\ NatSeq(m, n) # << >>
         /\ Head(NatSeq(m, n)) = m + 1
         /\ Tail(NatSeq(m, n)) = NatSeq(m + 1, n - 1)
<1> DEFINE s == NatSeq(m, n)
           t == NatSeq(m + 1, n - 1)
<1>1. s \in Seq(Nat) /\ Len(s) = n /\ t \in Seq(Nat) /\ Len(t) = n - 1
  <2>1. n - 1 \in Nat /\ m + 1 \in Nat /\ n \in Nat
    OBVIOUS
  <2>2. QED BY <2>1, NatSeqType
<1>2. s[1] = m + 1 /\ \A i \in 1 .. n - 1 : s[i + 1] = t[i]
  BY DEF NatSeq
<1> HIDE DEF s, t
<1>3. s # << >>
  BY <1>1
<1>4. Head(s) = m + 1
  BY <1>1, <1>2, <1>3
<1>5. Tail(s) \in Seq(Nat) /\ Len(Tail(s)) = n - 1 /\ \A i \in 1 .. n - 1 : Tail(s)[i] = s[i + 1]
  BY <1>1, <1>3, HeadTailProperties
<1>6. Tail(s) = t
  <2>1. Len(Tail(s)) = Len(t)
    BY <1>1, <1>5
  <2>2. \A i \in 1 .. Len(t) : Tail(s)[i] = t[i]
    BY <1>1, <1>2, <1>5
  <2>3. t \in Seq(Nat) /\ Tail(s) \in Seq(Nat)
    BY <1>1, <1>5
  <2>4. QED
    <3> DEFINE u == Tail(s)
    <3> HIDE DEF u
    <3>1. u \in Seq(Nat) /\ Len(u) = Len(t) /\ \A i \in 1 .. Len(u) : u[i] = t[i]
      BY <2>1, <2>2, <2>3 DEF u
    <3>2. u = t
      BY <3>1, <2>3, SeqEqual
    <3>3. QED BY <3>2 DEF u
<1>7. QED BY <1>3, <1>4, <1>6 DEF s, t

(* Before an overrun the channel holds the next ranks. *)
LEMMA ChanContents == IInv /\ ~overrun => ChanMap = RankSeq(Queued)
<1> SUFFICES ASSUME IInv, ~overrun PROVE ChanMap = RankSeq(Queued)
  OBVIOUS
<1> USE TqAssumption DEF TqAssumption
<1>1. TypeOK /\ PopExclusive /\ Contents /\ FifoExact
  BY DEF IInv, DataInv
<1> SUFFICES ASSUME NEW k \in 1 .. Queued PROVE QueuedElmnt(k) = rcvd + k
  BY DEF ChanMap, RankSeq, NatSeq
<1>2. Queued \in 0 .. MaxCnt - 1  BY <1>1, QueuedInRange
<1>3. CASE k = 1 /\ \E c \in Consumers : pc[c] = "pop_adv"
  <2>1. PICK c \in Consumers : pc[c] = "pop_adv"  BY <1>3
  <2>2. \A d \in Consumers : pc[d] = "pop_adv" => rtElmnt[d] = rcvd + 1
    BY <1>1 DEF FifoExact
  <2>3. QED BY <1>3, <2>1, <2>2 DEF QueuedElmnt
<1>4. CASE ~(k = 1 /\ \E c \in Consumers : pc[c] = "pop_adv")
  <2>1. Slot(k) \in Indices /\ InWindow(Slot(k)) /\ (Slot(k) = first <=> k = 1)
    BY <1>1, <1>2 DEF Slot, InWindow, Queued, TypeOK, Indices
  <2>2. ~Cleared(Slot(k))  BY <1>4, <2>1 DEF Cleared
  <2>3. Rank(Slot(k)) = rcvd + k
    BY <1>1, <1>2 DEF Slot, Rank, Queued, TypeOK, Indices
  <2>4. QueuedElmnt(k) = elmnt[Slot(k)]  BY <1>4 DEF QueuedElmnt
  <2>5. QED BY <1>1, <2>1, <2>2, <2>3, <2>4 DEF Contents
<1>5. QED BY <1>3, <1>4

LEMMA ChanInit == Init => Chan!Init
BY TqAssumption DEF TqAssumption, Init, Chan!Init, Queued

(* Advancing last is Send, or Break when last meets first. *)
LEMMA ChanPush ==
  ASSUME IInv, IInv', ~overrun, NEW p \in Producers, PushAdvance(p)
  PROVE  Chan!Next
<1> USE TqAssumption DEF TqAssumption
<1>1. TypeOK /\ FifoExact /\ TypeOK'  BY DEF IInv, DataInv
<1>2. Queued \in 0 .. MaxCnt - 1 /\ (Queued \in 0 .. MaxCnt - 1)'
  BY <1>1, QueuedInRange, PTL
<1>3. ChanMap = RankSeq(Queued)  BY ChanContents
<1>4. Len(ChanMap) = Queued  BY <1>1, <1>2, <1>3, NatSeqType DEF RankSeq, TypeOK
<1>5. /\ first' = first /\ rcvd' = rcvd /\ lastRcv' = lastRcv
      /\ last' = NextIdx(last) /\ sent' = sent + 1
      /\ overrun' = (NextIdx(last) = first)
  BY DEF PushAdvance
<1>6. CASE NextIdx(last) = first
  <2>1. Queued = MaxCnt - 1
    <3>1. MaxCnt \in Nat \ {0} /\ first \in 0 .. MaxCnt - 1 /\ last \in 0 .. MaxCnt - 1
      BY <1>1 DEF TypeOK, Indices
    <3>2. QED BY ONLY <3>1, <1>6 DEF Queued, NextIdx
  <2>2. Chan!Break
    <3>1. Len(ChanMap) = MaxCnt - 1  BY <1>4, <2>1
    <3>2. ~overrun /\ overrun'       BY <1>5, <1>6
    <3>3. QED BY ONLY <3>1, <3>2, Zenon DEF Chan!Break, ChanMap
  <2>3. QED BY <2>2 DEF Chan!Next
<1>7. CASE NextIdx(last) # first
  <2>1. Queued' = Queued + 1
    <3>1. MaxCnt \in Nat \ {0} /\ first \in 0 .. MaxCnt - 1 /\ last \in 0 .. MaxCnt - 1
      BY <1>1 DEF TypeOK, Indices
    <3>2. first' = first /\ last' = NextIdx(last)  BY <1>5
    <3>3. QED BY ONLY <3>1, <3>2, <1>7 DEF Queued, NextIdx
  <2>2. ~overrun'  BY <1>5, <1>7
  <2>3. (ChanMap = RankSeq(Queued))'
    BY <2>2, ChanContents, PTL
  <2>4. RankSeq(Queued)' = NatSeq(rcvd, Queued + 1)
    BY <1>5, <2>1 DEF RankSeq
  <2>5. sent + 1 = rcvd + Queued + 1  BY <1>1, <1>2 DEF FifoExact, TypeOK
  <2>6. Append(RankSeq(Queued), sent + 1) = NatSeq(rcvd, Queued + 1)
    <3>1. rcvd \in Nat /\ Queued \in Nat  BY <1>1, <1>2 DEF TypeOK
    <3>2. QED BY <2>5, <3>1, NatSeqAppend DEF RankSeq
  <2>7. Chan!Send
    <3>1. Len(ChanMap) < MaxCnt - 1  BY <1>2, <1>4, <2>1
    <3>2. ChanMap' = Append(ChanMap, sent + 1)  BY <1>3, <2>3, <2>4, <2>6
    <3>3. overrun' = overrun  BY <1>1, <1>5, <1>7 DEF TypeOK
    <3>4. QED BY <1>5, <3>1, <3>2, <3>3 DEF Chan!Send, ChanMap
  <2>8. QED BY <2>7 DEF Chan!Next
<1>8. QED BY <1>6, <1>7

(* Advancing first is Deliver. *)
LEMMA ChanPop ==
  ASSUME IInv, IInv', ~overrun, NEW c \in Consumers, PopAdvance(c)
  PROVE  Chan!Next
<1> USE TqAssumption DEF TqAssumption
<1>1. TypeOK /\ FifoExact /\ TypeOK' /\ PopHasElmnt  BY DEF IInv, DataInv
<1>2. Queued \in 0 .. MaxCnt - 1  BY <1>1, QueuedInRange
<1>3. ChanMap = RankSeq(Queued)  BY ChanContents
<1>4. /\ last' = last /\ sent' = sent /\ overrun' = overrun
      /\ first' = NextIdx(first) /\ rcvd' = rcvd + 1 /\ lastRcv' = rtElmnt[c]
      /\ pc[c] = "pop_adv"
  BY DEF PopAdvance
<1>5. first # last /\ rtElmnt[c] = rcvd + 1
  BY <1>1, <1>4 DEF PopHasElmnt, FifoExact
<1>6. Queued' = Queued - 1 /\ Queued # 0
  BY <1>1, <1>4, <1>5 DEF Queued, NextIdx, TypeOK, Indices
<1>7. (ChanMap = RankSeq(Queued))'
  <2>1. ~overrun'  BY <1>4
  <2>2. QED BY <2>1, ChanContents, PTL
<1>8. RankSeq(Queued)' = NatSeq(rcvd + 1, Queued - 1)
  BY <1>4, <1>6 DEF RankSeq
<1>9. /\ RankSeq(Queued) # << >>
      /\ Head(RankSeq(Queued)) = rcvd + 1
      /\ Tail(RankSeq(Queued)) = NatSeq(rcvd + 1, Queued - 1)
  <2>1. rcvd \in Nat /\ Queued \in Nat \ {0}  BY <1>1, <1>2, <1>6 DEF TypeOK
  <2>2. QED BY <2>1, NatSeqTail DEF RankSeq
<1>10. Chan!Deliver
  BY <1>3, <1>4, <1>5, <1>7, <1>8, <1>9 DEF Chan!Deliver, ChanMap
<1>11. QED BY <1>10 DEF Chan!Next

(* The other steps leave the channel alone. *)
LEMMA ChanStutter ==
  ASSUME IInv, IInv', ~overrun, ~overrun', UNCHANGED <<first, last, hist>>
  PROVE  UNCHANGED Chan!vars
<1>1. ChanMap = RankSeq(Queued)  BY ChanContents
<1>2. (ChanMap = RankSeq(Queued))'  BY ChanContents, PTL
<1>3. RankSeq(Queued)' = RankSeq(Queued)  BY DEF RankSeq, NatSeq, Queued, hist
<1>4. QED BY <1>1, <1>2, <1>3 DEF Chan!vars, ChanMap, hist

(* A queue of size MaxCnt is a FIFO channel of MaxCnt - 1 elements until   *)
(* its first overrun: each step of the code is a step of the channel or    *)
(* leaves the channel alone.                                               *)
THEOREM Refinement == Spec => ImplementsChannel
<1>1. IInv /\ IInv' /\ [Next]_vars => [Chan!Next]_(Chan!vars)
  <2> SUFFICES ASSUME IInv, IInv', [Next]_vars PROVE [Chan!Next]_(Chan!vars)
    OBVIOUS
  <2>1. CASE overrun
    <3>1. overrun'
      BY <2>1 DEF Next, Push, Pop, PushLock, PushFull, PushCheck, PushStore, PushAdvance,
         PushLoadCnt, PushStoreCnt, PopLock, PopEmpty, PopCheck, PopLoad, PopClear,
         PopAdvance, PopLoadCnt, PopStoreCnt, hist, vars
    <3>2. QED BY <2>1, <3>1 DEF Chan!Next, Chan!Broken
  <2>2. CASE ~overrun /\ \E p \in Producers : PushAdvance(p)  BY <2>2, ChanPush
  <2>3. CASE ~overrun /\ \E c \in Consumers : PopAdvance(c)   BY <2>3, ChanPop
  <2>4. CASE /\ ~overrun
             /\ ~ \E p \in Producers : PushAdvance(p)
             /\ ~ \E c \in Consumers : PopAdvance(c)
    <3>1. UNCHANGED <<first, last, hist>>
      BY <2>4 DEF Next, Push, Pop, PushLock, PushFull, PushCheck, PushStore,
         PushLoadCnt, PushStoreCnt, PopLock, PopEmpty, PopCheck, PopLoad, PopClear,
         PopLoadCnt, PopStoreCnt, hist, vars, que
    <3>2. ~overrun'  BY <2>4, <3>1 DEF hist
    <3>3. QED BY <2>4, <3>1, <3>2, ChanStutter
  <2>5. QED BY <2>1, <2>2, <2>3, <2>4
<1>2. QED BY <1>1, ChanInit, Inductive, PTL DEF Spec, Chan!Spec, ImplementsChannel
=============================================================================
