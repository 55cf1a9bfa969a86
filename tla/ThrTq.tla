------------------------------- MODULE ThrTq -------------------------------
(***************************************************************************)
(* The thread queue of thrlib (libsrc/thrlib/thrlib_tq.c) as its clients   *)
(* use it: thrlib_tqPush by any number of producers, serialised by         *)
(* pushMutx, and thrlib_tqPop by consumers that poll.  A pop takes popMutx *)
(* only when the queue was initialised LOCKED; push and pop never hold the *)
(* same mutex, so every access of one side to a variable the other side    *)
(* writes is a step of its own.                                            *)
(*                                                                         *)
(* An element is the rank of its push among the accepted ones (1, 2, ...), *)
(* so that "the n-th element delivered is the n-th element accepted" is a  *)
(* statement about numbers.  sent, rcvd, lastRcv and overrun are history:  *)
(* no action reads them to decide what the code does, apart from the bound *)
(* MaxPush on the number of pushes.                                        *)
(***************************************************************************)
EXTENDS Integers

CONSTANTS
  Producers,  \* threads that call thrlib_tqPush
  Consumers,  \* threads that call thrlib_tqPop
  MaxCnt,     \* que->maxCnt, the size given to thrlib_tqInit
  LockType,   \* tq->lockType
  NoThread,   \* the owner of a free mutex
  MaxPush     \* bound: pushes explored

(* size = 0 is refused by thrlib_tqInit.  A LOCK_FREE queue has one        *)
(* consumer wherever the repository creates one (the log thread of loglib, *)
(* the send and receive threads of rlylib).                                *)
ASSUME TqAssumption ==
  /\ MaxCnt \in Nat \ {0}
  /\ MaxPush \in Nat
  /\ LockType \in {"LOCKED", "LOCK_FREE"}
  /\ LockType = "LOCK_FREE" => \A c, d \in Consumers : c = d
  /\ Producers \cap Consumers = {}
  /\ NoThread \notin Producers \cup Consumers

VARIABLES
  first, last, qCnt, elmnt,   \* ThrlibQue
  pushMutx, popMutx,          \* owners of the two mutexes
  pc,                         \* where each thread is in its call
  rtElmnt,                    \* *rt_elmnt of each consumer's pop
  cntReg,                     \* register of a thread between load and store of qCnt
  sent,                       \* pushes that advanced last
  rcvd,                       \* pops that advanced first
  lastRcv,                    \* element delivered by the latest of them
  overrun                     \* some push made last meet first

que  == <<first, last, qCnt, elmnt>>
hist == <<sent, rcvd, lastRcv, overrun>>
vars == <<que, pushMutx, popMutx, pc, rtElmnt, cntReg, hist>>

Threads == Producers \cup Consumers
Indices == 0 .. MaxCnt - 1
NULL    == 0
Elmnts  == 0 .. MaxPush

pushSteps == {"push_check", "push_store", "push_adv", "push_load_cnt", "push_store_cnt"}
popSteps  == {"pop_check", "pop_load", "pop_clear", "pop_adv", "pop_load_cnt", "pop_store_cnt"}

(* The index after i in the ring. *)
NextIdx(i) == IF i = MaxCnt - 1 THEN 0 ELSE i + 1

(* thrlib_tqInit. The array comes from malloc: its content is not read     *)
(* before it is written, NULL stands for it.                               *)
Init ==
  /\ first = 0
  /\ last = 0
  /\ qCnt = 0
  /\ elmnt = [i \in Indices |-> NULL]
  /\ pushMutx = NoThread
  /\ popMutx = NoThread
  /\ pc = [t \in Threads |-> "idle"]
  /\ rtElmnt = [c \in Consumers |-> NULL]
  /\ cntReg = [t \in Threads |-> 0]
  /\ sent = 0
  /\ rcvd = 0
  /\ lastRcv = 0
  /\ overrun = FALSE

Goto(t, label) == pc' = [pc EXCEPT ![t] = label]

-----------------------------------------------------------------------------
(* thrlib_tqPush *)

(* Fault: the mutex of the producers is not taken. *)
PushLock_NoMutex(p) ==
  /\ pc[p] = "idle"
  /\ sent < MaxPush
  /\ Goto(p, "push_check")
  /\ UNCHANGED <<que, pushMutx, popMutx, rtElmnt, cntReg, hist>>

PushLock(p) ==
  /\ pc[p] = "idle"
  /\ pushMutx = NoThread
  /\ sent < MaxPush
  /\ pushMutx' = p
  /\ Goto(p, "push_check")
  /\ UNCHANGED <<que, popMutx, rtElmnt, cntReg, hist>>

(* The test of a full queue: first - 1 is computed in UINT, so it equals   *)
(* last only when first > 0; last = maxCnt never holds.                    *)
IsFull ==
  \/ last = MaxCnt /\ first = 0
  \/ last # MaxCnt /\ first > 0 /\ last = first - 1

PushFull(p) ==
  /\ pc[p] = "push_check"
  /\ IsFull
  /\ pushMutx' = NoThread
  /\ Goto(p, "idle")
  /\ UNCHANGED <<que, popMutx, rtElmnt, cntReg, hist>>

PushCheck(p) ==
  /\ pc[p] = "push_check"
  /\ ~IsFull
  /\ Goto(p, "push_store")
  /\ UNCHANGED <<que, pushMutx, popMutx, rtElmnt, cntReg, hist>>

PushStore(p) ==
  /\ pc[p] = "push_store"
  /\ elmnt' = [elmnt EXCEPT ![last] = sent + 1]
  /\ Goto(p, "push_adv")
  /\ UNCHANGED <<first, last, qCnt, pushMutx, popMutx, rtElmnt, cntReg, hist>>

PushAdvance(p) ==
  /\ pc[p] = "push_adv"
  /\ last' = NextIdx(last)
  /\ sent' = sent + 1
  /\ overrun' = (overrun \/ NextIdx(last) = first)
  /\ Goto(p, "push_load_cnt")
  /\ UNCHANGED <<first, qCnt, elmnt, pushMutx, popMutx, rtElmnt, cntReg, rcvd, lastRcv>>

(* que->qCnt++ is a load, an addition and a store. *)
PushLoadCnt(p) ==
  /\ pc[p] = "push_load_cnt"
  /\ cntReg' = [cntReg EXCEPT ![p] = qCnt]
  /\ Goto(p, "push_store_cnt")
  /\ UNCHANGED <<que, pushMutx, popMutx, rtElmnt, hist>>

(* The store, the test of eWaiter (no client waits) and the unlock. *)
PushStoreCnt(p) ==
  /\ pc[p] = "push_store_cnt"
  /\ qCnt' = cntReg[p] + 1
  /\ cntReg' = [cntReg EXCEPT ![p] = 0]
  /\ pushMutx' = NoThread
  /\ Goto(p, "idle")
  /\ UNCHANGED <<first, last, elmnt, popMutx, rtElmnt, hist>>

-----------------------------------------------------------------------------
(* thrlib_tqPop *)

(* Fault: the mutex of the consumers is not taken, whatever the lock type. *)
PopLock_NoMutex(c) ==
  /\ pc[c] = "idle"
  /\ Goto(c, "pop_check")
  /\ UNCHANGED <<que, pushMutx, popMutx, rtElmnt, cntReg, hist>>

PopLock(c) ==
  /\ pc[c] = "idle"
  /\ IF LockType = "LOCKED"
       THEN popMutx = NoThread /\ popMutx' = c
       ELSE UNCHANGED popMutx
  /\ Goto(c, "pop_check")
  /\ UNCHANGED <<que, pushMutx, rtElmnt, cntReg, hist>>

PopUnlock == popMutx' = IF LockType = "LOCKED" THEN NoThread ELSE popMutx

(* A fault: no test. *)
IsEmpty_Never == FALSE

IsEmpty == first = last

PopEmpty(c) ==
  /\ pc[c] = "pop_check"
  /\ IsEmpty
  /\ PopUnlock
  /\ Goto(c, "idle")
  /\ UNCHANGED <<que, pushMutx, rtElmnt, cntReg, hist>>

PopCheck(c) ==
  /\ pc[c] = "pop_check"
  /\ ~IsEmpty
  /\ Goto(c, "pop_load")
  /\ UNCHANGED <<que, pushMutx, popMutx, rtElmnt, cntReg, hist>>

PopLoad(c) ==
  /\ pc[c] = "pop_load"
  /\ rtElmnt' = [rtElmnt EXCEPT ![c] = elmnt[first]]
  /\ Goto(c, "pop_clear")
  /\ UNCHANGED <<que, pushMutx, popMutx, cntReg, hist>>

PopClear(c) ==
  /\ pc[c] = "pop_clear"
  /\ elmnt' = [elmnt EXCEPT ![first] = NULL]
  /\ Goto(c, "pop_adv")
  /\ UNCHANGED <<first, last, qCnt, pushMutx, popMutx, rtElmnt, cntReg, hist>>

PopAdvance(c) ==
  /\ pc[c] = "pop_adv"
  /\ first' = NextIdx(first)
  /\ rcvd' = rcvd + 1
  /\ lastRcv' = rtElmnt[c]
  /\ Goto(c, "pop_load_cnt")
  /\ UNCHANGED <<last, qCnt, elmnt, pushMutx, popMutx, rtElmnt, cntReg, sent, overrun>>

PopLoadCnt(c) ==
  /\ pc[c] = "pop_load_cnt"
  /\ cntReg' = [cntReg EXCEPT ![c] = qCnt]
  /\ Goto(c, "pop_store_cnt")
  /\ UNCHANGED <<que, pushMutx, popMutx, rtElmnt, hist>>

PopStoreCnt(c) ==
  /\ pc[c] = "pop_store_cnt"
  /\ qCnt' = cntReg[c] - 1
  /\ cntReg' = [cntReg EXCEPT ![c] = 0]
  /\ rtElmnt' = [rtElmnt EXCEPT ![c] = NULL]
  /\ PopUnlock
  /\ Goto(c, "idle")
  /\ UNCHANGED <<first, last, elmnt, pushMutx, hist>>

-----------------------------------------------------------------------------

Push(p) ==
  \/ PushLock(p) \/ PushFull(p) \/ PushCheck(p) \/ PushStore(p)
  \/ PushAdvance(p) \/ PushLoadCnt(p) \/ PushStoreCnt(p)

Pop(c) ==
  \/ PopLock(c) \/ PopEmpty(c) \/ PopCheck(c) \/ PopLoad(c) \/ PopClear(c)
  \/ PopAdvance(c) \/ PopLoadCnt(c) \/ PopStoreCnt(c)

Next == (\E p \in Producers : Push(p)) \/ (\E c \in Consumers : Pop(c))

Spec == Init /\ [][Next]_vars

-----------------------------------------------------------------------------

TypeOK ==
  /\ first \in Indices
  /\ last \in Indices
  /\ qCnt \in Int
  /\ elmnt \in [Indices -> Nat]
  /\ pushMutx \in Producers \cup {NoThread}
  /\ popMutx \in Consumers \cup {NoThread}
  /\ pc \in [Threads -> {"idle"} \cup pushSteps \cup popSteps]
  /\ \A p \in Producers : pc[p] \notin popSteps
  /\ \A c \in Consumers : pc[c] \notin pushSteps
  /\ rtElmnt \in [Consumers -> Nat]
  /\ cntReg \in [Threads -> Int]
  /\ sent \in Nat
  /\ rcvd \in Nat
  /\ lastRcv \in Nat
  /\ overrun \in BOOLEAN

(* Elements between first and last, as the indices tell. *)
Queued == IF first <= last THEN last - first ELSE MaxCnt - first + last

(* The slot of the k-th queued element, k >= 1. *)
Slot(k) == IF first + k - 1 < MaxCnt THEN first + k - 1 ELSE first + k - 1 - MaxCnt

(* As long as no push made last meet first, the indices account for every  *)
(* accepted element, the n-th delivered element is the n-th accepted one,  *)
(* and a pop in progress holds the next one: nothing is lost, duplicated   *)
(* or reordered, although the two sides share no mutex.                    *)
FifoExact ==
  ~overrun =>
    /\ sent - rcvd = Queued
    /\ lastRcv = rcvd
    /\ \A c \in Consumers : pc[c] \in {"pop_clear", "pop_adv"} => rtElmnt[c] = rcvd + 1

(* A pop in progress and a push in progress touch the same slot only after *)
(* an overrun: before one, the slot a producer writes is never the slot a  *)
(* consumer reads and clears.                                              *)
NoSlotRace ==
  ~overrun =>
    \A p \in Producers, c \in Consumers :
      ~ (/\ pc[p] = "push_store"
         /\ pc[c] \in {"pop_load", "pop_clear"}
         /\ first = last)

(* The test of a full queue fails in one place only: a push loses the      *)
(* queue for the first time when the consumer has not left slot 0 and the  *)
(* element goes to the last slot.                                          *)
OverrunOnlyAtSlotZero ==
  [][~overrun /\ overrun' => first = 0 /\ last = MaxCnt - 1]_vars

-----------------------------------------------------------------------------

(* The k-th queued element: its slot, or the register of the pop that has  *)
(* cleared the slot and not yet advanced first.                            *)
QueuedElmnt(k) ==
  IF k = 1 /\ \E c \in Consumers : pc[c] = "pop_adv"
    THEN rtElmnt[CHOOSE c \in Consumers : pc[c] = "pop_adv"]
    ELSE elmnt[Slot(k)]

Chan == INSTANCE TqChannel WITH
  Cap    <- MaxCnt - 1,
  chan   <- IF overrun THEN << >> ELSE [k \in 1 .. Queued |-> QueuedElmnt(k)],
  broken <- overrun

(* A queue of size MaxCnt is a FIFO channel of MaxCnt - 1 elements: a push *)
(* takes effect when it advances last, a pop when it advances first.       *)
ImplementsChannel == Chan!Spec

=============================================================================
