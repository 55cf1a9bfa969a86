------------------------------ MODULE TmrWheel ------------------------------
(***************************************************************************)
(* The timer table of comlib (libsrc/comlib/comlib_timer.c): a wheel of    *)
(* TIMER_MAX_ENTRY slots, each a doubly linked list of the nodes whose     *)
(* expiry tick falls on it.  One thread owns the table: its main loop      *)
(* takes the time (EXEC_TMR_TICK), lets comlib_timerTblHandler walk the    *)
(* slots of the ticks gone by, and starts, restarts and cancels timers in  *)
(* between; the event function the handler calls does so too, in the       *)
(* middle of the walk.                                                     *)
(*                                                                         *)
(* Ticks count from 0 and do not reach the width of ULONG.                 *)
(***************************************************************************)
EXTENDS Integers, FiniteSets

CONSTANTS
  Nodes,     \* timer nodes of the clients (ComlibTmrNode)
  NULL,      \* the null pointer
  Slots,     \* TIMER_MAX_ENTRY
  MaxExpTm,  \* largest expTm a client passes; the clients pass at least 1
  MaxTick,   \* bound: ticks explored
  MaxDue,    \* bound: ticks a timer is set for or put off to
  MaxJump,   \* bound: ticks between two readings of the clock
  MaxCalls   \* bound: calls made by one callback

ASSUME WheelAssumption ==
  /\ NULL \notin Nodes \cup (0 .. Slots - 1)
  /\ Slots \in Nat \ {0}
  /\ {MaxExpTm, MaxTick, MaxDue, MaxJump, MaxCalls} \subseteq Nat

VARIABLES
  tick,      \* tmr->tick
  prevTick,  \* tbl->prevTick
  entry,     \* tbl->entry
  tmr,       \* used, expTick, updateTick and resetFlg of each node
  link,      \* prev and next of each node
  ownEntry,  \* the slot of node->ownEntry
  pc,        \* the handler: not running, between ticks, at a node, in a callback
  cur,       \* its local prevTick
  node,      \* its local node
  tmpNode,   \* its local tmpNode
  calls,     \* calls the running callback has made
  cut        \* history: a callback cancelled the node saved in tmpNode

table   == <<entry, tmr, link, ownEntry>>
handler == <<pc, cur, node, tmpNode, calls>>
vars    == <<tick, prevTick, table, handler, cut>>

SlotIds == 0 .. Slots - 1
SlotOf(t) == t % Slots

noTimer == [used |-> FALSE, expTick |-> 0, updateTick |-> 0, resetFlg |-> FALSE]
noLink  == [prev |-> NULL, next |-> NULL]

(* comlib_timerTblInit: calloc clears the slots; the clients hand in       *)
(* cleared nodes.                                                          *)
Init ==
  /\ tick = 0
  /\ prevTick = 0
  /\ entry = [s \in SlotIds |-> [first |-> NULL, tail |-> NULL]]
  /\ tmr = [n \in Nodes |-> noTimer]
  /\ link = [n \in Nodes |-> noLink]
  /\ ownEntry = [n \in Nodes |-> NULL]
  /\ pc = "idle"
  /\ cur = 0
  /\ node = NULL
  /\ tmpNode = NULL
  /\ calls = 0
  /\ cut = FALSE

-----------------------------------------------------------------------------
(* The list macros *)

(* Fault: the tail of the slot is left where it was. *)
DelEntry_KeepTail(s, n) ==
  [entry EXCEPT ![s].first = IF link[n].prev = NULL THEN link[n].next ELSE @]

(* DEL_TMR_NODE on slot s: the neighbours of n point past it, and the ends *)
(* of the slot move when a link of n is null.                              *)
DelEntry(s, n) ==
  [entry EXCEPT ![s] =
    [first |-> IF link[n].prev = NULL THEN link[n].next ELSE @.first,
     tail  |-> IF link[n].next = NULL THEN link[n].prev ELSE @.tail]]

DelLink(n) ==
  [m \in Nodes |->
    IF m = n THEN noLink
    ELSE [prev |-> IF link[n].next = m THEN link[n].prev ELSE link[m].prev,
          next |-> IF link[n].prev = m THEN link[n].next ELSE link[m].next]]

(* INSERT_TMR_NODE: n becomes the tail of slot s of the slots ent.         *)
InsEntry(ent, s, n) ==
  [ent EXCEPT ![s] = [first |-> IF @.tail = NULL THEN n ELSE @.first, tail |-> n]]

InsLink(ent, lnk, s, n) ==
  [m \in Nodes |->
    IF m = n THEN [prev |-> ent[s].tail, next |-> NULL]
    ELSE IF m = ent[s].tail THEN [lnk[m] EXCEPT !.next = n]
    ELSE lnk[m]]

-----------------------------------------------------------------------------
(* What the clients call *)

(* comlib_timerTblStartTm. It refuses a node in use. *)
StartTm(n, expTm) ==
  LET expTick == tick + expTm
      s == SlotOf(expTick)
  IN /\ ~tmr[n].used
     /\ expTick <= MaxDue
     /\ tmr' = [tmr EXCEPT ![n] = [noTimer EXCEPT !.used = TRUE, !.expTick = expTick]]
     /\ ownEntry' = [ownEntry EXCEPT ![n] = s]
     /\ entry' = InsEntry(entry, s, n)
     /\ link' = InsLink(entry, link, s, n)
     /\ UNCHANGED cut

(* comlib_timerTblRestartTm leaves the node where it is: the handler moves *)
(* it when it comes to its slot.                                           *)
RestartTm(n, expTm) ==
  /\ tmr[n].used
  /\ tmr[n].expTick + tmr[n].updateTick + expTm <= MaxDue
  /\ tmr' = [tmr EXCEPT ![n].resetFlg = TRUE, ![n].updateTick = @ + expTm]
  /\ UNCHANGED <<entry, link, ownEntry, cut>>

(* comlib_timerTblCancelTm. *)
CancelTm(n) ==
  /\ tmr[n].used
  /\ entry' = DelEntry(ownEntry[n], n)
  /\ link' = DelLink(n)
  /\ tmr' = [tmr EXCEPT ![n] = noTimer]
  /\ ownEntry' = [ownEntry EXCEPT ![n] = NULL]
  /\ cut' = (cut \/ (pc = "callback" /\ tmpNode = n))

Call ==
  \E n \in Nodes :
    \/ CancelTm(n)
    \/ \E expTm \in 1 .. MaxExpTm : StartTm(n, expTm) \/ RestartTm(n, expTm)

(* A call of the main loop, outside the handler. *)
MainCall ==
  /\ pc = "idle"
  /\ Call
  /\ UNCHANGED <<tick, prevTick, handler>>

-----------------------------------------------------------------------------
(* The main loop takes the time ... *)
ExecTmrTick ==
  /\ pc = "idle"
  /\ \E jump \in 1 .. MaxJump : tick + jump <= MaxTick /\ tick' = tick + jump
  /\ UNCHANGED <<prevTick, table, handler, cut>>

(* ... and, after the calls it has to make, runs comlib_timerTblHandler.   *)
HandlerCall ==
  /\ pc = "idle"
  /\ pc' = "tick"
  /\ cur' = prevTick
  /\ UNCHANGED <<tick, prevTick, table, node, tmpNode, calls, cut>>

(* The next tick: an empty slot is passed over. *)
NextTick ==
  /\ pc = "tick"
  /\ cur < tick
  /\ cur' = cur + 1
  /\ node' = entry[SlotOf(cur + 1)].first
  /\ pc' = IF node' = NULL THEN "tick" ELSE "node"
  /\ UNCHANGED <<tick, prevTick, table, tmpNode, calls, cut>>

HandlerReturn ==
  /\ pc = "tick"
  /\ cur = tick
  /\ prevTick' = cur
  /\ pc' = "idle"
  /\ UNCHANGED <<tick, table, cur, node, tmpNode, calls, cut>>

(* The walk goes on with n, the node after the visited one. *)
GoOn(n) ==
  /\ node' = n
  /\ tmpNode' = NULL
  /\ pc' = IF n = NULL THEN "tick" ELSE "node"
  /\ UNCHANGED <<tick, prevTick, cur>>

(* The node moves from the slot walked to slot s of its expiry. *)
MoveTo(s) ==
  LET ent == DelEntry(SlotOf(cur), node)
  IN /\ ownEntry' = [ownEntry EXCEPT ![node] = s]
     /\ entry' = InsEntry(ent, s, node)
     /\ link' = InsLink(ent, DelLink(node), s, node)

(* Fault: the node stays marked as restarted. *)
VisitReset_KeepFlag ==
  LET expTick == tmr[node].expTick + tmr[node].updateTick
  IN /\ pc = "node"
     /\ tmr[node].resetFlg
     /\ tmr' = [tmr EXCEPT ![node].expTick = expTick, ![node].updateTick = 0]
     /\ MoveTo(SlotOf(expTick))
     /\ GoOn(link[node].next)
     /\ UNCHANGED <<calls, cut>>

(* A restarted node moves to the slot of its new expiry. *)
VisitReset ==
  LET expTick == tmr[node].expTick + tmr[node].updateTick
  IN /\ pc = "node"
     /\ tmr[node].resetFlg
     /\ tmr' = [tmr EXCEPT ![node] = [noTimer EXCEPT !.used = tmr[node].used, !.expTick = expTick]]
     /\ MoveTo(SlotOf(expTick))
     /\ GoOn(link[node].next)
     /\ UNCHANGED <<calls, cut>>

(* The node leaves the table and its event is executed. *)
Execute ==
  /\ tmr' = [tmr EXCEPT ![node] = noTimer]
  /\ ownEntry' = [ownEntry EXCEPT ![node] = NULL]
  /\ entry' = DelEntry(SlotOf(cur), node)
  /\ link' = DelLink(node)
  /\ tmpNode' = link[node].next
  /\ pc' = "callback"
  /\ UNCHANGED <<tick, prevTick, cur, node, calls, cut>>

(* Fault: the nodes of a later lap of the wheel are executed too. *)
VisitFire_AnyLap ==
  /\ pc = "node"
  /\ ~tmr[node].resetFlg
  /\ Execute

(* A node due at this tick fires, one of a later lap is passed over.       *)
VisitFire ==
  /\ pc = "node"
  /\ ~tmr[node].resetFlg
  /\ tmr[node].expTick = cur
  /\ Execute

VisitPass ==
  /\ pc = "node"
  /\ ~tmr[node].resetFlg
  /\ tmr[node].expTick # cur
  /\ GoOn(link[node].next)
  /\ UNCHANGED <<table, calls, cut>>

(* The event function starts, restarts and cancels timers, and returns.    *)
CallbackCall ==
  /\ pc = "callback"
  /\ calls < MaxCalls
  /\ calls' = calls + 1
  /\ Call
  /\ UNCHANGED <<tick, prevTick, pc, cur, node, tmpNode>>

CallbackReturn ==
  /\ pc = "callback"
  /\ calls' = 0
  /\ GoOn(tmpNode)
  /\ UNCHANGED <<table, cut>>

HandlerStep ==
  NextTick \/ HandlerReturn \/ VisitReset \/ VisitFire \/ VisitPass \/ CallbackReturn

Next == MainCall \/ ExecTmrTick \/ HandlerCall \/ HandlerStep \/ CallbackCall

Spec == Init /\ [][Next]_vars

(* The thread that runs the handler is scheduled, and its event function   *)
(* returns.                                                                *)
FairSpec == Spec /\ WF_vars(HandlerStep)

-----------------------------------------------------------------------------

TypeOK ==
  /\ tick \in 0 .. MaxTick
  /\ prevTick \in 0 .. tick
  /\ cur \in prevTick .. tick
  /\ entry \in [SlotIds -> [first : Nodes \cup {NULL}, tail : Nodes \cup {NULL}]]
  /\ tmr \in [Nodes -> [used : BOOLEAN, expTick : Nat, updateTick : Nat, resetFlg : BOOLEAN]]
  /\ link \in [Nodes -> [prev : Nodes \cup {NULL}, next : Nodes \cup {NULL}]]
  /\ ownEntry \in [Nodes -> SlotIds \cup {NULL}]
  /\ pc \in {"idle", "tick", "node", "callback"}
  /\ node \in Nodes \cup {NULL}
  /\ tmpNode \in Nodes \cup {NULL}
  /\ pc = "node" => node # NULL
  /\ calls \in 0 .. MaxCalls
  /\ cut \in BOOLEAN

Members(s) == {n \in Nodes : tmr[n].used /\ ownEntry[n] = s}

(* What following next from the first node of a slot meets. *)
Walk(s) ==
  LET walk[i \in Nat] == IF i = 0 THEN entry[s].first
                         ELSE IF walk[i-1] = NULL THEN NULL ELSE link[walk[i-1]].next
  IN walk

(* Every slot is a doubly linked list of the nodes in use that belong to   *)
(* it: following next from first reaches them all and ends at tail, prev   *)
(* leads back, and no node in use is in another slot than its expiry's.    *)
(* The walk unlinks and relinks nodes of the very list it follows, and     *)
(* the callback does so under its feet.                                    *)
SlotsWellLinked ==
  ~cut =>
    \A s \in SlotIds :
      LET walk == Walk(s)
          size == Cardinality(Members(s))
      IN /\ {walk[i] : i \in 0 .. size - 1} = Members(s)
         /\ walk[size] = NULL
         /\ entry[s].tail = IF size = 0 THEN NULL ELSE walk[size - 1]
         /\ \A i \in 0 .. size - 1 :
              /\ link[walk[i]].prev = IF i = 0 THEN NULL ELSE walk[i - 1]
              /\ SlotOf(tmr[walk[i]].expTick) = s

(* A node is due when its expiry, moved by the restarts, is reached.       *)
Due(n) == tmr[n].expTick + tmr[n].updateTick

(* Between two runs of the handler every node in use is still to expire: a *)
(* turn of the main loop misses no timer, however late it comes, whatever  *)
(* the callbacks started and restarted.                                    *)
NoneOverdue == (pc = "idle" /\ ~cut) => \A n \in Nodes : tmr[n].used => Due(n) > prevTick

(* The wheel keeps the promise of a timer service: each timer fires once,  *)
(* at the tick it was set for and at no other, whatever moves it between.  *)
Service == INSTANCE TmrService WITH
  None   <- NULL,
  now    <- cur,
  due    <- [n \in Nodes |-> IF tmr[n].used THEN Due(n) ELSE -1],
  firing <- IF pc = "callback" THEN node ELSE NULL,
  broken <- cut

ImplementsService == Service!Spec

(* A run of the handler comes to an end: a callback that relinks nodes     *)
(* does not send the walk round in circles.                                *)
HandlerEnds == pc # "idle" ~> pc = "idle"

(* The links of the wheel and the terms of the timers, the walk of the     *)
(* handler included (comlib_timerTbl.c).                                   *)
WheelExact == TypeOK /\ SlotsWellLinked /\ NoneOverdue
=============================================================================
