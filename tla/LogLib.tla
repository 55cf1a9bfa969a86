------------------------------- MODULE LogLib -------------------------------
(***************************************************************************)
(* The logging library: the table of loggers under the global mutex, the   *)
(* level that the LOGLIB_ERR, LOGLIB_NOTY and LOGLIB_DBG macros test       *)
(* before they call it, and the thread that writes the messages of a       *)
(* logger of type LOGLIB_WR_TYPE_THRD.                                     *)
(*                                                                         *)
(* A message is a number, given when loglib_apiLogWrite accepts it, so     *)
(* that a larger number was accepted later.  The mutex of a logger is      *)
(* always taken inside the global one and has no variable.  The thread     *)
(* queue is the one of ThrTq, at the level of whole pushes and pops.       *)
(***************************************************************************)
EXTENDS Integers, Sequences, FiniteSets, SequencesExt

CONSTANTS Callers,    \* threads that call the library
          Names,      \* names of loggers
          Default,    \* stands for the name NULL, the default logger
          Cbs,        \* control blocks: one for each successful loglibInt_init
          Apnds,      \* names of appenders
          WrTypes,    \* "DIR" and "THRD", the write types
          MaxLvl,     \* the highest level, 3 (LOGLIB_LVL_DBG) in the code
          QMax,       \* slots of a thread queue, 8192 in the code
          MaxCalls,   \* bound on the calls of a run
          NULL

Levels == 0 .. MaxLvl
None == 0                \* LOGLIB_LVL_NONE

ASSUME LogAssumption ==
  /\ Default \in Names
  /\ NULL \notin Callers \cup Cbs
  /\ WrTypes \subseteq {"DIR", "THRD"}
  /\ MaxLvl \in Nat \ {0} /\ QMax \in Nat \ {0, 1} /\ MaxCalls \in Nat

VARIABLES globMutx,      \* the caller that holds g_globCb.mutx, or NULL
          slot,          \* the registered logger of each name: dfltMainCb and logHt
          maxLogLvl,     \* loggers counted at each level
          maxLogLvlVal,  \* the level the macros test
          live,          \* the allocated control blocks
          used,          \* the control blocks allocated at some time
          wrType, lvl,   \* of each control block
          apnds,         \* its list of appenders
          que, first,    \* its queue, and the slot of the ring the queue starts at
          thr,           \* where its thread is
          cncl,          \* its thread was cancelled
          thrMutx,       \* its thread holds thrdCb->mutx
          hand, walk,    \* the message its thread writes, the appenders left for it
          pc, arg,       \* of each caller: where it is, and the locals of its call
          calls,         \* calls begun
          memErr,        \* freed or NULL memory was accessed
          acc, out,      \* history: messages accepted, messages written
          overrun, dropped,  \* history: messages lost in the queue, messages freed at the end
          idleAt,        \* history: last message accepted when the thread found no message
          mixed          \* history: levels were changed, or set by two callers at once

globVars == <<globMutx, slot, maxLogLvl, maxLogLvlVal>>
cbVars   == <<live, used, wrType, lvl, apnds>>
thrVars  == <<que, first, thr, cncl, thrMutx, hand, walk>>
callVars == <<pc, arg, calls>>
histVars == <<acc, out, overrun, dropped, idleAt, mixed>>
vars == <<globVars, cbVars, thrVars, callVars, memErr, histVars>>

noArg == [name |-> Default, lvl |-> None, cb |-> NULL, tmp |-> 0]

Init ==
  /\ globMutx = NULL
  /\ slot = [n \in Names |-> NULL]
  /\ maxLogLvl = [l \in Levels |-> 0]
  /\ maxLogLvlVal = None
  /\ live = {} /\ used = {}
  /\ wrType = [b \in Cbs |-> "DIR"]
  /\ lvl = [b \in Cbs |-> None]
  /\ apnds = [b \in Cbs |-> << >>]
  /\ que = [b \in Cbs |-> << >>]
  /\ first = [b \in Cbs |-> 0]
  /\ thr = [b \in Cbs |-> "none"]
  /\ cncl = [b \in Cbs |-> FALSE]
  /\ thrMutx = [b \in Cbs |-> FALSE]
  /\ hand = [b \in Cbs |-> << >>]
  /\ walk = [b \in Cbs |-> << >>]
  /\ pc = [c \in Callers |-> "idle"]
  /\ arg = [c \in Callers |-> noArg]
  /\ calls = 0
  /\ memErr = FALSE
  /\ acc = [b \in Cbs |-> {}]
  /\ out = [b \in Cbs |-> << >>]
  /\ overrun = [b \in Cbs |-> {}]
  /\ dropped = [b \in Cbs |-> {}]
  /\ idleAt = [b \in Cbs |-> 0]
  /\ mixed = FALSE

-----------------------------------------------------------------------------
(* Helpers. *)

\* The messages accepted so far, by all loggers.
Accepted == UNION {acc[b] : b \in Cbs}

Goto(c, label) == pc' = [pc EXCEPT ![c] = label]

Begin(c, label, a) ==
  /\ pc[c] = "idle"
  /\ calls < MaxCalls
  /\ calls' = calls + 1
  /\ Goto(c, label)
  /\ arg' = [arg EXCEPT ![c] = a]

\* The call of c returns, with whatever mutex it holds released.
Return(c) ==
  /\ Goto(c, "idle")
  /\ arg' = [arg EXCEPT ![c] = noArg]
  /\ globMutx' = IF globMutx = c THEN NULL ELSE globMutx
  /\ calls' = calls

MemErr(c) ==
  /\ memErr' = TRUE
  /\ UNCHANGED <<globVars, cbVars, thrVars, callVars, histVars>>

-----------------------------------------------------------------------------
(* Bound: a call that makes a logger begins when a block is left for it.   *)
Room == Cardinality({c \in Callers : pc[c] \in {"clear", "init"}}) < Cardinality(Cbs \ used)

(* loglib_apiInit.  For the name NULL the registered default logger is     *)
(* taken out first, without the mutex: read ...                            *)
InitDflt(c, l) ==
  /\ slot[Default] # NULL \/ Room
  /\ Begin(c, "clear", [noArg EXCEPT !.lvl = l, !.cb = slot[Default]])
  /\ UNCHANGED <<globVars, cbVars, thrVars, memErr, histVars>>

(* ... and set to NULL; if there was one the call fails.                   *)
InitClear(c) ==
  /\ pc[c] = "clear"
  /\ slot' = [slot EXCEPT ![Default] = NULL]
  /\ IF arg[c].cb # NULL
       THEN Return(c)
       ELSE Goto(c, "init") /\ UNCHANGED <<globMutx, arg, calls>>
  /\ UNCHANGED <<maxLogLvl, maxLogLvlVal, cbVars, thrVars, memErr, histVars>>

InitNamed(c, n, l) ==
  /\ n # Default /\ Room
  /\ Begin(c, "init", [noArg EXCEPT !.name = n, !.lvl = l])
  /\ UNCHANGED <<globVars, cbVars, thrVars, memErr, histVars>>

(* loglibInt_init: a control block, with the configured default appender   *)
(* or none, and for LOGLIB_WR_TYPE_THRD its thread.                        *)
InitCb(c) ==
  /\ pc[c] = "init"
  /\ \E b \in Cbs \ used, w \in WrTypes, a \in {<< >>} \cup {<<x>> : x \in Apnds} :
       /\ live' = live \cup {b}
       /\ used' = used \cup {b}
       /\ wrType' = [wrType EXCEPT ![b] = w]
       /\ lvl' = [lvl EXCEPT ![b] = arg[c].lvl]
       /\ apnds' = [apnds EXCEPT ![b] = a]
       /\ thr' = [thr EXCEPT ![b] = IF w = "THRD" THEN "pop" ELSE "none"]
       /\ arg' = [arg EXCEPT ![c].cb = b]
  /\ Goto(c, "reg")
  /\ UNCHANGED <<globVars, que, first, cncl, thrMutx, hand, walk, calls, memErr, histVars>>

(* loglibInt_globRegLoglibCb.  The hash table refuses a name it holds: the *)
(* call fails and the new logger stays, with its thread and without a      *)
(* name.  A default logger is replaced.                                    *)
InitReg(c) ==
  LET n == arg[c].name IN
  /\ pc[c] = "reg"
  /\ globMutx = NULL
  /\ IF n # Default /\ slot[n] # NULL
       THEN Return(c) /\ UNCHANGED slot
       ELSE /\ slot' = [slot EXCEPT ![n] = arg[c].cb]
            /\ Goto(c, "cnt")
            /\ UNCHANGED <<globMutx, arg, calls>>
  /\ UNCHANGED <<maxLogLvl, maxLogLvlVal, cbVars, thrVars, memErr, histVars>>

SettingMax(c) == pc[c] \in {"cntWr", "maxTst", "maxWr"}

(* The level is read from the logger, which another caller may have        *)
(* destroyed since it was registered ...                                   *)
CntBad(c) ==
  /\ pc[c] = "cnt"
  /\ arg[c].cb \notin live
  /\ MemErr(c)

(* ... and loglibInt_globSetMaxLogLvl reads the counter of the level ...   *)
CntRead(c) ==
  /\ pc[c] = "cnt"
  /\ arg[c].cb \in live
  /\ arg' = [arg EXCEPT ![c].tmp = maxLogLvl[arg[c].lvl]]
  /\ mixed' = (mixed \/ \E d \in Callers : SettingMax(d))
  /\ Goto(c, "cntWr")
  /\ UNCHANGED <<globVars, cbVars, thrVars, calls, memErr, acc, out, overrun, dropped, idleAt>>

(* ... written ...                                                         *)
CntWrite(c) ==
  /\ pc[c] = "cntWr"
  /\ maxLogLvl' = [maxLogLvl EXCEPT ![arg[c].lvl] = arg[c].tmp + 1]
  /\ Goto(c, "maxTst")
  /\ UNCHANGED <<globMutx, slot, maxLogLvlVal, cbVars, thrVars, arg, calls, memErr, histVars>>

\* Fault: the level is set even when a higher one is in force.
MaxTest_Always(c) ==
  /\ pc[c] = "maxTst"
  /\ Goto(c, "maxWr")
  /\ UNCHANGED <<globVars, cbVars, thrVars, arg, calls, memErr, histVars>>

(* ... and the maximum is compared ...                                     *)
MaxTest(c) ==
  /\ pc[c] = "maxTst"
  /\ IF maxLogLvlVal < arg[c].lvl
       THEN Goto(c, "maxWr") /\ UNCHANGED <<globMutx, arg, calls>>
       ELSE Return(c)
  /\ UNCHANGED <<slot, maxLogLvl, maxLogLvlVal, cbVars, thrVars, memErr, histVars>>

(* ... and raised.  loglib_apiInit does all this without the mutex.        *)
MaxWrite(c) ==
  /\ pc[c] = "maxWr"
  /\ maxLogLvlVal' = arg[c].lvl
  /\ Return(c)
  /\ UNCHANGED <<slot, maxLogLvl, cbVars, thrVars, memErr, histVars>>

-----------------------------------------------------------------------------
(* loglib_apiSetLogLvl, up to loglibInt_globUnsetMaxLogLvl.  When the last *)
(* logger leaves a level above NONE the loop there never ends, with the    *)
(* mutex held: the caller is at "spin".  Counters are unsigned; below zero *)
(* they are written as negative numbers here.                              *)
SetLogLvl(c, n, l) ==
  LET b == slot[n]
      cnt == maxLogLvl[lvl[b]] - 1 IN
  /\ globMutx = NULL
  /\ b # NULL
  /\ Begin(c, IF cnt = 0 /\ lvl[b] # None THEN "spin" ELSE "setLvl",
              [noArg EXCEPT !.name = n, !.lvl = l, !.cb = b])
  /\ globMutx' = c
  /\ maxLogLvl' = [maxLogLvl EXCEPT ![lvl[b]] = cnt]
  /\ maxLogLvlVal' = IF cnt # 0 \/ lvl[b] = None THEN lvl[b] ELSE maxLogLvlVal
  /\ mixed' = TRUE
  /\ UNCHANGED <<slot, cbVars, thrVars, memErr, acc, out, overrun, dropped, idleAt>>

SetLvl(c) ==
  /\ pc[c] = "setLvl"
  /\ lvl' = [lvl EXCEPT ![arg[c].cb] = arg[c].lvl]
  /\ Goto(c, "cnt")
  /\ UNCHANGED <<globVars, live, used, wrType, apnds, thrVars, arg, calls, memErr, histVars>>

-----------------------------------------------------------------------------
(* The macros: a message above the level is dropped without a call.        *)
LogMacro(c, n, l) ==
  /\ l > None
  /\ maxLogLvlVal >= l
  /\ Begin(c, "write", [noArg EXCEPT !.name = n, !.lvl = l])
  /\ UNCHANGED <<globVars, cbVars, thrVars, memErr, histVars>>

\* A name that is not registered writes to the default logger.
Target(n) == IF slot[n] # NULL THEN slot[n] ELSE slot[Default]

(* thrlib_tqPush: with QMax - 1 messages in the queue the call fails,      *)
(* unless the ring starts at slot 0: there the test for a full queue is    *)
(* missed and all that is queued is lost, as ThrTq shows.                  *)
PushFull(b) == Len(que[b]) = QMax - 1 /\ first[b] # 0

Push(b, m) ==
  IF Len(que[b]) = QMax - 1
    THEN /\ que' = [que EXCEPT ![b] = << >>]
         /\ overrun' = [overrun EXCEPT ![b] = @ \cup ToSet(que[b]) \cup {m}]
    ELSE /\ que' = [que EXCEPT ![b] = Append(@, m)]
         /\ UNCHANGED overrun

(* loglib_apiLogWrite, whole: the mutex is held from the first line to the *)
(* last, and what the thread of the logger shares with it is the queue.    *)
LogWrite(c) ==
  LET b == Target(arg[c].name)
      m == Cardinality(Accepted) + 1 IN
  /\ pc[c] = "write"
  /\ globMutx = NULL
  /\ IF b = NULL \/ (b # NULL /\ (arg[c].lvl > lvl[b] \/ (wrType[b] = "DIR" /\ apnds[b] = << >>)))
       THEN UNCHANGED <<que, acc, out, overrun>>
       ELSE IF wrType[b] = "DIR"
       THEN /\ out' = [out EXCEPT ![b] = Append(@, m)]
            /\ acc' = [acc EXCEPT ![b] = @ \cup {m}]
            /\ UNCHANGED <<que, overrun>>
       ELSE IF PushFull(b)
       THEN UNCHANGED <<que, acc, out, overrun>>
       ELSE /\ Push(b, m)
            /\ acc' = [acc EXCEPT ![b] = @ \cup {m}]
            /\ UNCHANGED out
  /\ Return(c)
  /\ UNCHANGED <<slot, maxLogLvl, maxLogLvlVal, cbVars, first, thr, cncl, thrMutx, hand, walk,
                 memErr, dropped, idleAt, mixed>>

-----------------------------------------------------------------------------
(* loglib_apiRegApnd and loglib_apiDeregApnd: api_getCallApndInfoFunc      *)
(* takes the mutex of the thread inside the global one.                    *)
CallApnd(c, n, a) ==
  /\ slot[n] # NULL
  /\ globMutx = NULL
  /\ globMutx' = c
  /\ \E op \in {"regApnd", "deregApnd"} :
       Begin(c, op, [noArg EXCEPT !.cb = slot[n], !.name = a])
  /\ UNCHANGED <<slot, maxLogLvl, maxLogLvlVal, cbVars, thrVars, memErr, histVars>>

\* Where an appender is in a list that holds it.
PlaceIn(list, a) == CHOOSE i \in DOMAIN list : list[i] = a

(* The list after the call: to register a name that is there, or to        *)
(* deregister one that is not, fails and leaves the list.                  *)
ApndList(op, list, a) ==
  IF (op = "regApnd") <=> (a \in ToSet(list)) THEN list
  ELSE IF op = "regApnd" THEN Append(list, a)
  ELSE RemoveAt(list, PlaceIn(list, a))

\* Fault: the mutex of the thread is not taken.
ApndDo_NoMutex(c) ==
  LET b == arg[c].cb IN
  /\ pc[c] \in {"regApnd", "deregApnd"}
  /\ apnds' = [apnds EXCEPT ![b] = ApndList(pc[c], @, arg[c].name)]
  /\ Return(c)
  /\ UNCHANGED <<slot, maxLogLvl, maxLogLvlVal, live, used, wrType, lvl, thrVars, memErr, histVars>>

ApndDo(c) ==
  LET b == arg[c].cb IN
  /\ pc[c] \in {"regApnd", "deregApnd"}
  /\ ~thrMutx[b]
  /\ apnds' = [apnds EXCEPT ![b] = ApndList(pc[c], @, arg[c].name)]
  /\ Return(c)
  /\ UNCHANGED <<slot, maxLogLvl, maxLogLvlVal, live, used, wrType, lvl, thrVars, memErr, histVars>>

-----------------------------------------------------------------------------
(* loglib_apiDstry: NULL is dereferenced when there is no default logger   *)
(* to destroy.                                                             *)
DstryNone(c) ==
  /\ pc[c] = "idle" /\ calls < MaxCalls
  /\ globMutx = NULL
  /\ slot[Default] = NULL
  /\ MemErr(c)

DstryDir(c, n) ==
  LET b == slot[n] IN
  /\ pc[c] = "idle" /\ calls < MaxCalls
  /\ globMutx = NULL
  /\ b # NULL /\ wrType[b] = "DIR"
  /\ slot' = [slot EXCEPT ![n] = NULL]
  /\ apnds' = [apnds EXCEPT ![b] = << >>]
  /\ live' = live \ {b}
  /\ calls' = calls + 1
  /\ UNCHANGED <<globMutx, maxLogLvl, maxLogLvlVal, used, wrType, lvl, thrVars, pc, arg, memErr, histVars>>

(* The thread is cancelled and joined with the mutexes held.               *)
DstryThrd(c, n) ==
  LET b == slot[n] IN
  /\ globMutx = NULL
  /\ b # NULL /\ wrType[b] = "THRD"
  /\ Begin(c, "join", [noArg EXCEPT !.cb = b, !.name = n])
  /\ globMutx' = c
  /\ slot' = [slot EXCEPT ![n] = NULL]
  /\ cncl' = [cncl EXCEPT ![b] = TRUE]
  /\ UNCHANGED <<maxLogLvl, maxLogLvlVal, cbVars, que, first, thr, thrMutx, hand, walk, memErr, histVars>>

(* The thread id for the join is read in the block that the thread frees   *)
(* when it ends.                                                           *)
DstryTid(c) ==
  /\ pc[c] = "join"
  /\ IF thr[arg[c].cb] = "gone"
       THEN MemErr(c)
       ELSE /\ Goto(c, "joining")
            /\ UNCHANGED <<globVars, cbVars, thrVars, arg, calls, memErr, histVars>>

DstryJoin(c) ==
  /\ pc[c] = "joining"
  /\ thr[arg[c].cb] = "gone"
  /\ live' = live \ {arg[c].cb}
  /\ Return(c)
  /\ UNCHANGED <<slot, maxLogLvl, maxLogLvlVal, used, wrType, lvl, apnds, thrVars, memErr, histVars>>

-----------------------------------------------------------------------------
(* loglibInt_thrdMain.  With the mutex held and cancellation off the queue *)
(* is popped ...                                                           *)
ThrGoto(b, label) == thr' = [thr EXCEPT ![b] = label]

ThrPop(b) ==
  /\ thr[b] = "pop"
  /\ que[b] # << >>
  /\ hand' = [hand EXCEPT ![b] = <<Head(que[b])>>]
  /\ que' = [que EXCEPT ![b] = Tail(@)]
  /\ first' = [first EXCEPT ![b] = (@ + 1) % QMax]
  /\ ThrGoto(b, "hand")
  /\ UNCHANGED <<globVars, cbVars, cncl, thrMutx, walk, callVars, memErr, histVars>>

\* Fault: cancellation stays off in the wait.
ThrEmpty_NoCancel(b) ==
  /\ thr[b] = "pop"
  /\ que[b] = << >>
  /\ ThrGoto(b, "wait")
  /\ idleAt' = [idleAt EXCEPT ![b] = Cardinality(Accepted)]
  /\ UNCHANGED <<globVars, cbVars, que, first, cncl, thrMutx, hand, walk, callVars, memErr,
                 acc, out, overrun, dropped, mixed>>

(* ... and when it is empty the thread enters the timed wait, which acts   *)
(* at once on a cancellation that is pending.                              *)
ThrEmpty(b) ==
  /\ thr[b] = "pop"
  /\ que[b] = << >>
  /\ ThrGoto(b, IF cncl[b] THEN "cancelled" ELSE "wait")
  /\ idleAt' = [idleAt EXCEPT ![b] = Cardinality(Accepted)]
  /\ UNCHANGED <<globVars, cbVars, que, first, cncl, thrMutx, hand, walk, callVars, memErr,
                 acc, out, overrun, dropped, mixed>>

\* Fault: the wait has no timeout, and the signal came before it.
ThrWake_Never(b) ==
  /\ thr[b] = "wait"
  /\ cncl[b]
  /\ ThrGoto(b, "pop")
  /\ UNCHANGED <<globVars, cbVars, que, first, cncl, thrMutx, hand, walk, callVars, memErr, histVars>>

(* The wait ends after a millisecond, or at the signal of a push.          *)
ThrWake(b) ==
  /\ thr[b] = "wait"
  /\ ThrGoto(b, "pop")
  /\ UNCHANGED <<globVars, cbVars, que, first, cncl, thrMutx, hand, walk, callVars, memErr, histVars>>

ThrCancel(b) ==
  /\ thr[b] = "wait"
  /\ cncl[b]
  /\ ThrGoto(b, "cancelled")
  /\ UNCHANGED <<globVars, cbVars, que, first, cncl, thrMutx, hand, walk, callVars, memErr, histVars>>

(* thrd_clnThrd frees what is queued, the appenders and the block.         *)
ThrClean(b) ==
  /\ thr[b] = "cancelled"
  /\ ThrGoto(b, "gone")
  /\ dropped' = [dropped EXCEPT ![b] = @ \cup ToSet(que[b])]
  /\ que' = [que EXCEPT ![b] = << >>]
  /\ apnds' = [apnds EXCEPT ![b] = << >>]
  /\ UNCHANGED <<globVars, live, used, wrType, lvl, first, cncl, thrMutx, hand, walk, callVars, memErr,
                 acc, out, overrun, idleAt, mixed>>

(* The message is written under the mutex, to one appender after another.  *)
ThrLock(b) ==
  /\ thr[b] = "hand"
  /\ thrMutx' = [thrMutx EXCEPT ![b] = TRUE]
  /\ walk' = [walk EXCEPT ![b] = apnds[b]]
  /\ ThrGoto(b, "walk")
  /\ UNCHANGED <<globVars, cbVars, que, first, cncl, hand, callVars, memErr, histVars>>

ThrWrite(b) ==
  /\ thr[b] = "walk"
  /\ walk[b] # << >>
  /\ walk' = [walk EXCEPT ![b] = Tail(@)]
  /\ UNCHANGED <<globVars, cbVars, que, first, thr, cncl, thrMutx, hand, callVars, memErr, histVars>>

\* Fault: cancellation is on while a message is in hand.
ThrWritten_Cancel(b) ==
  /\ thr[b] = "walk"
  /\ walk[b] = << >>
  /\ out' = IF cncl[b] THEN out ELSE [out EXCEPT ![b] = @ \o hand[b]]
  /\ hand' = [hand EXCEPT ![b] = << >>]
  /\ thrMutx' = [thrMutx EXCEPT ![b] = FALSE]
  /\ ThrGoto(b, IF cncl[b] THEN "cancelled" ELSE "pop")
  /\ UNCHANGED <<globVars, cbVars, que, first, cncl, walk, callVars, memErr,
                 acc, overrun, dropped, idleAt, mixed>>

ThrWritten(b) ==
  /\ thr[b] = "walk"
  /\ walk[b] = << >>
  /\ out' = [out EXCEPT ![b] = @ \o hand[b]]
  /\ hand' = [hand EXCEPT ![b] = << >>]
  /\ thrMutx' = [thrMutx EXCEPT ![b] = FALSE]
  /\ ThrGoto(b, "pop")
  /\ UNCHANGED <<globVars, cbVars, que, first, cncl, walk, callVars, memErr,
                 acc, overrun, dropped, idleAt, mixed>>

-----------------------------------------------------------------------------
(* Calls begin, go on, and the threads of the loggers run.                 *)
Call(c) ==
  \/ \E l \in Levels : InitDflt(c, l)
  \/ \E n \in Names, l \in Levels : InitNamed(c, n, l) \/ SetLogLvl(c, n, l) \/ LogMacro(c, n, l)
  \/ \E n \in Names, a \in Apnds : CallApnd(c, n, a)
  \/ DstryNone(c)
  \/ \E n \in Names : DstryDir(c, n) \/ DstryThrd(c, n)

GoOn(c) ==
  \/ InitClear(c) \/ InitCb(c) \/ InitReg(c)
  \/ CntBad(c) \/ CntRead(c) \/ CntWrite(c) \/ MaxTest(c) \/ MaxWrite(c)
  \/ SetLvl(c) \/ LogWrite(c) \/ ApndDo(c)
  \/ DstryTid(c) \/ DstryJoin(c)

LogThread(b) ==
  \/ ThrPop(b) \/ ThrEmpty(b) \/ ThrWake(b) \/ ThrCancel(b) \/ ThrClean(b)
  \/ ThrLock(b) \/ ThrWrite(b) \/ ThrWritten(b)

Next ==
  /\ ~memErr
  /\ \/ \E c \in Callers : Call(c) \/ GoOn(c)
     \/ \E b \in Cbs : LogThread(b)

Spec == Init /\ [][Next]_vars

(* A caller inside the library and a thread of a logger go on when they    *)
(* can, and a wait for a millisecond ends.                                 *)
Fairness ==
  /\ \A c \in Callers : WF_vars(~memErr /\ GoOn(c))
  /\ \A b \in Cbs : WF_vars(~memErr /\ LogThread(b))

FairSpec == Spec /\ Fairness

-----------------------------------------------------------------------------
(* The values of the variables have their types.                           *)
TypeOK ==
  /\ globMutx \in Callers \cup {NULL}
  /\ slot \in [Names -> Cbs \cup {NULL}]
  /\ maxLogLvl \in [Levels -> Int] /\ maxLogLvlVal \in Levels
  /\ live \subseteq used /\ used \subseteq Cbs
  /\ wrType \in [Cbs -> {"DIR", "THRD"}] /\ lvl \in [Cbs -> Levels]
  /\ thr \in [Cbs -> {"none", "pop", "wait", "cancelled", "gone", "hand", "walk"}]
  /\ cncl \in [Cbs -> BOOLEAN] /\ thrMutx \in [Cbs -> BOOLEAN]
  /\ pc \in [Callers -> {"idle", "clear", "init", "reg", "cnt", "cntWr", "maxTst", "maxWr", "setLvl",
                         "spin", "write", "regApnd", "deregApnd", "join", "joining"}]
  /\ \A b \in Cbs : ToSet(apnds[b]) \subseteq Apnds /\ Len(que[b]) < QMax /\ first[b] \in 0 .. QMax - 1
  /\ calls \in 0 .. MaxCalls /\ memErr \in BOOLEAN /\ mixed \in BOOLEAN

(* What a logger wrote, has in hand and has queued is in the order in      *)
(* which loglib_apiLogWrite accepted it, each message once; an accepted    *)
(* message that is not there was lost in the queue or freed at the end,    *)
(* whatever callers, cancellation and the thread did.                      *)
InOrder(b) ==
  LET s == out[b] \o hand[b] \o que[b] IN
  /\ \A i, j \in DOMAIN s : i < j => s[i] < s[j]
  /\ acc[b] = ToSet(s) \cup overrun[b] \cup dropped[b]
  /\ ToSet(s) \cap (overrun[b] \cup dropped[b]) = {}
MessagesAccounted == \A b \in Cbs : InOrder(b)

(* The thread stops only in its wait: what is freed at the end came after  *)
(* it had last found its queue empty, and it wrote nothing that came since. *)
(* A run of messages that it began to write is written to its end.         *)
OnlyLateDropped ==
  \A b \in Cbs : dropped[b] # {} =>
    /\ \A m \in dropped[b] : m > idleAt[b]
    /\ \A m \in ToSet(out[b]) : m <= idleAt[b]

(* The two together: where every accepted message is or went.              *)
Accounting == MessagesAccounted /\ OnlyLateDropped

(* While the thread walks the appenders of its logger for a message, none  *)
(* of those it has yet to reach is deregistered and freed.                 *)
WalkSafe == \A b \in Cbs : ToSet(walk[b]) \subseteq ToSet(apnds[b])

(* A logger that a name leads to is allocated, and its thread is neither   *)
(* cancelled nor gone.                                                     *)
NamesLive ==
  \A n \in Names : slot[n] # NULL =>
    /\ slot[n] \in live
    /\ ~cncl[slot[n]] /\ thr[slot[n]] \notin {"cancelled", "gone"}

(* What a thread or a name still leads to is not freed.                    *)
MemoryHeld == WalkSafe /\ NamesLive

(* As long as no level is changed and no two loggers are set up at once,   *)
(* the level the macros test lets through whatever a registered logger     *)
(* would write.                                                            *)
SetUp(b) == \E c \in Callers : arg[c].cb = b /\ pc[c] \in {"reg", "cnt", "cntWr", "maxTst", "maxWr"}
MaxCovers ==
  mixed \/ \A n \in Names : slot[n] # NULL /\ ~SetUp(slot[n]) => lvl[slot[n]] <= maxLogLvlVal

(* A message that was accepted is written, or lost as MessagesAccounted    *)
(* says; it does not stay in the queue.                                    *)
QueueDrains ==
  \A b \in Cbs : \A m \in 1 .. MaxCalls :
    (m \in ToSet(que[b])) ~> (m \notin ToSet(que[b]) \/ memErr)

(* Every call returns, the one that joins the thread included, unless a    *)
(* caller is in the loop that never ends.                                  *)
CallsReturn ==
  \A c \in Callers : (pc[c] # "idle") ~> (pc[c] = "idle" \/ memErr \/ \E d \in Callers : pc[d] = "spin")
=============================================================================
