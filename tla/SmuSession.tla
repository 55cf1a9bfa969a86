----------------------------- MODULE SmuSession -----------------------------
(***************************************************************************)
(* The supervision client (smulib): a thread of the library registers the  *)
(* process with the supervisor (SMD), sends it heartbeats, and watches the *)
(* main thread and the registered threads of the program, which store the  *)
(* tick they are alive at.  Who falls silent for too long is cancelled or  *)
(* takes the process down: SMD is asked for the termination, and if it is  *)
(* not answered the process ends when the freeze timer does.               *)
(*                                                                         *)
(* Ticks are kept as differences to the current one: a timer holds the     *)
(* ticks it has left, a keepalive its age.  The timer table is taken as    *)
(* TmrWheel shows it to behave: the handler runs every timer that is due,  *)
(* earliest first.  The supervisor and the connection are external; they   *)
(* may fail MaxFaults times.  The queue of messages from the program       *)
(* (smulibInt_uhRcvHdlr) is left out, nothing is ever pushed into it.      *)
(***************************************************************************)
EXTENDS Integers, Sequences, SequencesExt

CONSTANTS Thrds,      \* threads of the program that may register
          RegTm,      \* regSndTmOut
          HbTm,       \* hbSndTmOut
          FreezeTm,   \* freezeTmOut
          AppTm,      \* the literal 30 of smulibInt_uhChkMainTick and its timer
          ThrdTm,     \* thrdTmOut of every thread
          MaxJump,    \* bound on the ticks that pass in a turn of the loop
          MaxMsgs,    \* bound on the messages under way in a direction
          MaxFaults   \* bound on the faults of the supervisor and the connection

ASSUME SmuAssumption ==
  /\ {RegTm, HbTm, FreezeTm, AppTm, ThrdTm, MaxJump, MaxMsgs} \subseteq Nat \ {0}
  /\ MaxFaults \in Nat

VARIABLES
  pc,        \* the step of the main loop, or "exit" when the process has ended
  status,    \* smdInfo->status
  waitCnt,   \* smdInfo->hbSndWaitCnt
  smdTmr,    \* smdInfo->tmrNode
  locTmr,    \* locInfo->tmrNode
  mainAct,   \* mainBlkInfo->status is SMU_MAIN_BLK_STA_ACT
  mainAge,   \* curTick - mainBlkInfo->lstUpdTick
  blkLL,     \* the list of thread blocks, by their threads
  age,       \* curTick - appCtrl.lstUpdTick of each thread's block
  kills,     \* threads that registered with killPrcFlg
  thr,       \* what each thread does
  reg,       \* age of the tick a keepalive has read and not yet stored
  memErr,    \* freed memory was accessed
  toSmd, toUs,   \* messages under way
  known,     \* the supervisor knows the process
  faults,    \* faults so far
  mute       \* history: a registration could not be sent when its timer ran out

blkVars == <<blkLL, age, kills, thr, reg, memErr>>
appVars == <<mainAge, blkVars>>
netVars == <<toSmd, toUs, known, faults>>
sesVars == <<status, waitCnt, smdTmr, mute>>
vars == <<pc, sesVars, locTmr, mainAct, appVars, netVars>>

NoTmr == [evnt |-> "none", left |-> 0]
Tmr(e, tm) == [evnt |-> e, left |-> tm]
Active(tmr) == tmr # NoTmr
Due(tmr) == Active(tmr) /\ tmr.left <= 0

Up == pc # "exit" /\ ~memErr
At(step) == pc = step /\ ~memErr

(* smulibInt_init after the registration was sent; what fails before ends  *)
(* the process.                                                            *)
Init ==
  /\ pc = "tick"
  /\ status = "CLOSE" /\ waitCnt = 0 /\ mute = FALSE
  /\ smdTmr = Tmr("REG", RegTm) /\ locTmr = NoTmr
  /\ mainAct = TRUE /\ mainAge = 0
  /\ blkLL = << >> /\ kills = {}
  /\ age = [t \in Thrds |-> 0] /\ thr = [t \in Thrds |-> "none"] /\ reg = [t \in Thrds |-> 0]
  /\ memErr = FALSE
  /\ toSmd = <<"REG">> /\ toUs = << >> /\ known = FALSE /\ faults = 0

-----------------------------------------------------------------------------
(* rlylib_apiSndFixMsgToHost refuses a message when the host's queue is    *)
(* full.  What it takes beyond MaxMsgs is lost.                            *)
Sent(m) ==
  /\ toSmd' = IF Len(toSmd) < MaxMsgs THEN Append(toSmd, m) ELSE toSmd
  /\ UNCHANGED faults
NotSent ==
  /\ faults < MaxFaults
  /\ faults' = faults + 1
  /\ UNCHANGED toSmd

Exit == pc' = "exit"

Listed(t) == t \in ToSet(blkLL)

(* smulibInt_mainTermProc(RC_FALSE) in a step that goes on to next.  A     *)
(* second call finds the freeze timer running and fails, which ends the    *)
(* process as well.                                                        *)
Term(next) ==
  \/ /\ status = "CLOSE" /\ Exit
     /\ UNCHANGED <<smdTmr, locTmr, toSmd, faults>>
  \/ /\ status # "CLOSE" /\ NotSent /\ Exit
     /\ UNCHANGED <<smdTmr, locTmr>>
  \/ /\ status # "CLOSE" /\ Sent("TERM")
     /\ smdTmr' = NoTmr
     /\ IF Active(locTmr)
          THEN Exit /\ UNCHANGED locTmr
          ELSE locTmr' = Tmr("FREEZE", FreezeTm) /\ pc' = next

-----------------------------------------------------------------------------
(* The main loop: the tick, ...  No time passes while two messages wait    *)
(* for the supervisor: its answers are late by one message at most.        *)
Older(a, d, max) == IF a + d > max THEN max ELSE a + d
Pass(tmr, d) == IF Active(tmr) THEN [tmr EXCEPT !.left = @ - d] ELSE tmr
Tick(d) ==
  /\ At("tick")
  /\ d > 0 => Len(toSmd) < 2
  /\ pc' = "rcv"
  /\ smdTmr' = Pass(smdTmr, d) /\ locTmr' = Pass(locTmr, d)
  /\ mainAge' = Older(mainAge, d, AppTm)
  /\ age' = [t \in Thrds |-> IF Listed(t) THEN Older(age[t], d, ThrdTm + 1) ELSE age[t]]
  /\ reg' = [t \in Thrds |-> IF thr[t] \in {"insert", "store"} THEN Older(reg[t], d, ThrdTm + 1) ELSE reg[t]]
  /\ UNCHANGED <<status, waitCnt, mute, mainAct, blkLL, kills, thr, memErr, netVars>>

(* ... the messages of the supervisor, until there is none, ...            *)
RcvNone ==
  /\ At("rcv")
  /\ toUs = << >>
  /\ pc' = "main"
  /\ UNCHANGED <<sesVars, locTmr, mainAct, appVars, netVars>>

Rcv(m) ==
  /\ At("rcv")
  /\ toUs # << >> /\ Head(toUs) = m
  /\ toUs' = Tail(toUs)

RcvRegCfm ==
  /\ Rcv("REG_SUCC")
  /\ status' = "OPEN" /\ waitCnt' = 0
  /\ smdTmr' = Tmr("HB", HbTm)
  /\ UNCHANGED <<pc, mute, locTmr, mainAct, appVars, toSmd, known, faults>>

\* Fault: the count is only reset by a registration.
RcvHbCfm_NoReset ==
  /\ Rcv("HB_SUCC")
  /\ UNCHANGED <<pc, sesVars, locTmr, mainAct, appVars, toSmd, known, faults>>

RcvHbCfm ==
  /\ Rcv("HB_SUCC")
  /\ waitCnt' = 0
  /\ UNCHANGED <<pc, status, smdTmr, mute, locTmr, mainAct, appVars, toSmd, known, faults>>

\* Fault: only the status is set.
RcvReReg_NoReq ==
  /\ Rcv("HB_REREG")
  /\ waitCnt' = 0 /\ status' = "CLOSE"
  /\ UNCHANGED <<pc, smdTmr, mute, locTmr, mainAct, appVars, toSmd, known, faults>>

(* The supervisor does not know the process: it registers anew, while the  *)
(* heartbeats go on.                                                       *)
RcvReReg ==
  /\ Rcv("HB_REREG")
  /\ waitCnt' = 0 /\ status' = "CLOSE"
  /\ Sent("REG") \/ NotSent
  /\ UNCHANGED <<pc, smdTmr, mute, locTmr, mainAct, appVars, known>>

RcvRefusal ==
  /\ Rcv("FAIL") \/ Rcv("TERM_CFM")
  /\ Exit
  /\ UNCHANGED <<sesVars, locTmr, mainAct, appVars, toSmd, known, faults>>

(* ... the main thread of the program (smulibInt_uhChkMainTick and         *)
(* smulibInt_timerAppTmOutHdlr, which does not look at the status), ...    *)
MainOk ==
  /\ At("main")
  /\ mainAge < AppTm \/ ~mainAct
  /\ pc' = "thrd"
  /\ UNCHANGED <<sesVars, locTmr, mainAct, appVars, netVars>>

\* Fault: the freeze timer is started anew while it runs.
MainLate_Restart ==
  /\ At("main")
  /\ mainAge >= AppTm /\ mainAct
  /\ Sent("TERM")
  /\ pc' = "thrd"
  /\ smdTmr' = NoTmr
  /\ locTmr' = Tmr("FREEZE", AppTm)
  /\ UNCHANGED <<status, waitCnt, mute, mainAct, appVars, toUs, known>>

MainLate ==
  /\ At("main")
  /\ mainAge >= AppTm /\ mainAct
  /\ \/ /\ NotSent /\ Exit
        /\ UNCHANGED <<smdTmr, locTmr, mainAct>>
     \/ /\ Sent("TERM")
        /\ pc' = "thrd"
        /\ smdTmr' = NoTmr
        /\ IF Active(locTmr)
             THEN UNCHANGED <<locTmr, mainAct>>
             ELSE locTmr' = Tmr("FREEZE", AppTm) /\ mainAct' = FALSE
  /\ UNCHANGED <<status, waitCnt, mute, appVars, toUs, known>>

(* ... the registered threads (smulibInt_thBlkChkThrd).  After a block was *)
(* freed its next pointer, which comlib_lnkLstDel had set to NULL, is read *)
(* and ends the walk: one late thread is dealt with in a turn, ...         *)
Late(t) == age[t] > ThrdTm
FirstLate(t) ==
  \E i \in DOMAIN blkLL : blkLL[i] = t /\ Late(t) /\ \A j \in 1 .. i - 1 : ~Late(blkLL[j])

ThrdsOk ==
  /\ At("thrd")
  /\ \A i \in DOMAIN blkLL : ~Late(blkLL[i])
  /\ pc' = "timer"
  /\ UNCHANGED <<sesVars, locTmr, mainAct, appVars, netVars>>

ThrdLate(t) ==
  /\ At("thrd")
  /\ FirstLate(t)
  /\ blkLL' = Remove(blkLL, t)
  /\ \/ t \notin kills /\ pc' = "timer" /\ UNCHANGED <<smdTmr, locTmr, toSmd, faults>>
     \/ t \in kills /\ Term("timer")
  /\ age' = [age EXCEPT ![t] = 0]
  /\ UNCHANGED <<status, waitCnt, mute, mainAct, mainAge, kills, thr, reg, memErr, toUs, known>>

(* ... and the timers that are due (smulibInt_timerEvnt).                  *)
Fires(tmr, other, evnt) ==
  /\ At("timer")
  /\ tmr.evnt = evnt /\ Due(tmr)
  /\ Due(other) => tmr.left <= other.left

(* A registration that cannot be sent is not tried again.                  *)
RegTmOut ==
  /\ Fires(smdTmr, locTmr, "REG")
  /\ \/ Sent("REG") /\ smdTmr' = Tmr("REG", RegTm) /\ UNCHANGED mute
     \/ NotSent /\ smdTmr' = NoTmr /\ mute' = TRUE
  /\ UNCHANGED <<pc, status, waitCnt, locTmr, mainAct, appVars, toUs, known>>

HbTmOut ==
  /\ Fires(smdTmr, locTmr, "HB")
  /\ waitCnt < 3
  /\ Sent("HB") \/ NotSent
  /\ waitCnt' = waitCnt + 1
  /\ smdTmr' = Tmr("HB", HbTm)
  /\ UNCHANGED <<pc, status, mute, locTmr, mainAct, appVars, toUs, known>>

\* Fault: the session is closed and no timer started.
HbLost_NoTmr ==
  /\ Fires(smdTmr, locTmr, "HB")
  /\ waitCnt >= 3
  /\ status' = "CLOSE"
  /\ smdTmr' = NoTmr
  /\ UNCHANGED <<pc, waitCnt, mute, locTmr, mainAct, appVars, netVars>>

HbLost ==
  /\ Fires(smdTmr, locTmr, "HB")
  /\ waitCnt >= 3
  /\ status' = "CLOSE"
  /\ smdTmr' = Tmr("REG", RegTm)
  /\ UNCHANGED <<pc, waitCnt, mute, locTmr, mainAct, appVars, netVars>>

FreezeTmOut ==
  /\ Fires(locTmr, smdTmr, "FREEZE")
  /\ Exit
  /\ UNCHANGED <<sesVars, locTmr, mainAct, appVars, netVars>>

TimersDone ==
  /\ At("timer")
  /\ ~Due(smdTmr) /\ ~Due(locTmr)
  /\ pc' = "tick"
  /\ UNCHANGED <<sesVars, locTmr, mainAct, appVars, netVars>>

-----------------------------------------------------------------------------
(* The program.  smulib_apiKeepalive: *)
Keepalive ==
  /\ Up
  /\ mainAge > 0
  /\ mainAge' = 0
  /\ UNCHANGED <<pc, sesVars, locTmr, mainAct, blkVars, netVars>>

Does(t, from, to) ==
  /\ Up
  /\ thr[t] = from
  /\ thr' = [thr EXCEPT ![t] = to]
  /\ UNCHANGED <<pc, sesVars, locTmr, mainAct, mainAge, netVars>>

(* smulib_apiRegThrdBlk reads the tick before it takes the mutex of the    *)
(* list.                                                                   *)
RegThrdBlk(t) ==
  /\ Does(t, "none", "insert")
  /\ reg' = [reg EXCEPT ![t] = 0]
  /\ kills' \in {kills \ {t}, kills \cup {t}}
  /\ UNCHANGED <<blkLL, age, memErr>>

InsertBlk(t) ==
  /\ Does(t, "insert", "run")
  /\ blkLL' = Append(blkLL, t)
  /\ age' = [age EXCEPT ![t] = reg[t]]
  /\ reg' = [reg EXCEPT ![t] = 0]
  /\ UNCHANGED <<kills, memErr>>

(* smulib_apiKeepaliveThrdBlk reads the tick and stores it without a lock. *)
KeepaliveRead(t) ==
  /\ Does(t, "run", "store")
  /\ reg' = [reg EXCEPT ![t] = 0]
  /\ UNCHANGED <<blkLL, age, kills, memErr>>

KeepaliveStore(t) ==
  /\ Does(t, "store", "run")
  /\ IF Listed(t)
       THEN age' = [age EXCEPT ![t] = reg[t]] /\ UNCHANGED memErr
       ELSE memErr' = TRUE /\ UNCHANGED age
  /\ reg' = [reg EXCEPT ![t] = 0]
  /\ UNCHANGED <<blkLL, kills>>

(* smulib_apiDeregThrdBlk. *)
DeregThrdBlk(t) ==
  /\ Does(t, "run", "none")
  /\ blkLL' = Remove(blkLL, t)
  /\ age' = [age EXCEPT ![t] = 0]
  /\ memErr' = ~Listed(t)
  /\ UNCHANGED <<kills, reg>>

(* A cancelled thread ends at a cancellation point of its own.             *)
EndCancelled(t) ==
  /\ Does(t, "run", "ended")
  /\ ~Listed(t)
  /\ UNCHANGED <<blkLL, age, kills, reg, memErr>>

-----------------------------------------------------------------------------
(* The supervisor and the connection. *)
SmdAnswers(m, answer) ==
  /\ Up
  /\ toSmd # << >> /\ Head(toSmd) = m
  /\ Len(toUs) < MaxMsgs
  /\ toSmd' = Tail(toSmd)
  /\ toUs' = Append(toUs, answer)
  /\ known' = IF m = "REG" THEN answer = "REG_SUCC" ELSE known
  /\ UNCHANGED <<pc, sesVars, locTmr, mainAct, appVars, faults>>

\* It stops the process later, or never.
SmdIgnoresTerm ==
  /\ Up
  /\ toSmd # << >> /\ Head(toSmd) = "TERM"
  /\ toSmd' = Tail(toSmd)
  /\ UNCHANGED <<pc, sesVars, locTmr, mainAct, appVars, toUs, known, faults>>

Smd ==
  \/ SmdAnswers("REG", "REG_SUCC") \/ SmdAnswers("REG", "FAIL")
  \/ SmdAnswers("HB", IF known THEN "HB_SUCC" ELSE "HB_REREG")
  \/ SmdAnswers("TERM", "TERM_CFM") \/ SmdIgnoresTerm

Fault ==
  /\ Up
  /\ faults < MaxFaults
  /\ faults' = faults + 1
  /\ \/ toSmd # << >> /\ toSmd' = Tail(toSmd) /\ UNCHANGED <<toUs, known>>
     \/ toUs # << >> /\ toUs' = Tail(toUs) /\ UNCHANGED <<toSmd, known>>
     \/ known /\ toSmd' = << >> /\ toUs' = << >> /\ known' = FALSE
  /\ UNCHANGED <<pc, sesVars, locTmr, mainAct, appVars>>

-----------------------------------------------------------------------------
MainThread ==
  \/ \E d \in 0 .. MaxJump : Tick(d)
  \/ RcvNone \/ RcvRegCfm \/ RcvHbCfm \/ RcvReReg \/ RcvRefusal
  \/ MainOk \/ MainLate
  \/ ThrdsOk \/ \E t \in Thrds : ThrdLate(t)
  \/ RegTmOut \/ HbTmOut \/ HbLost \/ FreezeTmOut \/ TimersDone

Thread(t) ==
  \/ RegThrdBlk(t) \/ InsertBlk(t) \/ KeepaliveRead(t) \/ KeepaliveStore(t)
  \/ DeregThrdBlk(t) \/ EndCancelled(t)

Next == MainThread \/ Keepalive \/ (\E t \in Thrds : Thread(t)) \/ Smd \/ Fault

Spec == Init /\ [][Next]_vars

(* The thread of the library runs, time passes, and the supervisor answers. *)
Fairness ==
  /\ WF_vars(MainThread)
  /\ SF_vars(\E d \in 1 .. MaxJump : Tick(d))
  /\ WF_vars(Smd)

FairSpec == Spec /\ Fairness

-----------------------------------------------------------------------------
Timers == [evnt : {"none", "REG", "HB", "FREEZE"}, left : Int]
TypeOK ==
  /\ pc \in {"tick", "rcv", "main", "thrd", "timer", "exit"}
  /\ status \in {"CLOSE", "OPEN"} /\ waitCnt \in 0 .. 3
  /\ smdTmr \in Timers /\ smdTmr.evnt # "FREEZE"
  /\ locTmr \in Timers /\ locTmr.evnt \in {"none", "FREEZE"}
  /\ mainAct \in BOOLEAN /\ mainAge \in 0 .. AppTm
  /\ blkLL \in Seq(Thrds) /\ kills \subseteq Thrds
  /\ age \in [Thrds -> 0 .. ThrdTm + 1] /\ reg \in [Thrds -> 0 .. ThrdTm + 1]
  /\ thr \in [Thrds -> {"none", "insert", "run", "store", "ended"}]
  /\ memErr \in BOOLEAN /\ mute \in BOOLEAN /\ known \in BOOLEAN
  /\ toSmd \in Seq({"REG", "HB", "TERM"})
  /\ toUs \in Seq({"REG_SUCC", "HB_SUCC", "HB_REREG", "FAIL", "TERM_CFM"})
  /\ faults \in 0 .. MaxFaults

Stopped == pc = "exit" \/ memErr

(* As long as every registration could be sent when its timer ran out, one *)
(* timer runs that will register, send a heartbeat or end the process:     *)
(* no answer, loss or late thread leaves the process unsupervised.         *)
Supervised == ~Stopped /\ ~mute => Active(smdTmr) \/ Active(locTmr)

(* A session is given up only after a message was lost or the supervisor   *)
(* restarted, if the supervisor answers before a second message waits.     *)
ClosedByFault == [][status = "OPEN" /\ status' = "CLOSE" => faults > 0]_vars

(* Once the termination was asked for, the process ends, answered or not.  *)
TermEnds == Active(locTmr) ~> Stopped

(* A process that the supervisor has lost registers again, or it ends.     *)
(* status may stay CLOSE after that: when the confirmation is lost the     *)
(* heartbeats are confirmed, which does not open the session.              *)
Reregisters == ~known ~> (known \/ mute \/ Stopped)
=============================================================================
