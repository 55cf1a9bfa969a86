---------------------------- MODULE SessionProof ----------------------------
(***************************************************************************)
(* Theorems about what a process keeps up with its peers: the session with *)
(* the supervisor (SmuSession) and the connections of the relay (RlyLink). *)
(*                                                                         *)
(* SmuSession, for any threads, timeouts and faults: the process is never  *)
(* left without a timer, and a session is given up for a fault only.  The  *)
(* second says of a count, hbSndWaitCnt, that it does not reach 3 while no *)
(* message is lost.  It follows from where the messages are: a count of n  *)
(* means n heartbeats still wait for the supervisor, or an answer to one   *)
(* waits for the loop (HbsWait); the loop takes all answers before it      *)
(* looks at the timers, and when a timer is due at most one message waits  *)
(* for the supervisor (DueLate).                                           *)
(*                                                                         *)
(* RlyLink, for any connections, sockets, times and faults: the count of   *)
(* open connections is exact but for two ways of closing (CntInv), and no  *)
(* connection is taken for silent that is not (TimeInv), unless a pass     *)
(* finds a heartbeat that came after the tick that it read.  A pass has    *)
(* few outcomes for a connection (Outcome), each of which changes that one *)
(* and its socket only (Shift), and the age of a connection is bounded by  *)
(* the timer at the other end of its socket (Fresh), also while a pass is  *)
(* a tick behind (Behind).                                                 *)
(***************************************************************************)
EXTENDS SmuSession, RlyLink, SequenceTheorems, FiniteSetTheorems, WellFoundedInduction, TLAPS

In(m, s) == \E i \in 1 .. Len(s) : s[i] = m
Twice(m, s) == \E i, j \in 1 .. Len(s) : i < j /\ s[i] = m /\ s[j] = m

SmdMsgs == {"REG", "HB", "TERM"}
OurMsgs == {"REG_SUCC", "HB_SUCC", "HB_REREG", "FAIL", "TERM_CFM"}

SesTyped ==
  /\ smdTmr = NoTmr \/ smdTmr \in [evnt : {"REG", "HB"}, left : Int]
  /\ locTmr = NoTmr \/ locTmr \in [evnt : {"FREEZE"}, left : Int]
  /\ waitCnt \in Nat /\ faults \in Nat /\ known \in BOOLEAN
  /\ toSmd \in Seq(SmdMsgs) /\ toUs \in Seq(OurMsgs)

SupInv == SesTyped /\ Supervised

(* A timer that is due was made so by the last tick, and no time passes    *)
(* while two messages wait for the supervisor.                             *)
DueLate ==
  /\ pc = "tick" => ~Due(smdTmr)
  /\ Due(smdTmr) => Len(toSmd) < 2

(* The supervisor asks for a new registration only after it refused one.   *)
Refused(s) == \A i \in 1 .. Len(s) : s[i] = "HB_REREG" => \E j \in 1 .. i - 1 : s[j] = "FAIL"

(* It does not know the process: it refused it, or no heartbeat was sent   *)
(* and none will be.                                                       *)
UnknownSilent ==
  ~known => \/ In("FAIL", toUs)
            \/ ~In("HB", toSmd) /\ ~In("REG_SUCC", toUs) /\ smdTmr.evnt # "HB"

HbsWait ==
  \/ In("HB_SUCC", toUs) \/ In("FAIL", toUs)
  \/ (waitCnt > 0 => In("HB", toSmd)) /\ (waitCnt > 1 => Twice("HB", toSmd))

HbsFew ==
  /\ waitCnt < 3
  /\ pc \in {"main", "thrd", "timer"} /\ Due(smdTmr) => waitCnt < 2

Calm == DueLate /\ Refused(toUs) /\ UnknownSilent /\ HbsWait /\ HbsFew

CloseInv ==
  /\ SupInv
  /\ faults = 0 /\ pc # "exit" => Calm

-----------------------------------------------------------------------------
LEMMA TmrFacts ==
  ASSUME NEW e \in {"REG", "HB", "FREEZE"}, NEW tm \in Nat \ {0}
  PROVE  /\ Tmr(e, tm) # NoTmr /\ Active(Tmr(e, tm)) /\ ~Due(Tmr(e, tm))
         /\ Tmr(e, tm).evnt = e
         /\ \A E : e \in E => Tmr(e, tm) \in [evnt : E, left : Int]
         /\ ~Active(NoTmr) /\ ~Due(NoTmr)
<1>1. Tmr(e, tm).evnt = e /\ Tmr(e, tm).left = tm
  BY DEF Tmr
<1>2. NoTmr.evnt = "none"
  BY DEF NoTmr
<1>3. Tmr(e, tm) # NoTmr
  BY <1>1, <1>2
<1>4. QED BY <1>1, <1>3 DEF Tmr, Active, Due

LEMMA PassFacts ==
  ASSUME NEW E, "none" \notin E, NEW tmr, tmr = NoTmr \/ tmr \in [evnt : E, left : Int], NEW d \in Nat
  PROVE  /\ Pass(tmr, d) = NoTmr \/ Pass(tmr, d) \in [evnt : E, left : Int]
         /\ Active(Pass(tmr, d)) <=> Active(tmr)
<1>1. CASE tmr = NoTmr
  BY <1>1 DEF Pass, Active
<1>2. CASE tmr # NoTmr
  <2>1. tmr \in [evnt : E, left : Int] /\ Pass(tmr, d) = [tmr EXCEPT !.left = tmr.left - d]
    BY <1>2 DEF Pass, Active
  <2>2. Pass(tmr, d) \in [evnt : E, left : Int]
    BY <2>1
  <2>3. Pass(tmr, d) # NoTmr
    BY <2>2 DEF NoTmr
  <2>4. QED BY <1>2, <2>2, <2>3 DEF Active
<1>3. QED BY <1>1, <1>2

LEMMA SmuConstants ==
  /\ RegTm \in Nat \ {0} /\ HbTm \in Nat \ {0} /\ FreezeTm \in Nat \ {0} /\ AppTm \in Nat \ {0}
  /\ MaxMsgs \in Nat \ {0} /\ MaxJump \in Nat \ {0}
BY SmuAssumption

LEMMA InAppend ==
  ASSUME NEW S, NEW s \in Seq(S), NEW m \in S, NEW x
  PROVE  /\ Append(s, m) \in Seq(S)
         /\ In(x, Append(s, m)) <=> In(x, s) \/ x = m
         /\ Twice(x, s) => Twice(x, Append(s, m))
         /\ In(x, s) /\ x = m => Twice(x, Append(s, m))
         /\ Len(Append(s, m)) = Len(s) + 1
<1>1. /\ Append(s, m) \in Seq(S) /\ Len(Append(s, m)) = Len(s) + 1 /\ Len(s) \in Nat
      /\ \A i \in 1 .. Len(s) : Append(s, m)[i] = s[i]
      /\ Append(s, m)[Len(s) + 1] = m
  OBVIOUS
<1>2. \A i \in 1 .. Len(s) + 1 : i \in 1 .. Len(s) \/ i = Len(s) + 1
  BY <1>1
<1>3. 1 .. Len(s) \subseteq 1 .. Len(s) + 1 /\ Len(s) + 1 \in 1 .. Len(s) + 1
  BY <1>1
<1>4. In(x, Append(s, m)) <=> In(x, s) \/ x = m
  BY <1>1, <1>2, <1>3 DEF In
<1>5. Twice(x, s) => Twice(x, Append(s, m))
  BY <1>1, <1>3 DEF Twice
<1>6. In(x, s) /\ x = m => Twice(x, Append(s, m))
  <2> SUFFICES ASSUME In(x, s), x = m PROVE Twice(x, Append(s, m))
    OBVIOUS
  <2>1. PICK i \in 1 .. Len(s) : s[i] = x
    BY DEF In
  <2>2. i < Len(s) + 1
    BY <1>1
  <2>3. QED BY <1>1, <1>3, <2>1, <2>2 DEF Twice
<1>7. QED BY <1>1, <1>4, <1>5, <1>6

LEMMA InTail ==
  ASSUME NEW S, NEW s \in Seq(S), s # << >>, NEW x
  PROVE  /\ Tail(s) \in Seq(S) /\ Head(s) \in S /\ In(Head(s), s)
         /\ In(x, Tail(s)) => In(x, s)
         /\ Head(s) # x => (In(x, s) => In(x, Tail(s))) /\ (Twice(x, s) => Twice(x, Tail(s)))
         /\ Len(Tail(s)) = Len(s) - 1
<1>1. /\ Tail(s) \in Seq(S) /\ Len(Tail(s)) = Len(s) - 1 /\ Len(s) \in Nat \ {0} /\ Head(s) = s[1]
      /\ \A i \in 1 .. Len(s) - 1 : Tail(s)[i] = s[i + 1]
      /\ Head(s) \in S
  BY EmptySeq
<1>2. /\ \A i \in 1 .. Len(s) - 1 : i + 1 \in 1 .. Len(s)
      /\ \A i \in 1 .. Len(s) : i # 1 => i - 1 \in 1 .. Len(s) - 1 /\ (i - 1) + 1 = i
      /\ 1 \in 1 .. Len(s)
  BY <1>1
<1>3. In(x, Tail(s)) => In(x, s)
  BY <1>1, <1>2 DEF In
<1>4. ASSUME Head(s) # x PROVE In(x, s) => In(x, Tail(s))
  BY <1>1, <1>2, <1>4 DEF In
<1>5. ASSUME Head(s) # x PROVE Twice(x, s) => Twice(x, Tail(s))
  <2> HAVE Twice(x, s)
  <2>1. PICK i, j \in 1 .. Len(s) : i < j /\ s[i] = x /\ s[j] = x
    BY DEF Twice
  <2>2. i # 1 /\ j # 1 /\ i - 1 < j - 1
    BY <1>1, <1>5, <2>1
  <2>3. i - 1 \in 1 .. Len(Tail(s)) /\ j - 1 \in 1 .. Len(Tail(s)) /\ Tail(s)[i - 1] = x /\ Tail(s)[j - 1] = x
    BY <1>1, <1>2, <2>1, <2>2
  <2>4. QED BY <2>2, <2>3 DEF Twice
<1>6. QED BY <1>1, <1>2, <1>3, <1>4, <1>5 DEF In

(* The program's threads and keepalives do not touch the session. *)
LEMMA ProgramApart ==
  ASSUME Keepalive \/ \E t \in Thrds : Thread(t)
  PROVE  UNCHANGED <<pc, sesVars, locTmr, netVars>>
BY DEF Keepalive, Thread, Does, RegThrdBlk, InsertBlk, KeepaliveRead, KeepaliveStore, DeregThrdBlk, EndCancelled

LEMMA SendFacts ==
  ASSUME SesTyped, NEW m \in SmdMsgs, Sent(m) \/ NotSent
  PROVE  /\ toSmd' \in Seq(SmdMsgs) /\ faults' \in Nat
         /\ toSmd' = toSmd \/ toSmd' = Append(toSmd, m)
         /\ faults' = 0 => Sent(m)
         /\ Len(toSmd) < MaxMsgs /\ Sent(m) => toSmd' = Append(toSmd, m)
<1>1. toSmd \in Seq(SmdMsgs) /\ faults \in Nat /\ Append(toSmd, m) \in Seq(SmdMsgs)
  BY InAppend DEF SesTyped
<1>2. CASE Sent(m)
  BY <1>1, <1>2 DEF Sent
<1>3. CASE NotSent
  BY <1>1, <1>3 DEF NotSent, Sent
<1>4. QED BY <1>2, <1>3

-----------------------------------------------------------------------------
(* Supervised *)

LEMMA SupInit == Init => SupInv
<1> SUFFICES ASSUME Init PROVE SupInv
  OBVIOUS
<1>1. /\ smdTmr = Tmr("REG", RegTm) /\ locTmr = NoTmr /\ waitCnt = 0 /\ faults = 0 /\ known = FALSE
      /\ toSmd = <<"REG">> /\ toUs = << >>
  BY DEF Init
<1>2. smdTmr \in [evnt : {"REG", "HB"}, left : Int] /\ Active(smdTmr)
  BY <1>1, SmuConstants, TmrFacts
<1>3. toSmd \in Seq(SmdMsgs) /\ toUs \in Seq(OurMsgs)
  BY <1>1, EmptySeq DEF SmdMsgs
<1>4. SesTyped
  BY <1>1, <1>2, <1>3 DEF SesTyped
<1>5. QED BY <1>2, <1>4 DEF SupInv, Supervised

(* What a step that asks for the termination does to the timers.           *)
LEMMA TermFacts ==
  ASSUME SesTyped, NEW next, Term(next)
  PROVE  /\ smdTmr' = NoTmr \/ smdTmr' = smdTmr
         /\ locTmr' = NoTmr \/ locTmr' \in [evnt : {"FREEZE"}, left : Int]
         /\ faults' \in Nat /\ toSmd' \in Seq(SmdMsgs)
         /\ toSmd' = toSmd \/ toSmd' = Append(toSmd, "TERM")
         /\ faults' = 0 => faults = 0
         /\ pc' = "exit" \/ (pc' = next /\ smdTmr' = NoTmr /\ Active(locTmr'))
<1>1. CASE status = "CLOSE" /\ Exit /\ UNCHANGED <<smdTmr, locTmr, toSmd, faults>>
  BY <1>1 DEF SesTyped, Exit
<1>2. CASE status # "CLOSE" /\ NotSent /\ Exit /\ UNCHANGED <<smdTmr, locTmr>>
  BY <1>2 DEF SesTyped, NotSent, Exit
<1>3. CASE /\ status # "CLOSE" /\ Sent("TERM")
           /\ smdTmr' = NoTmr
           /\ IF Active(locTmr)
                THEN Exit /\ UNCHANGED locTmr
                ELSE locTmr' = Tmr("FREEZE", FreezeTm) /\ pc' = next
  <2>1. /\ toSmd' \in Seq(SmdMsgs) /\ faults' \in Nat /\ faults' = faults
        /\ toSmd' = toSmd \/ toSmd' = Append(toSmd, "TERM")
    BY <1>3, SendFacts DEF SmdMsgs, Sent
  <2>2. Tmr("FREEZE", FreezeTm) \in [evnt : {"FREEZE"}, left : Int] /\ Active(Tmr("FREEZE", FreezeTm))
    BY SmuConstants, TmrFacts
  <2>3. QED BY <1>3, <2>1, <2>2 DEF SesTyped, Exit
<1>4. QED BY <1>1, <1>2, <1>3 DEF Term

(* A step that keeps the timers and sends nothing. *)
LEMMA SupKept ==
  ASSUME SupInv, UNCHANGED <<smdTmr, locTmr, mute>>,
         waitCnt' \in Nat, faults' \in Nat, known' \in BOOLEAN,
         toSmd' \in Seq(SmdMsgs), toUs' \in Seq(OurMsgs),
         pc = "exit" => pc' = "exit", memErr => memErr'
  PROVE  SupInv'
<1>1. SesTyped'
  BY DEF SupInv, SesTyped
<1>2. Supervised'
  <2>1. Stopped \/ mute \/ Active(smdTmr) \/ Active(locTmr)
    BY DEF SupInv, Supervised
  <2>2. Stopped => Stopped'
    BY DEF Stopped
  <2>3. (Active(smdTmr) => Active(smdTmr)') /\ (Active(locTmr) => Active(locTmr)') /\ (mute => mute')
    BY DEF Active
  <2>4. QED BY <2>1, <2>2, <2>3 DEF Supervised
<1>3. QED BY <1>1, <1>2 DEF SupInv

LEMMA SupNext == SupInv /\ [Next]_vars => SupInv'
<1> SUFFICES ASSUME SupInv, [Next]_vars PROVE SupInv'
  OBVIOUS
<1>1. /\ SesTyped /\ waitCnt \in Nat /\ faults \in Nat /\ known \in BOOLEAN
      /\ toSmd \in Seq(SmdMsgs) /\ toUs \in Seq(OurMsgs)
      /\ smdTmr = NoTmr \/ smdTmr \in [evnt : {"REG", "HB"}, left : Int]
      /\ locTmr = NoTmr \/ locTmr \in [evnt : {"FREEZE"}, left : Int]
      /\ pc # "exit" /\ ~memErr /\ ~mute => Active(smdTmr) \/ Active(locTmr)
  BY DEF SupInv, SesTyped, Supervised, Stopped
<1>2. ASSUME NEW d \in 0 .. MaxJump, Tick(d) PROVE SupInv'
  <2>1. /\ At("tick") /\ smdTmr' = Pass(smdTmr, d) /\ locTmr' = Pass(locTmr, d)
        /\ UNCHANGED <<status, waitCnt, mute, memErr, toSmd, toUs, known, faults>>
    BY <1>2 DEF Tick, netVars
  <2>2. d \in Nat
    BY SmuConstants
  <2>3. /\ smdTmr' = NoTmr \/ smdTmr' \in [evnt : {"REG", "HB"}, left : Int]
        /\ Active(smdTmr') <=> Active(smdTmr)
    <3>1. "none" \notin {"REG", "HB"}
      OBVIOUS
    <3>2. /\ Pass(smdTmr, d) = NoTmr \/ Pass(smdTmr, d) \in [evnt : {"REG", "HB"}, left : Int]
          /\ Active(Pass(smdTmr, d)) <=> Active(smdTmr)
      BY <1>1, <2>2, <3>1, PassFacts
    <3>3. QED BY <2>1, <3>2
  <2>4. /\ locTmr' = NoTmr \/ locTmr' \in [evnt : {"FREEZE"}, left : Int]
        /\ Active(locTmr') <=> Active(locTmr)
    <3>1. "none" \notin {"FREEZE"}
      OBVIOUS
    <3>2. /\ Pass(locTmr, d) = NoTmr \/ Pass(locTmr, d) \in [evnt : {"FREEZE"}, left : Int]
          /\ Active(Pass(locTmr, d)) <=> Active(locTmr)
      BY <1>1, <2>2, <3>1, PassFacts
    <3>3. QED BY <2>1, <3>2
  <2>5. SesTyped'
    BY <1>1, <2>1, <2>3, <2>4 DEF SesTyped
  <2>6. Supervised'
    BY <1>1, <2>1, <2>3, <2>4 DEF Supervised, Stopped, At, Active
  <2>7. QED BY <2>5, <2>6 DEF SupInv
<1>3. CASE RcvNone \/ MainOk \/ ThrdsOk \/ FreezeTmOut \/ TimersDone
  BY <1>1, <1>3, SupKept
     DEF RcvNone, MainOk, ThrdsOk, FreezeTmOut, TimersDone, Fires, At, Exit, sesVars, netVars, appVars, blkVars
<1>4. CASE RcvRegCfm \/ RcvHbCfm \/ RcvReReg \/ RcvRefusal
  <2>1. toUs # << >> /\ toUs' = Tail(toUs) /\ At("rcv") /\ memErr' = memErr
    BY <1>4 DEF RcvRegCfm, RcvHbCfm, RcvReReg, RcvRefusal, Rcv, appVars, blkVars
  <2>2. toUs' \in Seq(OurMsgs)
    BY <1>1, <2>1, InTail
  <2>3. CASE RcvRegCfm
    <3>1. /\ smdTmr' = Tmr("HB", HbTm) /\ waitCnt' = 0
          /\ UNCHANGED <<mute, locTmr, toSmd, known, faults>>
      BY <2>3 DEF RcvRegCfm
    <3>2. smdTmr' \in [evnt : {"REG", "HB"}, left : Int] /\ Active(smdTmr')
      BY <3>1, SmuConstants, TmrFacts
    <3>3. SesTyped'
      BY <1>1, <2>2, <3>1, <3>2 DEF SesTyped
    <3>4. QED BY <3>2, <3>3 DEF SupInv, Supervised, Active
  <2>4. CASE RcvHbCfm
    BY <1>1, <2>1, <2>2, <2>4, SupKept DEF RcvHbCfm
  <2>5. CASE RcvReReg
    <3>1. /\ waitCnt' = 0 /\ (Sent("REG") \/ NotSent) /\ pc' = pc
          /\ UNCHANGED <<smdTmr, mute, locTmr, known>>
      BY <2>5 DEF RcvReReg
    <3>2. toSmd' \in Seq(SmdMsgs) /\ faults' \in Nat
      BY <1>1, <3>1, SendFacts DEF SmdMsgs
    <3>3. QED BY <1>1, <2>1, <2>2, <3>1, <3>2, SupKept
  <2>6. CASE RcvRefusal
    <3>1. /\ UNCHANGED <<smdTmr, locTmr, mute, waitCnt, toSmd, known, faults>>
          /\ pc' = "exit"
      BY <2>6 DEF RcvRefusal, Exit, sesVars
    <3>2. QED BY <1>1, <2>1, <2>2, <3>1, SupKept
  <2>7. QED BY <1>4, <2>3, <2>4, <2>5, <2>6
<1>5. CASE MainLate
  <2>1. /\ UNCHANGED <<waitCnt, mute, toUs, known>>
        /\ \/ NotSent /\ Exit /\ UNCHANGED <<smdTmr, locTmr>>
           \/ /\ Sent("TERM") /\ smdTmr' = NoTmr
              /\ (locTmr' = locTmr /\ Active(locTmr)) \/ locTmr' = Tmr("FREEZE", AppTm)
    BY <1>5 DEF MainLate
  <2>2. toSmd' \in Seq(SmdMsgs) /\ faults' \in Nat
    BY <1>1, <2>1, SendFacts DEF SmdMsgs
  <2>3. Tmr("FREEZE", AppTm) \in [evnt : {"FREEZE"}, left : Int] /\ Active(Tmr("FREEZE", AppTm))
    BY SmuConstants, TmrFacts
  <2>4. SesTyped'
    BY <1>1, <2>1, <2>2, <2>3 DEF SesTyped
  <2>5. pc' = "exit" \/ Active(locTmr')
    BY <2>1, <2>3 DEF Exit
  <2>6. QED BY <2>4, <2>5 DEF SupInv, Supervised, Stopped, Active
<1>6. ASSUME NEW t \in Thrds, ThrdLate(t) PROVE SupInv'
  <2>1. /\ UNCHANGED <<waitCnt, mute, toUs, known, memErr>> /\ At("thrd")
        /\ Term("timer") \/ UNCHANGED <<smdTmr, locTmr, toSmd, faults>>
    BY <1>6 DEF ThrdLate
  <2>2. CASE Term("timer")
    <3>1. /\ smdTmr' = NoTmr \/ smdTmr' = smdTmr
          /\ locTmr' = NoTmr \/ locTmr' \in [evnt : {"FREEZE"}, left : Int]
          /\ faults' \in Nat /\ toSmd' \in Seq(SmdMsgs)
          /\ pc' = "exit" \/ Active(locTmr')
      BY <1>1, <2>2, TermFacts
    <3>2. SesTyped'
      BY <1>1, <2>1, <3>1 DEF SesTyped
    <3>3. QED BY <3>1, <3>2 DEF SupInv, Supervised, Stopped, Active
  <2>3. CASE UNCHANGED <<smdTmr, locTmr, toSmd, faults>>
    BY <1>1, <2>1, <2>3, SupKept DEF At
  <2>4. QED BY <2>1, <2>2, <2>3
<1>7. CASE RegTmOut
  <2>1. /\ Fires(smdTmr, locTmr, "REG") /\ UNCHANGED <<pc, waitCnt, locTmr, toUs, known>>
        /\ \/ Sent("REG") /\ smdTmr' = Tmr("REG", RegTm)
           \/ NotSent /\ smdTmr' = NoTmr /\ mute' = TRUE
    BY <1>7 DEF RegTmOut
  <2>2. toSmd' \in Seq(SmdMsgs) /\ faults' \in Nat
    BY <1>1, <2>1, SendFacts DEF SmdMsgs
  <2>3. Tmr("REG", RegTm) \in [evnt : {"REG", "HB"}, left : Int] /\ Active(Tmr("REG", RegTm))
    BY SmuConstants, TmrFacts
  <2>4. SesTyped'
    BY <1>1, <2>1, <2>2, <2>3 DEF SesTyped
  <2>5. QED BY <2>1, <2>3, <2>4 DEF SupInv, Supervised, Active
<1>8. CASE HbTmOut
  <2>1. /\ waitCnt' = waitCnt + 1 /\ smdTmr' = Tmr("HB", HbTm) /\ (Sent("HB") \/ NotSent)
        /\ UNCHANGED <<locTmr, toUs, known>>
    BY <1>8 DEF HbTmOut
  <2>2. toSmd' \in Seq(SmdMsgs) /\ faults' \in Nat
    BY <1>1, <2>1, SendFacts DEF SmdMsgs
  <2>3. smdTmr' \in [evnt : {"REG", "HB"}, left : Int] /\ Active(smdTmr')
    BY <2>1, SmuConstants, TmrFacts
  <2>4. SesTyped'
    BY <1>1, <2>1, <2>2, <2>3 DEF SesTyped
  <2>5. QED BY <2>3, <2>4 DEF SupInv, Supervised, Active
<1>9. CASE HbLost
  <2>1. smdTmr' = Tmr("REG", RegTm) /\ UNCHANGED <<waitCnt, locTmr, toSmd, toUs, known, faults>>
    BY <1>9 DEF HbLost, netVars
  <2>2. smdTmr' \in [evnt : {"REG", "HB"}, left : Int] /\ Active(smdTmr')
    BY <2>1, SmuConstants, TmrFacts
  <2>3. SesTyped'
    BY <1>1, <2>1, <2>2 DEF SesTyped
  <2>4. QED BY <2>2, <2>3 DEF SupInv, Supervised, Active
<1>10. CASE Keepalive \/ \E t \in Thrds : Thread(t)
  <2>1. UNCHANGED <<pc, sesVars, locTmr, netVars>>
    BY <1>10, ProgramApart
  <2>2. ~memErr
    BY <1>10 DEF Keepalive, Thread, Does, Up, RegThrdBlk, InsertBlk, KeepaliveRead, KeepaliveStore,
                 DeregThrdBlk, EndCancelled
  <2>3. QED BY <1>1, <2>1, <2>2, SupKept DEF sesVars, netVars
<1>11. CASE Smd
  <2>1. UNCHANGED <<pc, sesVars, locTmr, memErr>> /\ toSmd # << >> /\ toSmd' = Tail(toSmd) /\ faults' = faults
    BY <1>11 DEF Smd, SmdAnswers, SmdIgnoresTerm, appVars, blkVars
  <2>2. toSmd' \in Seq(SmdMsgs)
    BY <1>1, <2>1, InTail
  <2>3. known' \in BOOLEAN /\ toUs' \in Seq(OurMsgs)
    <3>1. ASSUME NEW m, NEW answer \in OurMsgs, SmdAnswers(m, answer)
          PROVE  known' \in BOOLEAN /\ toUs' \in Seq(OurMsgs)
      BY <1>1, <3>1, InAppend DEF SmdAnswers
    <3>2. SmdIgnoresTerm => known' \in BOOLEAN /\ toUs' \in Seq(OurMsgs)
      BY <1>1 DEF SmdIgnoresTerm
    <3>3. {"REG_SUCC", "FAIL", "TERM_CFM", IF known THEN "HB_SUCC" ELSE "HB_REREG"} \subseteq OurMsgs
      BY DEF OurMsgs
    <3>4. QED BY <1>11, <3>1, <3>2, <3>3 DEF Smd
  <2>4. QED BY <1>1, <2>1, <2>2, <2>3, SupKept DEF sesVars
<1>12. CASE Fault
  <2>1. UNCHANGED <<pc, sesVars, locTmr, memErr>> /\ faults' = faults + 1
    BY <1>12 DEF Fault, appVars, blkVars
  <2>2. toSmd' \in Seq(SmdMsgs) /\ toUs' \in Seq(OurMsgs) /\ known' \in BOOLEAN
    <3>1. toSmd # << >> => Tail(toSmd) \in Seq(SmdMsgs)
      BY <1>1, InTail
    <3>2. toUs # << >> => Tail(toUs) \in Seq(OurMsgs)
      BY <1>1, InTail
    <3>3. QED BY <1>1, <1>12, <3>1, <3>2, EmptySeq DEF Fault
  <2>3. QED BY <1>1, <2>1, <2>2, SupKept DEF sesVars
<1>13. CASE UNCHANGED vars
  BY <1>1, <1>13, SupKept DEF vars, sesVars, netVars, appVars, blkVars
<1>14. QED
  BY <1>2, <1>3, <1>4, <1>5, <1>6, <1>7, <1>8, <1>9, <1>10, <1>11, <1>12, <1>13 DEF Next, MainThread

-----------------------------------------------------------------------------
(* ClosedByFault *)

LEMMA RefusedFacts ==
  ASSUME NEW S, NEW s \in Seq(S), Refused(s)
  PROVE  /\ \A m \in S : m # "HB_REREG" \/ In("FAIL", s) => Refused(Append(s, m))
         /\ s # << >> => /\ Head(s) # "HB_REREG"
                         /\ Head(s) # "FAIL" => Refused(Tail(s))
<1>1. ASSUME NEW m \in S, m # "HB_REREG" \/ In("FAIL", s) PROVE Refused(Append(s, m))
  <2>1. /\ Len(Append(s, m)) = Len(s) + 1 /\ Len(s) \in Nat /\ Append(s, m)[Len(s) + 1] = m
        /\ \A i \in 1 .. Len(s) : Append(s, m)[i] = s[i]
    OBVIOUS
  <2>2. ASSUME NEW i \in 1 .. Len(s) + 1, Append(s, m)[i] = "HB_REREG"
        PROVE  \E j \in 1 .. i - 1 : Append(s, m)[j] = "FAIL"
    <3>1. CASE i \in 1 .. Len(s)
      <4>1. PICK j \in 1 .. i - 1 : s[j] = "FAIL"
        BY <2>1, <2>2, <3>1 DEF Refused
      <4>2. j \in 1 .. Len(s)
        BY <2>1, <3>1
      <4>3. QED BY <2>1, <4>1, <4>2
    <3>2. CASE i = Len(s) + 1
      <4>1. PICK j \in 1 .. Len(s) : s[j] = "FAIL"
        BY <1>1, <2>1, <2>2, <3>2 DEF In
      <4>2. j \in 1 .. i - 1
        BY <2>1, <3>2
      <4>3. QED BY <2>1, <4>1, <4>2
    <3>3. QED BY <2>1, <3>1, <3>2
  <2>3. QED BY <2>1, <2>2 DEF Refused
<1>2. ASSUME s # << >> PROVE Head(s) # "HB_REREG" /\ (Head(s) # "FAIL" => Refused(Tail(s)))
  <2>1. /\ Len(Tail(s)) = Len(s) - 1 /\ Len(s) \in Nat \ {0} /\ Head(s) = s[1]
        /\ \A i \in 1 .. Len(s) - 1 : Tail(s)[i] = s[i + 1]
    BY <1>2, EmptySeq
  <2>2. Head(s) # "HB_REREG"
    BY <2>1 DEF Refused
  <2>3. ASSUME Head(s) # "FAIL", NEW i \in 1 .. Len(s) - 1, Tail(s)[i] = "HB_REREG"
        PROVE  \E j \in 1 .. i - 1 : Tail(s)[j] = "FAIL"
    <3>1. i + 1 \in 1 .. Len(s) /\ s[i + 1] = "HB_REREG"
      BY <2>1, <2>3
    <3>2. PICK j \in 1 .. (i + 1) - 1 : s[j] = "FAIL"
      BY <3>1 DEF Refused
    <3>3. j # 1
      BY <2>1, <2>3, <3>2
    <3>4. j - 1 \in 1 .. i - 1 /\ j - 1 \in 1 .. Len(s) - 1 /\ (j - 1) + 1 = j
      BY <2>1, <3>2, <3>3
    <3>5. QED BY <2>1, <3>2, <3>4
  <2>4. QED BY <2>1, <2>2, <2>3 DEF Refused
<1>3. QED BY <1>1, <1>2

LEMMA CloseInit == Init => CloseInv
<1> SUFFICES ASSUME Init PROVE CloseInv
  OBVIOUS
<1>1. /\ smdTmr = Tmr("REG", RegTm) /\ waitCnt = 0 /\ known = FALSE /\ pc = "tick"
      /\ toSmd = <<"REG">> /\ toUs = << >>
  BY DEF Init
<1>2. ~Due(smdTmr) /\ smdTmr.evnt = "REG"
  BY <1>1, SmuConstants, TmrFacts
<1>3. Len(toSmd) = 1 /\ toSmd[1] = "REG" /\ Len(toUs) = 0
  BY <1>1, EmptySeq
<1>4. ~In("HB", toSmd) /\ ~In("REG_SUCC", toUs) /\ Refused(toUs)
  BY <1>3 DEF In, Refused
<1>5. Calm
  BY <1>1, <1>2, <1>4 DEF Calm, DueLate, UnknownSilent, HbsWait, HbsFew
<1>6. QED BY <1>5, SupInit DEF CloseInv

(* Steps that leave the messages and the timer alone. *)
LEMMA CalmKept ==
  ASSUME Calm, UNCHANGED <<smdTmr, waitCnt, known, toSmd, toUs>>,
         pc' = "tick" => pc = "tick" \/ ~Due(smdTmr),
         pc' \in {"main", "thrd", "timer"} => pc \in {"main", "thrd", "timer"}
  PROVE  Calm'
<1>1. Due(smdTmr)' <=> Due(smdTmr)
  BY DEF Due, Active
<1>2. DueLate' /\ HbsFew'
  BY <1>1 DEF Calm, DueLate, HbsFew
<1>3. Refused(toUs)' /\ UnknownSilent' /\ HbsWait'
  BY DEF Calm, Refused, UnknownSilent, HbsWait, In, Twice
<1>4. QED BY <1>2, <1>3 DEF Calm

(* A message goes out, and the timer stops or starts anew. *)
LEMMA CalmSent ==
  ASSUME SesTyped, Calm, NEW m \in SmdMsgs, m # "HB", toSmd' = toSmd \/ toSmd' = Append(toSmd, m),
         ~Due(smdTmr'), smdTmr'.evnt # "HB",
         UNCHANGED <<waitCnt, known, toUs>>
  PROVE  Calm'
<1>1. /\ In("HB", toSmd') <=> In("HB", toSmd)
      /\ Twice("HB", toSmd) => Twice("HB", toSmd')
  <2>1. toSmd \in Seq(SmdMsgs)
    BY DEF SesTyped
  <2>2. /\ In("HB", Append(toSmd, m)) <=> In("HB", toSmd)
        /\ Twice("HB", toSmd) => Twice("HB", Append(toSmd, m))
    BY <2>1, InAppend
  <2>3. QED BY <2>2
<1>2. ~Due(smdTmr)'
  BY DEF Due, Active
<1>3. DueLate' /\ HbsFew'
  BY <1>2 DEF Calm, DueLate, HbsFew
<1>4. UnknownSilent'
  BY <1>1 DEF Calm, UnknownSilent
<1>5. HbsWait'
  BY <1>1 DEF Calm, HbsWait
<1>6. Refused(toUs)'
  BY DEF Calm, Refused
<1>7. QED BY <1>3, <1>4, <1>5, <1>6 DEF Calm

(* The loop takes an answer of the supervisor from the head of toUs.       *)
LEMMA TakeFacts ==
  ASSUME CloseInv, faults = 0, pc # "exit", NEW m, Rcv(m), m # "FAIL"
  PROVE  /\ m # "HB_REREG" /\ In(m, toUs) /\ Refused(toUs') /\ pc = "rcv"
         /\ toUs' \in Seq(OurMsgs)
         /\ \A x : In(x, toUs') => In(x, toUs)
         /\ \A x : x # m => (In(x, toUs) => In(x, toUs'))
<1>1. toUs \in Seq(OurMsgs) /\ Refused(toUs)
  BY DEF CloseInv, SupInv, SesTyped, Calm
<1>2. toUs # << >> /\ Head(toUs) = m /\ toUs' = Tail(toUs) /\ pc = "rcv"
  BY DEF Rcv, At
<1>3. m # "HB_REREG" /\ Refused(toUs')
  BY <1>1, <1>2, RefusedFacts
<1>4. In(m, toUs) /\ toUs' \in Seq(OurMsgs)
  BY <1>1, <1>2, InTail
<1>5. \A x : In(x, Tail(toUs)) => In(x, toUs)
  BY <1>1, <1>2, InTail
<1>6. \A x : x # Head(toUs) => (In(x, toUs) => In(x, Tail(toUs)))
  BY <1>1, <1>2, InTail
<1>7. QED BY <1>2, <1>3, <1>4, <1>5, <1>6

LEMMA CloseRcv ==
  ASSUME CloseInv, faults = 0, pc # "exit", RcvRegCfm \/ RcvHbCfm \/ RcvReReg, faults' = 0
  PROVE  Calm' /\ ~RcvReReg
<1>1. SesTyped /\ Calm
  BY DEF CloseInv, SupInv
<1>2. CASE RcvRegCfm
  <2>1. /\ Rcv("REG_SUCC") /\ waitCnt' = 0 /\ smdTmr' = Tmr("HB", HbTm) /\ UNCHANGED <<pc, toSmd, known>>
    BY <1>2 DEF RcvRegCfm
  <2>2. /\ In("REG_SUCC", toUs) /\ Refused(toUs') /\ pc = "rcv" /\ (In("FAIL", toUs) => In("FAIL", toUs'))
    BY <2>1, TakeFacts
  <2>3. ~Due(smdTmr)'
    BY <2>1, SmuConstants, TmrFacts DEF Due, Active
  <2>4. DueLate' /\ HbsFew'
    BY <2>1, <2>2, <2>3 DEF DueLate, HbsFew
  <2>5. UnknownSilent'
    BY <1>1, <2>1, <2>2 DEF Calm, UnknownSilent
  <2>6. HbsWait'
    BY <2>1 DEF HbsWait
  <2>7. QED BY <1>2, <2>1, <2>2, <2>4, <2>5, <2>6 DEF Calm, RcvReReg, Rcv
<1>3. CASE RcvHbCfm
  <2>1. /\ Rcv("HB_SUCC") /\ waitCnt' = 0 /\ UNCHANGED <<pc, smdTmr, toSmd, known>>
    BY <1>3 DEF RcvHbCfm
  <2>2. /\ Refused(toUs') /\ pc = "rcv" /\ (In("FAIL", toUs) => In("FAIL", toUs'))
        /\ (In("REG_SUCC", toUs') => In("REG_SUCC", toUs))
    BY <2>1, TakeFacts
  <2>3. Due(smdTmr)' <=> Due(smdTmr)
    BY <2>1 DEF Due, Active
  <2>4. DueLate' /\ HbsFew'
    BY <1>1, <2>1, <2>2, <2>3 DEF Calm, DueLate, HbsFew
  <2>5. UnknownSilent'
    BY <1>1, <2>1, <2>2 DEF Calm, UnknownSilent
  <2>6. HbsWait'
    BY <2>1 DEF HbsWait
  <2>7. QED BY <1>3, <2>1, <2>2, <2>4, <2>5, <2>6 DEF Calm, RcvReReg, Rcv
<1>4. ~RcvReReg
  BY TakeFacts DEF RcvReReg
<1>5. QED BY <1>2, <1>3, <1>4

(* The supervisor takes a message, and answers it or not. *)
LEMMA CloseSmd ==
  ASSUME CloseInv, faults = 0, pc # "exit", Smd PROVE Calm'
<1>1. /\ SesTyped /\ Calm /\ toSmd \in Seq(SmdMsgs) /\ toUs \in Seq(OurMsgs) /\ known \in BOOLEAN
      /\ {"REG_SUCC", "HB_SUCC", "HB_REREG", "FAIL", "TERM_CFM"} = OurMsgs
  BY DEF CloseInv, SupInv, SesTyped, OurMsgs
<1>2. /\ UNCHANGED <<pc, smdTmr, waitCnt>> /\ toSmd # << >> /\ toSmd' = Tail(toSmd)
  BY DEF Smd, SmdAnswers, SmdIgnoresTerm, sesVars
<1>3. /\ In("HB", toSmd') => In("HB", toSmd)
      /\ Head(toSmd) # "HB" => (In("HB", toSmd) => In("HB", toSmd')) /\ (Twice("HB", toSmd) => Twice("HB", toSmd'))
      /\ Len(toSmd') = Len(toSmd) - 1 /\ Len(toSmd) \in Nat
      /\ Head(toSmd) = "HB" => In("HB", toSmd)
  BY <1>1, <1>2, InTail
<1>4. DueLate' /\ HbsFew'
  <2>1. Due(smdTmr)' <=> Due(smdTmr)
    BY <1>2 DEF Due, Active
  <2>2. QED BY <1>1, <1>2, <1>3, <2>1 DEF Calm, DueLate, HbsFew
<1>5. \A a \in OurMsgs : /\ a # "HB_REREG" \/ In("FAIL", toUs) => Refused(Append(toUs, a))
                         /\ \A x : In(x, Append(toUs, a)) <=> In(x, toUs) \/ x = a
  <2> TAKE a \in OurMsgs
  <2>1. a # "HB_REREG" \/ In("FAIL", toUs) => Refused(Append(toUs, a))
    BY <1>1, RefusedFacts DEF Calm
  <2>2. \A x : In(x, Append(toUs, a)) <=> In(x, toUs) \/ x = a
    BY <1>1, InAppend
  <2>3. QED BY <2>1, <2>2
<1>6. CASE SmdAnswers("REG", "REG_SUCC")
  <2>1. toUs' = Append(toUs, "REG_SUCC") /\ known' = TRUE /\ Head(toSmd) = "REG"
    BY <1>6 DEF SmdAnswers
  <2>2. Refused(toUs') /\ \A x : In(x, toUs) => In(x, toUs')
    BY <1>1, <1>5, <2>1
  <2>3. HbsWait'
    BY <1>1, <1>2, <1>3, <2>1, <2>2 DEF Calm, HbsWait
  <2>4. UnknownSilent'
    BY <2>1 DEF UnknownSilent
  <2>5. QED BY <1>4, <2>2, <2>3, <2>4 DEF Calm
<1>7. CASE SmdAnswers("REG", "FAIL")
  <2>1. toUs' = Append(toUs, "FAIL")
    BY <1>7 DEF SmdAnswers
  <2>2. Refused(toUs') /\ In("FAIL", toUs')
    BY <1>1, <1>5, <2>1
  <2>3. QED BY <1>4, <2>2 DEF Calm, HbsWait, UnknownSilent
<1>8. CASE SmdAnswers("HB", IF known THEN "HB_SUCC" ELSE "HB_REREG")
  <2>1. toUs' = Append(toUs, IF known THEN "HB_SUCC" ELSE "HB_REREG") /\ known' = known /\ Head(toSmd) = "HB"
    BY <1>8 DEF SmdAnswers
  <2>2. CASE known
    <3>1. toUs' = Append(toUs, "HB_SUCC")
      BY <2>1, <2>2
    <3>2. Refused(toUs') /\ In("HB_SUCC", toUs')
      BY <1>1, <1>5, <3>1
    <3>3. QED BY <1>4, <2>1, <2>2, <3>2 DEF Calm, HbsWait, UnknownSilent
  <2>3. CASE ~known
    <3>1. toUs' = Append(toUs, "HB_REREG")
      BY <2>1, <2>3
    <3>2. In("FAIL", toUs)
      BY <1>1, <1>3, <2>1, <2>3 DEF Calm, UnknownSilent
    <3>3. Refused(toUs') /\ In("FAIL", toUs')
      BY <1>1, <1>5, <3>1, <3>2
    <3>4. QED BY <1>4, <3>3 DEF Calm, HbsWait, UnknownSilent
  <2>4. QED BY <1>1, <2>2, <2>3
<1>9. CASE SmdAnswers("TERM", "TERM_CFM") \/ SmdIgnoresTerm
  <2>1. /\ toUs' = Append(toUs, "TERM_CFM") \/ toUs' = toUs
        /\ known' = known /\ Head(toSmd) = "TERM"
    BY <1>9 DEF SmdAnswers, SmdIgnoresTerm
  <2>2. /\ Refused(Append(toUs, "TERM_CFM"))
        /\ \A x : In(x, Append(toUs, "TERM_CFM")) <=> In(x, toUs) \/ x = "TERM_CFM"
    BY <1>1, <1>5
  <2>3. /\ Refused(toUs') /\ (In("REG_SUCC", toUs') => In("REG_SUCC", toUs))
        /\ (In("FAIL", toUs) => In("FAIL", toUs')) /\ (In("HB_SUCC", toUs) => In("HB_SUCC", toUs'))
    BY <1>1, <2>1, <2>2 DEF Calm
  <2>4. HbsWait'
    BY <1>1, <1>2, <1>3, <2>1, <2>3 DEF Calm, HbsWait
  <2>5. UnknownSilent'
    BY <1>1, <1>2, <1>3, <2>1, <2>3 DEF Calm, UnknownSilent
  <2>6. QED BY <1>4, <2>3, <2>4, <2>5 DEF Calm
<1>10. QED BY <1>6, <1>7, <1>8, <1>9 DEF Smd

LEMMA CloseTimer ==
  ASSUME MaxMsgs > 1, CloseInv, faults = 0, pc # "exit", faults' = 0, RegTmOut \/ HbTmOut \/ HbLost
  PROVE  Calm' /\ ~HbLost
<1>1. SesTyped /\ Calm /\ toSmd \in Seq(SmdMsgs) /\ MaxMsgs \in Nat /\ waitCnt \in Nat /\ Len(toSmd) \in Nat
  BY SmuConstants DEF CloseInv, SupInv, SesTyped
<1>2. pc = "timer" /\ Due(smdTmr)
  BY DEF RegTmOut, HbTmOut, HbLost, Fires, At
<1>3. waitCnt < 2 /\ Len(toSmd) < 2
  BY <1>1, <1>2 DEF Calm, HbsFew, DueLate
<1>4. ~HbLost
  BY <1>1, <1>3 DEF HbLost
<1>5. CASE RegTmOut
  <2>1. /\ Sent("REG") \/ NotSent
        /\ Sent("REG") => smdTmr' = Tmr("REG", RegTm)
        /\ UNCHANGED <<waitCnt, known, toUs>>
        /\ \/ Sent("REG") /\ smdTmr' = Tmr("REG", RegTm) /\ UNCHANGED mute
           \/ NotSent /\ smdTmr' = NoTmr /\ mute' = TRUE
    BY <1>5 DEF RegTmOut, Sent, NotSent
  <2>2. toSmd' = toSmd \/ toSmd' = Append(toSmd, "REG")
    BY <1>1, <2>1, SendFacts DEF SmdMsgs
  <2>3. ~Due(smdTmr') /\ smdTmr'.evnt # "HB"
    <3>1. ~Due(Tmr("REG", RegTm)) /\ Tmr("REG", RegTm).evnt = "REG" /\ ~Due(NoTmr) /\ NoTmr.evnt = "none"
      BY SmuConstants, TmrFacts DEF NoTmr
    <3>2. QED BY <2>1, <3>1
  <2>4. "REG" \in SmdMsgs /\ "REG" # "HB"
    BY DEF SmdMsgs
  <2>5. Calm'
    BY <1>1, <2>1, <2>2, <2>3, <2>4, CalmSent
  <2>6. QED BY <1>4, <2>5
<1>6. CASE HbTmOut
  <2>1. /\ Sent("HB") \/ NotSent
        /\ waitCnt' = waitCnt + 1 /\ smdTmr' = Tmr("HB", HbTm) /\ smdTmr.evnt = "HB"
        /\ UNCHANGED <<pc, known, toUs>>
    BY <1>6 DEF HbTmOut, Fires
  <2>2. toSmd' = Append(toSmd, "HB")
    <3>1. "HB" \in SmdMsgs /\ Len(toSmd) < MaxMsgs
      BY <1>1, <1>3 DEF SmdMsgs
    <3>2. Sent("HB")
      BY <2>1 DEF NotSent
    <3>3. QED BY <1>1, <3>1, <3>2, SendFacts
  <2>3. In("HB", toSmd') /\ (In("HB", toSmd) => Twice("HB", toSmd'))
    <3>1. "HB" \in SmdMsgs
      BY DEF SmdMsgs
    <3>2. In("HB", Append(toSmd, "HB")) /\ (In("HB", toSmd) => Twice("HB", Append(toSmd, "HB")))
      BY <1>1, <3>1, InAppend
    <3>3. QED BY <2>2, <3>2
  <2>4. ~Due(smdTmr)'
    BY <2>1, SmuConstants, TmrFacts DEF Due, Active
  <2>5. DueLate' /\ HbsFew'
    BY <1>1, <1>3, <2>1, <2>4 DEF DueLate, HbsFew
  <2>6. UnknownSilent'
    BY <1>1, <2>1 DEF Calm, UnknownSilent
  <2>7. HbsWait'
    <3>1. (waitCnt > 0 => In("HB", toSmd)) \/ In("HB_SUCC", toUs) \/ In("FAIL", toUs)
      BY <1>1 DEF Calm, HbsWait
    <3>2. waitCnt' > 1 => waitCnt > 0
      BY <1>1, <2>1
    <3>3. QED BY <2>1, <2>3, <3>1, <3>2 DEF HbsWait
  <2>8. Refused(toUs)'
    BY <1>1, <2>1 DEF Calm, Refused
  <2>9. QED BY <1>4, <2>5, <2>6, <2>7, <2>8 DEF Calm
<1>7. QED BY <1>4, <1>5, <1>6

(* Time passes. *)
LEMMA CloseTick ==
  ASSUME CloseInv, faults = 0, pc # "exit", NEW d \in 0 .. MaxJump, Tick(d)
  PROVE  Calm'
<1>1. /\ SesTyped /\ Calm /\ d \in Nat /\ Len(toSmd) \in Nat
      /\ smdTmr = NoTmr \/ smdTmr \in [evnt : {"REG", "HB"}, left : Int]
  BY SmuConstants DEF CloseInv, SupInv, SesTyped
<1>2. /\ pc = "tick" /\ pc' = "rcv" /\ (d > 0 => Len(toSmd) < 2) /\ smdTmr' = Pass(smdTmr, d)
      /\ UNCHANGED <<waitCnt, toSmd, toUs, known>>
  BY DEF Tick, At, netVars
<1>3. Pass(smdTmr, d).evnt = smdTmr.evnt /\ (d = 0 => Pass(smdTmr, d) = smdTmr)
  <2>1. CASE smdTmr = NoTmr
    BY <2>1 DEF Pass, Active
  <2>2. CASE smdTmr \in [evnt : {"REG", "HB"}, left : Int]
    BY <1>1, <2>2 DEF Pass
  <2>3. QED BY <1>1, <2>1, <2>2
<1>4. Len(toSmd) < 2 \/ ~Due(smdTmr)'
  <2>1. CASE d = 0
    BY <1>1, <1>2, <1>3, <2>1 DEF Calm, DueLate, Due, Active
  <2>2. CASE d > 0
    BY <1>2, <2>2
  <2>3. QED BY <1>1, <2>1, <2>2
<1>5. DueLate' /\ HbsFew'
  BY <1>1, <1>2, <1>4 DEF Calm, DueLate, HbsFew
<1>6. Refused(toUs)' /\ UnknownSilent' /\ HbsWait'
  BY <1>1, <1>2, <1>3 DEF Calm, Refused, UnknownSilent, HbsWait, In, Twice
<1>7. QED BY <1>5, <1>6 DEF Calm

(* The loop has taken all the answers: a heartbeat that is not confirmed   *)
(* still waits for the supervisor.                                         *)
LEMMA CloseRcvNone ==
  ASSUME CloseInv, faults = 0, pc # "exit", RcvNone
  PROVE  Calm'
<1>1. /\ Calm /\ toSmd \in Seq(SmdMsgs) /\ waitCnt \in Nat
  BY DEF CloseInv, SupInv, SesTyped
<1>2. /\ pc = "rcv" /\ pc' = "main" /\ toUs = << >>
      /\ UNCHANGED <<smdTmr, waitCnt, known, toSmd, toUs>>
  BY DEF RcvNone, At, sesVars, netVars
<1>3. waitCnt > 1 => Twice("HB", toSmd)
  <2>1. \A x : ~In(x, toUs)
    BY <1>2 DEF In
  <2>2. QED BY <1>1, <2>1 DEF Calm, HbsWait
<1>4. Twice("HB", toSmd) => ~(Len(toSmd) < 2)
  BY <1>1 DEF Twice
<1>5. Due(smdTmr) => waitCnt < 2
  BY <1>1, <1>3, <1>4 DEF Calm, DueLate
<1>6. Due(smdTmr)' <=> Due(smdTmr)
  BY <1>2 DEF Due, Active
<1>7. DueLate' /\ HbsFew'
  BY <1>1, <1>2, <1>5, <1>6 DEF Calm, DueLate, HbsFew
<1>8. Refused(toUs)' /\ UnknownSilent' /\ HbsWait'
  BY <1>1, <1>2 DEF Calm, Refused, UnknownSilent, HbsWait, In, Twice
<1>9. QED BY <1>7, <1>8 DEF Calm

(* The main thread, or one that registered, is late. *)
LEMMA CloseLate ==
  ASSUME CloseInv, faults = 0, pc # "exit", faults' = 0, pc' # "exit",
         MainLate \/ \E t \in Thrds : ThrdLate(t)
  PROVE  Calm'
<1>1. SesTyped /\ Calm /\ "TERM" \in SmdMsgs /\ "TERM" # "HB"
  BY DEF CloseInv, SupInv, SmdMsgs
<1>2. ~Due(NoTmr) /\ NoTmr.evnt # "HB"
  BY DEF Due, Active, NoTmr
<1>3. CASE MainLate
  <2>1. Sent("TERM") /\ smdTmr' = NoTmr /\ UNCHANGED <<waitCnt, known, toUs>>
    BY <1>3 DEF MainLate, Exit
  <2>2. toSmd' = toSmd \/ toSmd' = Append(toSmd, "TERM")
    BY <1>1, <2>1, SendFacts
  <2>3. QED BY <1>1, <1>2, <2>1, <2>2, CalmSent
<1>4. ASSUME NEW t \in Thrds, ThrdLate(t) PROVE Calm'
  <2>1. /\ UNCHANGED <<waitCnt, known, toUs>> /\ pc = "thrd"
        /\ Term("timer") \/ (pc' = "timer" /\ UNCHANGED <<smdTmr, toSmd>>)
    BY <1>4 DEF ThrdLate, At
  <2>2. CASE Term("timer")
    <3>1. /\ smdTmr' = NoTmr
          /\ toSmd' = toSmd \/ toSmd' = Append(toSmd, "TERM")
      BY <1>1, <2>2, TermFacts
    <3>2. QED BY <1>1, <1>2, <2>1, <3>1, CalmSent
  <2>3. CASE pc' = "timer" /\ UNCHANGED <<smdTmr, toSmd>>
    BY <1>1, <2>1, <2>3, CalmKept
  <2>4. QED BY <2>1, <2>2, <2>3
<1>5. QED BY <1>3, <1>4

(* A step without a fault keeps Calm, and does not close the session. *)
LEMMA CalmNext ==
  ASSUME MaxMsgs > 1, CloseInv, [Next]_vars, faults' = 0, pc' # "exit"
  PROVE  faults = 0 /\ pc # "exit" /\ Calm' /\ (status = "OPEN" => status' # "CLOSE")
<1>1. faults \in Nat /\ toSmd \in Seq(SmdMsgs) /\ SesTyped
  BY DEF CloseInv, SupInv, SesTyped
<1>2. CASE \E d \in 0 .. MaxJump : Tick(d)
  <2>1. faults = 0 /\ pc # "exit" /\ status' = status
    BY <1>2 DEF Tick, At, netVars
  <2>2. QED BY <1>2, <2>1, CloseTick
<1>3. CASE RcvNone
  <2>1. faults = 0 /\ pc # "exit" /\ status' = status
    BY <1>3 DEF RcvNone, At, netVars, sesVars
  <2>2. QED BY <1>3, <2>1, CloseRcvNone
<1>4. CASE RcvRegCfm \/ RcvHbCfm \/ RcvReReg
  <2>1. pc # "exit" /\ faults = 0
    BY <1>1, <1>4 DEF RcvRegCfm, RcvHbCfm, RcvReReg, Rcv, At, Sent, NotSent
  <2>2. Calm' /\ ~RcvReReg
    BY <1>4, <2>1, CloseRcv
  <2>3. status' = "OPEN" \/ status' = status
    BY <1>4, <2>2 DEF RcvRegCfm, RcvHbCfm, sesVars
  <2>4. QED BY <2>1, <2>2, <2>3
<1>5. CASE MainOk \/ ThrdsOk \/ TimersDone
  <2>1. /\ faults = 0 /\ pc # "exit" /\ status' = status
        /\ UNCHANGED <<smdTmr, waitCnt, known, toSmd, toUs>>
        /\ pc' = "tick" => ~Due(smdTmr)
        /\ pc \in {"main", "thrd", "timer"}
    BY <1>5 DEF MainOk, ThrdsOk, TimersDone, At, netVars, sesVars
  <2>2. Calm
    BY <2>1 DEF CloseInv
  <2>3. Calm'
    BY <2>1, <2>2, CalmKept
  <2>4. QED BY <2>1, <2>3
<1>6. CASE MainLate \/ \E t \in Thrds : ThrdLate(t)
  <2>2. ASSUME NEW t \in Thrds, ThrdLate(t) PROVE faults = 0 /\ pc # "exit" /\ status' = status
    BY <2>2 DEF ThrdLate, At, Term, Sent, Exit
  <2>3. faults = 0 /\ pc # "exit" /\ status' = status
    <3>1. CASE MainLate
      BY <3>1 DEF MainLate, At, Sent, Exit
    <3>2. QED BY <1>6, <2>2, <3>1
  <2>4. QED BY <1>6, <2>3, CloseLate
<1>7. CASE RegTmOut \/ HbTmOut \/ HbLost
  <2>1. pc # "exit" /\ faults = 0
    BY <1>1, <1>7 DEF RegTmOut, HbTmOut, HbLost, Fires, At, Sent, NotSent, netVars
  <2>2. Calm' /\ ~HbLost
    BY <1>7, <2>1, CloseTimer
  <2>3. status' = status
    BY <1>7, <2>2 DEF RegTmOut, HbTmOut
  <2>4. QED BY <2>1, <2>2, <2>3
<1>8. ~RcvRefusal /\ ~FreezeTmOut /\ ~Fault
  BY <1>1 DEF RcvRefusal, FreezeTmOut, Fault, Exit
<1>9. CASE Smd
  <2>1. pc # "exit" /\ faults = 0 /\ status' = status
    BY <1>9 DEF Smd, SmdAnswers, SmdIgnoresTerm, Up, sesVars
  <2>2. QED BY <1>9, <2>1, CloseSmd
<1>10. CASE Keepalive \/ (\E t \in Thrds : Thread(t)) \/ UNCHANGED vars
  <2>1. UNCHANGED <<pc, sesVars, locTmr, netVars>>
    BY <1>10, ProgramApart DEF vars
  <2>2. faults = 0 /\ pc # "exit" /\ UNCHANGED <<pc, status, smdTmr, waitCnt, known, toSmd, toUs>>
    BY <2>1 DEF netVars, sesVars
  <2>3. Calm
    BY <2>2 DEF CloseInv
  <2>4. QED BY <2>2, <2>3, CalmKept
<1>11. QED
  BY <1>2, <1>3, <1>4, <1>5, <1>6, <1>7, <1>8, <1>9, <1>10 DEF Next, MainThread

LEMMA CloseNext ==
  ASSUME MaxMsgs > 1, CloseInv, [Next]_vars
  PROVE  CloseInv' /\ (status = "OPEN" /\ status' = "CLOSE" => faults > 0)
<1>1. SupInv' /\ faults \in Nat /\ faults' \in Nat
  BY SupNext DEF CloseInv, SupInv, SesTyped
<1>2. CloseInv'
  BY <1>1, CalmNext DEF CloseInv
<1>3. ASSUME status = "OPEN", status' = "CLOSE", faults = 0 PROVE FALSE
  <2>1. RcvReReg \/ HbLost
    BY <1>3, ProgramApart
       DEF Next, MainThread, Tick, RcvNone, RcvRegCfm, RcvHbCfm, RcvRefusal, MainOk, MainLate, ThrdsOk, ThrdLate,
           RegTmOut, HbTmOut, FreezeTmOut, TimersDone, Smd, SmdAnswers, SmdIgnoresTerm, Fault, sesVars, vars
  <2>2. pc # "exit"
    BY <2>1 DEF RcvReReg, HbLost, Rcv, Fires, At
  <2>3. CASE HbLost
    <3>1. faults' = 0
      BY <1>3, <2>3 DEF HbLost, netVars
    <3>2. QED BY <1>3, <2>2, <2>3, <3>1, CloseTimer
  <2>4. CASE RcvReReg
    <3>1. Rcv("HB_REREG")
      BY <2>4 DEF RcvReReg
    <3>2. QED BY <1>3, <2>2, <3>1, TakeFacts
  <2>5. QED BY <2>1, <2>3, <2>4
<1>4. QED BY <1>1, <1>2, <1>3

-----------------------------------------------------------------------------
(* As long as every registration could be sent when its timer ran out, one *)
(* timer runs that will register, send a heartbeat or end the process: no  *)
(* answer, loss, late thread or keepalive leaves it unsupervised.          *)
THEOREM StaysSupervised == Spec => []Supervised
<1>1. SupInv => Supervised
  BY DEF SupInv
<1>2. QED BY SupInit, SupNext, <1>1, PTL DEF Spec

(* A session is given up only after a message was lost or the supervisor   *)
(* restarted, for every heartbeat and registration timeout.  MaxMsgs > 1:  *)
(* the bound of the model on the messages under way must not itself lose a *)
(* heartbeat, as the queue of the code does not.                           *)
THEOREM SessionClosedByFault == ASSUME MaxMsgs > 1 PROVE Spec => ClosedByFault
<1>1. CloseInv /\ [Next]_vars => CloseInv' /\ [status = "OPEN" /\ status' = "CLOSE" => faults > 0]_vars
  BY CloseNext
<1>2. QED BY CloseInit, <1>1, PTL DEF Spec, ClosedByFault

-----------------------------------------------------------------------------
(* RlyLink: what a pass makes of a connection, and how many are open *)

Conn == [sta : {"open", "init", "connected", "closed"}, sock : Socks \cup {0},
         evnt : {"CONN", "CONN_WAIT", "INIT", "HBEAT", "none"}, due : Int, age : Int]
Msg == [code : {"req", "ack", "hbeat", "data"}, n : Nat]
SockRec == [up : SUBSET Ends, cut : BOOLEAN, at : {"free", "tmp", "conn"},
            in : [Ends -> Seq(Msg)]]
Net == [Socks -> SockRec]

LinkTypes ==
  /\ conns \in [Ends -> Seq(Conn)]
  /\ Len(conns["cli"]) = ConnCnt
  /\ sock \in Net
  /\ pos \in [Ends -> Int] /\ \A e \in Ends : pos[e] >= ReadsTick /\ pos[e] =< Len(conns[e])
  /\ lag \in [Ends -> Nat] /\ \A e \in Ends : pos[e] =< 0 => lag[e] = 0
  /\ openCnt \in [Ends -> Int] /\ stale \in [Ends -> Int]
  /\ sndTq \in [Ends -> Seq(Nat)]
  /\ rcvd \in [Ends -> SUBSET Nat] /\ sure \in [Ends -> SUBSET Nat]
  /\ sent \in [Ends -> Nat] /\ key \in [Ends -> Nat]
  /\ acking \in Socks \cup {0}
  /\ served \in SUBSET Ends
  /\ faultCnt \in 0 .. MaxFault
  /\ late \in BOOLEAN /\ calm \in BOOLEAN /\ ahead \in BOOLEAN /\ tooOld \in BOOLEAN

Gone(e, c) == Reopen(Lost(c), e)

LEMMA TimesAreInt ==
  /\ 0 \in Int /\ ConnTm \in Int /\ InitTm \in Int /\ HBeatSndTm \in Int /\ HBeatTm \in Int
  /\ ConnTm > 0 /\ InitTm > 0 /\ HBeatSndTm > 0 /\ HBeatTm > 0
  BY LinkAssumption

LEMMA TimerIs ==
  ASSUME NEW x \in Conn, NEW v \in {"CONN", "CONN_WAIT", "INIT", "HBEAT", "none"}, NEW t \in Int
  PROVE  /\ Timer(x, v, t) \in Conn
         /\ Timer(x, v, t).sta = x.sta /\ Timer(x, v, t).sock = x.sock
         /\ Timer(x, v, t).evnt = v /\ Timer(x, v, t).due = t
<1>1. Timer(x, v, t) \in Conn  BY DEF Timer, Conn
<1>2. Timer(x, v, t).sta = x.sta /\ Timer(x, v, t).sock = x.sock  BY DEF Timer, Conn
<1>3. Timer(x, v, t).evnt = v /\ Timer(x, v, t).due = t  BY DEF Timer, Conn
<1> QED  BY <1>1, <1>2, <1>3

LEMMA GoneIs ==
  ASSUME NEW c \in Conn, NEW e
  PROVE  /\ Gone(e, c) \in Conn
         /\ Gone(e, c).sta = "closed" /\ Gone(e, c).sock = 0
         /\ e = "srv" => Gone(e, c).evnt = "none" /\ Gone(e, c).due = 0
         /\ e # "srv" => Gone(e, c).evnt = "CONN" /\ Gone(e, c).due = ConnTm
<1>1. Lost(c) \in Conn  BY DEF Lost, Conn
<1>a. Lost(c).sta = "closed" /\ Lost(c).sock = 0  BY DEF Lost, Conn
<1> HIDE DEF Conn
<1>2. ASSUME NEW x \in Conn, NEW v \in {"CONN", "none"}, NEW t \in Int
      PROVE  /\ Timer(x, v, t) \in Conn
             /\ Timer(x, v, t).sta = x.sta /\ Timer(x, v, t).sock = x.sock
             /\ Timer(x, v, t).evnt = v /\ Timer(x, v, t).due = t
  <2>1. Timer(x, v, t) \in Conn  BY DEF Timer, Conn
  <2>2. Timer(x, v, t).sta = x.sta /\ Timer(x, v, t).sock = x.sock  BY DEF Timer, Conn
  <2>3. Timer(x, v, t).evnt = v /\ Timer(x, v, t).due = t  BY DEF Timer, Conn
  <2> QED  BY <2>1, <2>2, <2>3
<1>3. 0 \in Int /\ ConnTm \in Int  BY TimesAreInt
<1>4. CASE e = "srv"
  <2>1. Gone(e, c) = Timer(Lost(c), "none", 0)  BY <1>4 DEF Gone, Reopen
  <2> QED  BY <2>1, <1>1, <1>a, <1>2, <1>3, <1>4
<1>5. CASE e # "srv"
  <2>1. Gone(e, c) = Timer(Lost(c), "CONN", ConnTm)  BY <1>5 DEF Gone, Reopen
  <2>2. /\ Timer(Lost(c), "CONN", ConnTm) \in Conn
        /\ Timer(Lost(c), "CONN", ConnTm).sta = "closed" /\ Timer(Lost(c), "CONN", ConnTm).sock = 0
        /\ Timer(Lost(c), "CONN", ConnTm).evnt = "CONN" /\ Timer(Lost(c), "CONN", ConnTm).due = ConnTm
    <3>1. Timer(Lost(c), "CONN", ConnTm) \in Conn  BY <1>1, <1>2, <1>3
    <3>2. Timer(Lost(c), "CONN", ConnTm).sta = "closed"  BY <1>1, <1>a, <1>2, <1>3
    <3>3. Timer(Lost(c), "CONN", ConnTm).sock = 0  BY <1>1, <1>a, <1>2, <1>3
    <3>4. Timer(Lost(c), "CONN", ConnTm).evnt = "CONN"  BY <1>1, <1>2, <1>3
    <3>5. Timer(Lost(c), "CONN", ConnTm).due = ConnTm  BY <1>1, <1>2, <1>3
    <3> QED  BY <3>1, <3>2, <3>3, <3>4, <3>5
  <2> QED  BY <2>1, <2>2, <1>5
<1> QED  BY <1>4, <1>5

LEMMA GiveUpIs ==
  ASSUME NEW c, NEW n \in Int, NEW k, NEW g, NEW e, NEW m
  PROVE  GiveUp(Work(c, n, k, g), e, m) = Work(Gone(e, c), m, SockClose(k, c.sock, e), g)
  BY DEF GiveUp, Work, Gone

DataOf(msgs) == {m.n : m \in {d \in msgs : d.code = "data"}}
Acked(msgs) == \E m \in msgs : m.code = "ack"

(* What a read takes, and whether it fails. *)
Got(c, k, e) == {SockRead(k, c.sock, e)[j] : j \in Taken(c.sta, SockRead(k, c.sock, e))}
Fails(c, k, e) == \/ SockEnd(k, c.sock, e)
                  \/ Taken(c.sta, SockRead(k, c.sock, e)) # DOMAIN SockRead(k, c.sock, e)
Fed(c, msgs, o) == IF Acked(msgs) THEN RcvAck(Heard(c, msgs, o), o) ELSE Heard(c, msgs, o)
CntFed(n, msgs) == IF Acked(msgs) THEN n + 1 ELSE n
GotFed(g, msgs, full) == IF full THEN g ELSE g \cup DataOf(msgs)

LEMMA ReadIs ==
  ASSUME NEW c, NEW n \in Int, NEW k, NEW g, NEW e, NEW full \in BOOLEAN, NEW o, NEW msgs,
         msgs = Got(c, k, e), NEW f, f = Fed(c, msgs, o)
  PROVE  /\ Fails(c, k, e) =>
              Read(Work(c, n, k, g), e, full, o)
                = Work(Gone(e, f), FailCnt(c.sta, CntFed(n, msgs)),
                       SockClose(SockTake(k, c.sock, e), f.sock, e), GotFed(g, msgs, full))
         /\ ~Fails(c, k, e) =>
              Read(Work(c, n, k, g), e, full, o)
                = Work(f, CntFed(n, msgs), SockTake(k, c.sock, e), GotFed(g, msgs, full))
<1> DEFINE w == Work(c, n, k, g)
           k2 == SockTake(k, c.sock, e)
           r == RcvMsgs(Work(c, n, k2, g), msgs, full, o)
<1>1. w.cn = c /\ w.k = k /\ w.cnt = n /\ w.got = g  BY DEF Work
<1>3. r = Work(f, CntFed(n, msgs), k2, GotFed(g, msgs, full))
  <2> HIDE DEF k2
  <2> QED  BY DEF RcvMsgs, Work, Fed, Acked, DataOf, CntFed, GotFed
<1>4. Read(w, e, full, o) = IF Fails(c, k, e) THEN GiveUp(r, e, FailCnt(c.sta, r.cnt)) ELSE r
  BY <1>1 DEF Read, Got, Fails
<1>5. r.cnt = CntFed(n, msgs)  BY <1>3 DEF Work
<1> HIDE DEF r, k2
<1>6. GiveUp(r, e, FailCnt(c.sta, r.cnt))
        = Work(Gone(e, f), FailCnt(c.sta, r.cnt), SockClose(k2, f.sock, e), GotFed(g, msgs, full))
  BY <1>3 DEF GiveUp, Work, Gone
<1>7. CASE Fails(c, k, e)
  BY <1>4, <1>5, <1>6, <1>7 DEF k2
<1>8. CASE ~Fails(c, k, e)
  BY <1>3, <1>4, <1>8 DEF k2
<1> QED  BY <1>7, <1>8

(* The messages of a read that does not fail. *)
Signs == {"hbeat", "data", "ack"}

LEMMA FedIs ==
  ASSUME NEW c \in Conn, NEW msgs, NEW o \in Int
  PROVE  /\ Fed(c, msgs, o) \in Conn
         /\ Fed(c, msgs, o).sock = c.sock
         /\ Acked(msgs) => /\ Fed(c, msgs, o).sta = "open" /\ Fed(c, msgs, o).evnt = "HBEAT"
                           /\ Fed(c, msgs, o).due = HBeatSndTm + o /\ Fed(c, msgs, o).age = 0
         /\ ~Acked(msgs) => /\ Fed(c, msgs, o).sta = c.sta /\ Fed(c, msgs, o).evnt = c.evnt
                            /\ Fed(c, msgs, o).due = c.due
         /\ msgs # {} /\ (\A m \in msgs : m.code \in Signs) => Fed(c, msgs, o).age \in {0, -o}
         /\ msgs = {} => Fed(c, msgs, o).age = c.age
<1> DEFINE codes == {m.code : m \in msgs}
           a == AgeFrom(c.age, codes, o)
           x == Heard(c, msgs, o)
<1>1. codes \cap {"data", "ack"} # {} => a = 0  BY DEF AgeFrom
<1>2. codes \cap {"data", "ack"} = {} /\ codes = {"hbeat"} => a = -o  BY DEF AgeFrom
<1>3. codes \cap {"data", "ack"} = {} /\ codes # {"hbeat"} => a = c.age  BY DEF AgeFrom
<1>4. a \in Int
  <2>1. c.age \in Int  BY DEF Conn
  <2> HIDE DEF a, codes
  <2> QED  BY <2>1, <1>1, <1>2, <1>3
<1>5. Acked(msgs) => a = 0
  <2>1. Acked(msgs) => "ack" \in codes  BY DEF Acked
  <2> QED  BY <2>1, <1>1
<1>6. msgs # {} /\ (\A m \in msgs : m.code \in Signs) => a \in {0, -o}
  <2>1. ASSUME msgs # {}, \A m \in msgs : m.code \in Signs,
               codes \cap {"data", "ack"} = {}
        PROVE  codes = {"hbeat"}
    BY <2>1 DEF Signs
  <2> HIDE DEF a, codes
  <2> QED  BY <2>1, <1>1, <1>2
<1>7. msgs = {} => a = c.age  BY <1>3
<1> HIDE DEF a, codes
<1>8. x = [c EXCEPT !.age = a]  BY DEF Heard, a, codes
<1>9. x \in Conn /\ x.sock = c.sock /\ x.sta = c.sta /\ x.evnt = c.evnt /\ x.due = c.due /\ x.age = a
  <2>1. x \in Conn  BY <1>4, <1>8 DEF Conn
  <2>2. x.sock = c.sock /\ x.sta = c.sta  BY <1>8 DEF Conn
  <2>3. x.evnt = c.evnt /\ x.due = c.due  BY <1>8 DEF Conn
  <2>4. x.age = a  BY <1>8 DEF Conn
  <2> QED  BY <2>1, <2>2, <2>3, <2>4
<1> HIDE DEF x
<1> DEFINE h == HBeatSndTm + o
<1>10. h \in Int  BY LinkAssumption
<1> HIDE DEF h
<1>11. RcvAck(x, o) = [x EXCEPT !.sta = "open", !.evnt = "HBEAT", !.due = h]  BY DEF RcvAck, h
<1>12. RcvAck(x, o) \in Conn  BY <1>9, <1>10, <1>11 DEF Conn
<1>13. RcvAck(x, o).sta = "open" /\ RcvAck(x, o).sock = x.sock  BY <1>9, <1>11 DEF Conn
<1>14. RcvAck(x, o).evnt = "HBEAT" /\ RcvAck(x, o).due = h  BY <1>9, <1>11 DEF Conn
<1>15. RcvAck(x, o).age = x.age  BY <1>9, <1>11 DEF Conn
<1>16. CASE Acked(msgs)
  <2>1. Fed(c, msgs, o) = RcvAck(x, o)  BY <1>16 DEF Fed, x
  <2> QED  BY <2>1, <1>5, <1>6, <1>7, <1>9, <1>12, <1>13, <1>14, <1>15, <1>16 DEF h
<1>17. CASE ~Acked(msgs)
  <2>1. Fed(c, msgs, o) = x  BY <1>17 DEF Fed, x
  <2> QED  BY <2>1, <1>6, <1>7, <1>9, <1>17
<1> QED  BY <1>16, <1>17

(* A read that does not fail takes all that came. *)
LEMMA TakesAll ==
  ASSUME NEW c \in Conn, NEW k \in Net, NEW e \in Ends, c.sock \in Socks, ~Fails(c, k, e)
  PROVE  /\ Got(c, k, e) = {SockRead(k, c.sock, e)[j] : j \in DOMAIN SockRead(k, c.sock, e)}
         /\ \A m \in Got(c, k, e) : m.code \in Signs
         /\ SockRead(k, c.sock, e) # << >> <=> Got(c, k, e) # {}
<1> DEFINE in == SockRead(k, c.sock, e)
<1>1. in \in Seq(Msg)  BY DEF SockRead, Net, SockRec
<1> HIDE DEF in
<1>2. Taken(c.sta, in) = DOMAIN in  BY DEF Fails, in
<1>3. ASSUME NEW j \in DOMAIN in PROVE in[j].code \in Signs
  <2>1. j \in 1 .. j  BY <1>1
  <2>2. Welcome(c.sta, in, j)  BY <1>2, <2>1 DEF Taken
  <2> QED  BY <2>2 DEF Welcome, Signs
<1>4. in # << >> => 1 \in DOMAIN in  BY <1>1
<1> QED  BY <1>2, <1>3, <1>4 DEF Got, in

-----------------------------------------------------------------------------
(* What a pass makes of a connection *)

ShapeOf(e, c) ==
  /\ (c.sta = "closed") <=> (c.sock = 0)
  /\ c.sta = "open" => c.evnt = "HBEAT"
  /\ c.sta = "init" => c.evnt = "INIT"
  /\ c.sta = "connected" => c.evnt = "CONN_WAIT"
  /\ c.sta = "closed" => c.evnt \in {"CONN", "HBEAT", "none"}
  /\ e = "srv" => c.sta \in {"open", "closed"} /\ c.evnt \in {"HBEAT", "none"}

Came(e, c) == SockRead(sock, c.sock, e)
Msgs(e, c) == Got(c, sock, e)
Live4(c) == c.sta \in {"open", "init"}

(* Nothing happens to a closed connection, but for its timer. *)
Idled(e, c, r) ==
  /\ c.sta = "closed" /\ r.cn.sta = "closed" /\ r.cn.sock = 0 /\ r.cn.evnt = c.evnt
  /\ r.cnt = openCnt[e] /\ r.k = sock /\ r.got = rcvd[e]

(* It is connected over a free socket. *)
Dialled(e, c, r) ==
  /\ c.sta = "closed" /\ c.evnt = "CONN"
  /\ r.cn.sta = "connected" /\ r.cn.evnt = "CONN_WAIT"
  /\ r.cn.sock \in FreeSocks(sock)
  /\ r.cnt = openCnt[e] /\ r.k = [sock EXCEPT ![r.cn.sock] = newSock] /\ r.got = rcvd[e]

(* The init request is sent. *)
Asked(e, c, r) ==
  /\ c.sta = "connected"
  /\ r.cn.sta = "init" /\ r.cn.evnt = "INIT" /\ r.cn.sock = c.sock
  /\ r.cnt = openCnt[e] /\ r.k = SockWrite(sock, c.sock, e, <<Req(key[e])>>) /\ r.got = rcvd[e]

(* It is closed. *)
Dropped(e, c, r, full) ==
  /\ r.cn.sta = "closed" /\ r.cn.sock = 0
  /\ r.cn.evnt = IF e = "srv" THEN "none" ELSE "CONN"
  /\ c.sta = "closed" => c.evnt = "HBEAT"
  /\ r.k = SockClose(IF Live4(c) THEN SockTake(sock, c.sock, e) ELSE sock, c.sock, e)
  /\ r.cnt = (IF c.sta = "init" /\ Acked(Msgs(e, c)) THEN openCnt[e] + 1
              ELSE IF c.evnt = "HBEAT" THEN openCnt[e] - 1 ELSE openCnt[e])
  /\ c.sta = "init" /\ Acked(Msgs(e, c)) => Fails(c, sock, e)
  /\ r.got = IF Live4(c) THEN GotFed(rcvd[e], Msgs(e, c), full) ELSE rcvd[e]

(* It is read, and a heartbeat may be due.  The times of the connection    *)
(* are relative to o ticks after the one that the pass read.               *)
Remains(e, c, r, full, o) ==
  /\ Live4(c) /\ ~Fails(c, sock, e) /\ ~Acked(Msgs(e, c))
  /\ r.cn.sta = c.sta /\ r.cn.evnt = c.evnt /\ r.cn.sock = c.sock
  /\ Came(e, c) = << >> => r.cn.age = c.age
  /\ c.sta = "open" => r.cn.age - o \in 0 .. HBeatTm - 1 /\ (Came(e, c) # << >> => r.cn.age = o)
  /\ r.cnt = openCnt[e] /\ r.got = GotFed(rcvd[e], Msgs(e, c), full)
  /\ \/ /\ c.due + o > 0 /\ r.cn.due = c.due
        /\ r.k = SockTake(sock, c.sock, e)
     \/ /\ c.due + o =< 0 /\ c.sta = "open" /\ r.cn.due = HBeatSndTm - o
        /\ r.k = SockWrite(SockTake(sock, c.sock, e), c.sock, e, <<HBeat>>)

(* The answer to the init request has come. *)
Opened(e, c, r, full, o) ==
  /\ c.sta = "init" /\ ~Fails(c, sock, e) /\ Acked(Msgs(e, c))
  /\ r.cn.sta = "open" /\ r.cn.evnt = "HBEAT" /\ r.cn.sock = c.sock
  /\ r.cn.due = HBeatSndTm + lag[e] - o /\ r.cn.age = o
  /\ r.cnt = openCnt[e] + 1 /\ r.got = GotFed(rcvd[e], Msgs(e, c), full)
  /\ r.k = SockTake(sock, c.sock, e)

Outcome(e, c, r, full, o) ==
  Idled(e, c, r) \/ Dialled(e, c, r) \/ Asked(e, c, r) \/ Dropped(e, c, r, full)
    \/ Remains(e, c, r, full, o) \/ Opened(e, c, r, full, o)

(* A connection that is closed as silent. *)
Deaf(e, c, o) == /\ c.sta = "open" /\ Came(e, c) = << >> /\ c.age - o >= HBeatTm
                 /\ ~sock[c.sock].cut /\ ~SockEnd(sock, c.sock, e)

(* Nothing more happens to a connection that was given up. *)
LEMMA GoneRests ==
  ASSUME NEW c \in Conn, NEW n, NEW k, NEW g, NEW e \in Ends, NEW ok \in BOOLEAN, NEW w,
         w = Work(c, n, k, g), c.sta # "open", c.evnt = "none" \/ c.due > 0
  PROVE  ByAge(w, e) = w /\ ByTimer(w, e, ok) = w /\ ~Silent(w)
<1>1. w.cn = c  BY DEF Work
<1>2. ~Silent(w) /\ ~TmOut(w.cn)
  <2>1. c.due \in Int  BY DEF Conn
  <2> QED  BY <1>1, <2>1 DEF Silent, Ahead, TmOut
<1> QED  BY <1>2 DEF ByAge, ByTimer

LEMMA NoAckWhenOpen ==
  ASSUME NEW c \in Conn, NEW k \in Net, NEW e \in Ends, c.sock \in Socks, c.sta = "open"
  PROVE  ~Acked(Got(c, k, e))
<1> DEFINE in == SockRead(k, c.sock, e)
<1>1. in \in Seq(Msg)  BY DEF SockRead, Net, SockRec
<1> HIDE DEF in
<1>2. ASSUME NEW j \in Taken("open", in) PROVE in[j].code # "ack"
  <2>1. j \in DOMAIN in /\ j \in 1 .. j  BY <1>1 DEF Taken
  <2>2. Welcome("open", in, j)  BY <2>1 DEF Taken
  <2> QED  BY <2>2 DEF Welcome
<1> QED  BY <1>2 DEF Got, Acked, in

(* The first part of a pass, over a connection that is read. *)
LEMMA ReadCases ==
  ASSUME NEW c \in Conn, NEW n \in Int, NEW g, NEW e \in Ends, NEW full \in BOOLEAN, NEW o \in Int,
         sock \in Net, c.sock \in Socks, Live4(c), ShapeOf(e, c), NEW w, NEW msgs, NEW f,
         w = Read(Work(c, n, sock, g), e, full, o), msgs = Got(c, sock, e), f = Fed(c, msgs, o)
  PROVE  /\ Fails(c, sock, e) =>
              w = Work(Gone(e, f), IF c.sta = "open" THEN n - 1 ELSE CntFed(n, msgs),
                       SockClose(SockTake(sock, c.sock, e), c.sock, e), GotFed(g, msgs, full))
         /\ ~Fails(c, sock, e) =>
              w = Work(f, CntFed(n, msgs), SockTake(sock, c.sock, e), GotFed(g, msgs, full))
<1>1. f.sock = c.sock  BY FedIs
<1>2. c.sta = "open" => ~Acked(msgs)  BY NoAckWhenOpen
<1>3. FailCnt(c.sta, CntFed(n, msgs)) = IF c.sta = "open" THEN n - 1 ELSE CntFed(n, msgs)
  BY <1>2 DEF FailCnt, CntFed
<1>4. CASE Fails(c, sock, e)
  BY <1>4, <1>1, <1>3, ReadIs
<1>5. CASE ~Fails(c, sock, e)
  BY <1>5, ReadIs
<1> QED  BY <1>4, <1>5

LEMMA LeastSock ==
  ASSUME NEW S, S \subseteq Nat, S # {}
  PROVE  \E i \in S : \A j \in S : i <= j
<1> DEFINE R == OpToRel(<, Nat)
<1>1. IsWellFoundedOn(R, Nat)
  BY NatLessThanWellFounded
<1>2. \A i, j \in Nat : <<i, j>> \in R <=> i < j
  BY DEF OpToRel
<1> HIDE DEF R
<1>3. PICK i \in S : \A j \in S : ~(<<j, i>> \in R)
  BY <1>1, WFMin
<1>4. ASSUME NEW j \in S PROVE i <= j
  <2>1. i \in Nat /\ j \in Nat /\ ~(<<j, i>> \in R)
    BY <1>3
  <2>2. ~(j < i)
    BY <2>1, <1>2
  <2>3. QED BY <2>1, <2>2
<1>5. QED BY <1>4

(* What a pass makes of a connection is the same at the time of the pass. *)
LEMMA OutcomeBack ==
  ASSUME NEW e \in Ends, NEW c \in Conn, NEW o \in Nat, lag[e] = o, NEW full \in BOOLEAN, NEW w, w.cn \in Conn,
         NEW p, p = ForPass(c, o), NEW r, r = Work(FromPass(w.cn, o), w.cnt, w.k, w.got),
         Outcome(e, p, w, full, 0)
  PROVE  r.cn \in Conn /\ Outcome(e, c, r, full, o)
<1>1. p.sta = c.sta /\ p.sock = c.sock /\ p.evnt = c.evnt  BY DEF ForPass, Conn
<1>2. p.due = c.due + o  BY DEF ForPass, Conn
<1>3. p.age = c.age - o  BY DEF ForPass, Conn
<1> DEFINE x == FromPass(w.cn, o)
           d == w.cn.due - o
           a == w.cn.age + o
<1>4. w.cn.due \in Int /\ w.cn.age \in Int /\ c.due \in Int /\ c.age \in Int  BY DEF Conn
<1>5. d \in Int /\ a \in Int  BY <1>4
<1>6. x = [w.cn EXCEPT !.due = d, !.age = a]  BY DEF FromPass
<1>7. r.cn = x /\ r.cnt = w.cnt /\ r.k = w.k /\ r.got = w.got  BY DEF Work
<1> HIDE DEF d, a, x
<1>8. x \in Conn  BY <1>5, <1>6 DEF Conn
<1>9. x.sta = w.cn.sta /\ x.sock = w.cn.sock /\ x.evnt = w.cn.evnt  BY <1>6 DEF Conn
<1>10. x.due = d  BY <1>6 DEF Conn
<1>11. x.age = a  BY <1>6 DEF Conn
<1>12. /\ Came(e, p) = Came(e, c) /\ Msgs(e, p) = Msgs(e, c) /\ Live4(p) = Live4(c)
       /\ Fails(p, sock, e) = Fails(c, sock, e)
  BY <1>1 DEF Came, Msgs, Got, Fails, Live4
<1>13. CASE Idled(e, p, w)
  <2>1. Idled(e, c, r)  BY <1>1, <1>7, <1>9, <1>13 DEF Idled
  <2> QED  BY <2>1, <1>7, <1>8 DEF Outcome
<1>14. CASE Dialled(e, p, w)
  <2>1. Dialled(e, c, r)  BY <1>1, <1>7, <1>9, <1>14 DEF Dialled
  <2> QED  BY <2>1, <1>7, <1>8 DEF Outcome
<1>15. CASE Asked(e, p, w)
  <2>1. Asked(e, c, r)  BY <1>1, <1>7, <1>9, <1>15 DEF Asked
  <2> QED  BY <2>1, <1>7, <1>8 DEF Outcome
<1>16. CASE Dropped(e, p, w, full)
  <2>1. Dropped(e, c, r, full)  BY <1>1, <1>7, <1>9, <1>12, <1>16 DEF Dropped
  <2> QED  BY <2>1, <1>7, <1>8 DEF Outcome
<1>17. CASE Remains(e, p, w, full, 0)
  <2>1. /\ Live4(c) /\ ~Fails(c, sock, e) /\ ~Acked(Msgs(e, c))
        /\ x.sta = c.sta /\ x.evnt = c.evnt /\ x.sock = c.sock
        /\ w.cnt = openCnt[e] /\ w.got = GotFed(rcvd[e], Msgs(e, c), full)
    BY <1>1, <1>9, <1>12, <1>17 DEF Remains
  <2>2. Came(e, c) = << >> => x.age = c.age
    <3>1. Came(e, c) = << >> => w.cn.age = c.age - o  BY <1>3, <1>12, <1>17 DEF Remains
    <3> QED  BY <1>4, <1>11, <3>1 DEF a
  <2>3. c.sta = "open" => x.age - o \in 0 .. HBeatTm - 1 /\ (Came(e, c) # << >> => x.age = o)
    <3>1. c.sta = "open" => w.cn.age - 0 \in 0 .. HBeatTm - 1 /\ (Came(e, c) # << >> => w.cn.age = 0)
      BY <1>1, <1>12, <1>17 DEF Remains
    <3> QED  BY <1>4, <1>11, <3>1 DEF a
  <2>4. \/ /\ c.due + o > 0 /\ x.due = c.due
           /\ w.k = SockTake(sock, c.sock, e)
        \/ /\ c.due + o =< 0 /\ c.sta = "open" /\ x.due = HBeatSndTm - o
           /\ w.k = SockWrite(SockTake(sock, c.sock, e), c.sock, e, <<HBeat>>)
    <3>1. \/ /\ p.due + 0 > 0 /\ w.cn.due = p.due
             /\ w.k = SockTake(sock, c.sock, e)
          \/ /\ p.due + 0 =< 0 /\ c.sta = "open" /\ w.cn.due = HBeatSndTm - 0
             /\ w.k = SockWrite(SockTake(sock, c.sock, e), c.sock, e, <<HBeat>>)
      BY <1>1, <1>17 DEF Remains
    <3> QED  BY <1>2, <1>4, <1>10, <3>1, LinkAssumption DEF d
  <2>5. Remains(e, c, r, full, o)  BY <1>7, <2>1, <2>2, <2>3, <2>4 DEF Remains
  <2> QED  BY <2>5, <1>7, <1>8 DEF Outcome
<1>18. CASE Opened(e, p, w, full, 0)
  <2>1. /\ c.sta = "init" /\ ~Fails(c, sock, e) /\ Acked(Msgs(e, c))
        /\ x.sta = "open" /\ x.evnt = "HBEAT" /\ x.sock = c.sock
        /\ w.cnt = openCnt[e] + 1 /\ w.got = GotFed(rcvd[e], Msgs(e, c), full)
        /\ w.k = SockTake(sock, c.sock, e)
    BY <1>1, <1>9, <1>12, <1>18 DEF Opened
  <2>2. w.cn.due = HBeatSndTm + lag[e] - 0 /\ w.cn.age = 0  BY <1>18 DEF Opened
  <2>3. x.due = HBeatSndTm + lag[e] - o /\ x.age = o
    BY <1>4, <1>10, <1>11, <2>2, LinkAssumption DEF d, a
  <2>4. Opened(e, c, r, full, o)  BY <1>7, <2>1, <2>3 DEF Opened
  <2> QED  BY <2>4, <1>7, <1>8 DEF Outcome
<1> QED  BY <1>13, <1>14, <1>15, <1>16, <1>17, <1>18 DEF Outcome

(* A pass over a connection has one of these outcomes. *)
LEMMA PassCases ==
  ASSUME LinkTypes, NEW e \in Ends, NEW wr \in BOOLEAN, NEW ok \in BOOLEAN, NEW full \in BOOLEAN,
         ConnPass(e, wr, ok, full), NEW c, c = conns[e][pos[e]], ShapeOf(e, c)
  PROVE  /\ pos[e] \in DOMAIN conns[e] /\ c \in Conn
         /\ \E r : /\ r.cn \in Conn /\ r.cnt \in Int
                   /\ conns' = [conns EXCEPT ![e] = [@ EXCEPT ![pos[e]] = r.cn]]
                   /\ openCnt' = [openCnt EXCEPT ![e] = r.cnt]
                   /\ sock' = r.k
                   /\ rcvd' = [rcvd EXCEPT ![e] = r.got]
                   /\ Outcome(e, c, r, full, lag[e])
         /\ tooOld' => tooOld \/ ahead' \/ Deaf(e, c, lag[e])
<1> DEFINE o == lag[e]
           p == ForPass(c, o)
           w0 == Work(p, openCnt[e], sock, rcvd[e])
           w1 == ByStatus(w0, e, wr, full, o)
           w2 == ByAge(w1, e)
           w3 == ByTimer(w2, e, ok)
           r3 == Work(FromPass(w3.cn, o), w3.cnt, w3.k, w3.got)
<1>1. pos[e] \in DOMAIN conns[e]
  <2>1. pos[e] \in Int /\ pos[e] > 0 /\ pos[e] =< Len(conns[e]) /\ conns[e] \in Seq(Conn)
    BY DEF LinkTypes, ConnPass
  <2> QED  BY <2>1
<1>a. c \in Conn  BY <1>1 DEF LinkTypes
<1>3. w0.cn = p /\ w0.cnt = openCnt[e] /\ w0.k = sock /\ w0.got = rcvd[e]  BY DEF Work
<1>b. p.sta = c.sta /\ p.sock = c.sock /\ p.evnt = c.evnt  BY <1>a DEF ForPass, Conn
<1>4. /\ IF p.sta = "connected" THEN CanWrite(sock, p.sock, e, wr) ELSE wr
      /\ CanTimer(w2, e, ok)
      /\ conns' = [conns EXCEPT ![e] = [@ EXCEPT ![pos[e]] = FromPass(w3.cn, o)]]
      /\ openCnt' = [openCnt EXCEPT ![e] = w3.cnt]
      /\ sock' = w3.k
      /\ rcvd' = [rcvd EXCEPT ![e] = w3.got]
      /\ tooOld' = (tooOld \/ (Silent(w1) /\ ~sock[p.sock].cut))
      /\ ahead' = (ahead \/ Ahead(w1))
  BY <1>3 DEF ConnPass
<1>5. openCnt[e] \in Int /\ sock \in Net /\ tooOld \in BOOLEAN /\ ahead \in BOOLEAN  BY DEF LinkTypes
<1>6. o \in Nat /\ o \in Int  BY DEF LinkTypes
<1>2. p \in Conn
  <2> DEFINE d == c.due + o
             a == c.age - o
  <2>1. d \in Int /\ a \in Int  BY <1>a, <1>6 DEF Conn
  <2>2. p = [c EXCEPT !.due = d, !.age = a]  BY DEF ForPass
  <2> HIDE DEF d, a, p
  <2> QED  BY <1>a, <2>1, <2>2 DEF Conn
<1>c. p.age = c.age - o  BY <1>a DEF ForPass, Conn
<1>7. Deaf(e, p, 0) => Deaf(e, c, o)
  <2>1. p.age \in Int  BY <1>2 DEF Conn
  <2> HIDE DEF p, o
  <2> QED  BY <1>b, <1>c, <2>1 DEF Deaf, Came
<1>8. ShapeOf(e, p)  BY <1>b DEF ShapeOf
<1>9. r3.cn = FromPass(w3.cn, o) /\ r3.cnt = w3.cnt /\ r3.k = w3.k /\ r3.got = w3.got  BY DEF Work
<1> SUFFICES /\ w3.cn \in Conn /\ w3.cnt \in Int /\ Outcome(e, p, w3, full, 0)
             /\ Silent(w1) /\ ~sock[p.sock].cut => Ahead(w1) \/ Deaf(e, p, 0)
  <2> HIDE DEF p, o, w0, w1, w2, w3
  <2>1. r3.cn \in Conn /\ Outcome(e, c, r3, full, o)
    <3>1. p = ForPass(c, o)  BY DEF p
    <3>2. lag[e] = o  BY DEF o
    <3> QED  BY <1>a, <1>6, <3>1, <3>2, OutcomeBack
  <2> HIDE DEF r3
  <2>2. Outcome(e, c, r3, full, lag[e])  BY <2>1 DEF o
  <2>3. tooOld' => tooOld \/ ahead' \/ Deaf(e, c, lag[e])
    <3>1. Deaf(e, p, 0) => Deaf(e, c, lag[e])  BY <1>7 DEF o
    <3> QED  BY <1>4, <1>5, <3>1
  <2> QED  BY <1>1, <1>a, <1>4, <1>9, <2>1, <2>2, <2>3
<1> HIDE DEF o, p, w0, w1, w2, w3, r3
<1>10. CASE p.sta = "closed"
  <2>1. w1 = w0  BY <1>3, <1>10 DEF w1, ByStatus
  <2>2. ~Silent(w1)  BY <1>3, <1>10, <2>1 DEF Silent, Ahead
  <2>3. w2 = w0  BY <2>1, <2>2 DEF w2, ByAge
  <2>4. p.sock = 0 /\ p.evnt \in {"CONN", "HBEAT", "none"}  BY <1>8, <1>10 DEF ShapeOf
  <2>5. CASE ~TmOut(p)
    <3>1. w3 = w0  BY <1>3, <2>3, <2>5 DEF w3, ByTimer
    <3> QED  BY <1>2, <1>3, <1>5, <1>10, <2>2, <2>4, <3>1 DEF Outcome, Idled
  <2>6. CASE TmOut(p) /\ p.evnt = "CONN" /\ ok
    <3> DEFINE t == CHOOSE t \in FreeSocks(sock) : \A u \in FreeSocks(sock) : t =< u
               d == [p EXCEPT !.sta = "connected", !.sock = t, !.evnt = "CONN_WAIT", !.due = 0]
    <3>1. FreeSocks(sock) # {}  BY <1>3, <1>4, <2>3, <2>6 DEF CanTimer
    <3>2. t \in FreeSocks(sock)
      <4>1. FreeSocks(sock) \subseteq Nat  BY LinkAssumption DEF FreeSocks
      <4>2. \E x \in FreeSocks(sock) : \A u \in FreeSocks(sock) : x =< u
        BY <3>1, <4>1, LeastSock
      <4> QED  BY <4>2
    <3>3. w3 = Work(d, openCnt[e], [sock EXCEPT ![t] = newSock], rcvd[e])
      <4>1. w3 = OpenConn(w0, ok)  BY <1>3, <2>3, <2>6 DEF w3, ByTimer
      <4> QED  BY <1>3, <2>6, <4>1 DEF OpenConn
    <3>4. t \in Socks  BY <3>2 DEF FreeSocks
    <3> HIDE DEF t
    <3>5. d \in Conn /\ d.sta = "connected" /\ d.evnt = "CONN_WAIT"  BY <1>2, <3>4, TimesAreInt DEF Conn
    <3>6. d.sock = t  BY <1>2, <3>4 DEF Conn
    <3> HIDE DEF d
    <3>7. w3.cn = d /\ w3.cnt = openCnt[e] /\ w3.k = [sock EXCEPT ![t] = newSock] /\ w3.got = rcvd[e]
      BY <3>3 DEF Work
    <3>8. Dialled(e, p, w3)  BY <1>10, <2>6, <3>2, <3>5, <3>6, <3>7 DEF Dialled
    <3> QED  BY <1>5, <2>2, <3>5, <3>7, <3>8 DEF Outcome
  <2>7. CASE TmOut(p) /\ p.evnt = "CONN" /\ ~ok
    <3>1. w3 = OpenConn(w0, ok)  BY <1>3, <2>3, <2>7 DEF w3, ByTimer
    <3>2. w3 = Work(Timer(p, "CONN", ConnTm), openCnt[e], sock, rcvd[e])
      BY <1>3, <2>7, <3>1 DEF OpenConn
    <3>3. Timer(p, "CONN", ConnTm) \in Conn  BY <1>2, TimerIs, TimesAreInt
    <3>4. /\ Timer(p, "CONN", ConnTm).sta = p.sta /\ Timer(p, "CONN", ConnTm).sock = p.sock
          /\ Timer(p, "CONN", ConnTm).evnt = "CONN"
      BY <1>2 DEF Timer, Conn
    <3>5. w3.cn = Timer(p, "CONN", ConnTm) /\ w3.cnt = openCnt[e] /\ w3.k = sock /\ w3.got = rcvd[e]
      BY <3>2 DEF Work
    <3>6. Idled(e, p, w3)  BY <1>10, <2>4, <2>7, <3>4, <3>5 DEF Idled
    <3> QED  BY <1>5, <2>2, <3>3, <3>5, <3>6 DEF Outcome
  <2>8. CASE TmOut(p) /\ p.evnt = "HBEAT" /\ ok
    <3>1. w3 = HBeatTmOut(w0, e, ok)  BY <1>3, <2>3, <2>8 DEF w3, ByTimer
    <3>2. w3 = Work(Timer(p, "HBEAT", HBeatSndTm), openCnt[e], SockWrite(sock, 0, e, <<HBeat>>), rcvd[e])
      BY <1>3, <2>4, <2>8, <3>1 DEF HBeatTmOut
    <3>3. Timer(p, "HBEAT", HBeatSndTm) \in Conn  BY <1>2, TimerIs, TimesAreInt
    <3>4. /\ Timer(p, "HBEAT", HBeatSndTm).sta = p.sta /\ Timer(p, "HBEAT", HBeatSndTm).sock = p.sock
          /\ Timer(p, "HBEAT", HBeatSndTm).evnt = "HBEAT"
      BY <1>2 DEF Timer, Conn
    <3>5. SockWrite(sock, 0, e, <<HBeat>>) = sock  BY DEF SockWrite
    <3>6. w3.cn = Timer(p, "HBEAT", HBeatSndTm) /\ w3.cnt = openCnt[e] /\ w3.k = sock /\ w3.got = rcvd[e]
      BY <3>2, <3>5 DEF Work
    <3>7. Idled(e, p, w3)  BY <1>10, <2>4, <2>8, <3>4, <3>6 DEF Idled
    <3> QED  BY <1>5, <2>2, <3>3, <3>6, <3>7 DEF Outcome
  <2>9. CASE TmOut(p) /\ p.evnt = "HBEAT" /\ ~ok
    <3>1. w3 = HBeatTmOut(w0, e, ok)  BY <1>3, <2>3, <2>9 DEF w3, ByTimer
    <3>2. w3 = GiveUp(w0, e, openCnt[e] - 1)  BY <1>3, <2>9, <3>1 DEF HBeatTmOut
    <3>3. w3 = Work(Gone(e, p), openCnt[e] - 1, SockClose(sock, p.sock, e), rcvd[e])
      BY <1>5, <3>2, GiveUpIs DEF w0
    <3>4. /\ w3.cn = Gone(e, p) /\ w3.cnt = openCnt[e] - 1 /\ w3.k = SockClose(sock, p.sock, e)
          /\ w3.got = rcvd[e]
      BY <3>3 DEF Work
    <3>5. Dropped(e, p, w3, full)  BY <1>2, <1>10, <2>9, <3>4, GoneIs DEF Dropped, Live4
    <3> QED  BY <1>2, <1>5, <2>2, <3>4, <3>5, GoneIs DEF Outcome
  <2> QED  BY <2>4, <2>5, <2>6, <2>7, <2>8, <2>9 DEF TmOut
<1>11. CASE p.sta = "connected"
  <2>1. w1 = OpenChk(w0, e, wr)  BY <1>3, <1>11 DEF w1, ByStatus
  <2>2. p.evnt = "CONN_WAIT" /\ p.sock # 0  BY <1>8, <1>11 DEF ShapeOf
  <2>3. CASE wr
    <3> DEFINE d == [p EXCEPT !.sta = "init", !.evnt = "INIT", !.due = InitTm]
               k == SockWrite(sock, p.sock, e, <<Req(key[e])>>)
    <3>1. w1 = Work(d, openCnt[e], k, rcvd[e])  BY <1>3, <2>1, <2>3 DEF OpenChk
    <3>2. d \in Conn /\ d.sta = "init" /\ d.evnt = "INIT"  BY <1>2, TimesAreInt DEF Conn
    <3>3. d.sock = p.sock /\ d.due = InitTm /\ d.due > 0  BY <1>2, TimesAreInt DEF Conn
    <3> HIDE DEF d, k
    <3>4. w2 = w1 /\ ~Silent(w1) /\ w3 = w1
      <4>1. d.sta # "open" /\ d.due > 0  BY <3>2, <3>3, LinkAssumption
      <4>2. ByAge(w1, e) = w1 /\ ByTimer(w1, e, ok) = w1 /\ ~Silent(w1)
        BY <3>1, <3>2, <4>1, GoneRests
      <4> QED  BY <4>2 DEF w2, w3
    <3>5. w3.cn = d /\ w3.cnt = openCnt[e] /\ w3.k = k /\ w3.got = rcvd[e]  BY <3>1, <3>4 DEF Work
    <3>6. Asked(e, p, w3)  BY <1>11, <3>2, <3>3, <3>5 DEF Asked, k
    <3> QED  BY <1>5, <3>2, <3>4, <3>5, <3>6 DEF Outcome
  <2>4. CASE ~wr
    <3>1. w1 = GiveUp(w0, e, openCnt[e])  BY <1>3, <2>1, <2>4 DEF OpenChk
    <3>2. w1 = Work(Gone(e, p), openCnt[e], SockClose(sock, p.sock, e), rcvd[e])
      BY <1>5, <3>1, GiveUpIs DEF w0
    <3>3. Gone(e, p) \in Conn /\ Gone(e, p).sta = "closed" /\ Gone(e, p).sock = 0
      BY <1>2, GoneIs
    <3>4. Gone(e, p).evnt = IF e = "srv" THEN "none" ELSE "CONN"  BY <1>2, GoneIs
    <3>5. Gone(e, p).evnt = "none" \/ Gone(e, p).due > 0  BY <1>2, GoneIs, LinkAssumption
    <3>6. w2 = w1 /\ ~Silent(w1) /\ w3 = w1
      <4>1. ByAge(w1, e) = w1 /\ ByTimer(w1, e, ok) = w1 /\ ~Silent(w1)
        <5>1. Gone(e, p) \in Conn /\ Gone(e, p).sta # "open"  BY <3>3
        <5> DEFINE d == Gone(e, p)
                   k == SockClose(sock, p.sock, e)
        <5>2. w1 = Work(d, openCnt[e], k, rcvd[e]) /\ d \in Conn /\ d.sta # "open"  BY <3>2, <5>1
        <5>3. d.evnt = "none" \/ d.due > 0  BY <3>5
        <5> HIDE DEF d, k
        <5> QED  BY <5>2, <5>3, GoneRests
      <4> QED  BY <4>1 DEF w2, w3
    <3>7. /\ w3.cn = Gone(e, p) /\ w3.cnt = openCnt[e] /\ w3.k = SockClose(sock, p.sock, e)
          /\ w3.got = rcvd[e]
      BY <3>2, <3>6 DEF Work
    <3>8. Dropped(e, p, w3, full)  BY <1>11, <2>2, <3>3, <3>4, <3>7 DEF Dropped, Live4
    <3> QED  BY <1>5, <3>3, <3>6, <3>7, <3>8 DEF Outcome
  <2> QED  BY <2>3, <2>4
<1>12. CASE Live4(p)
  <2> DEFINE msgs == Got(p, sock, e)
             f == Fed(p, msgs, o)
             k == SockTake(sock, p.sock, e)
             g == GotFed(rcvd[e], msgs, full)
             n == CntFed(openCnt[e], msgs)
  <2>1. w1 = Read(w0, e, full, o)  BY <1>3, <1>12 DEF w1, ByStatus, Live4
  <2>2. p.sock \in Socks /\ p.sta # "closed" /\ p.sta # "connected"
        /\ (p.sta = "open" => p.evnt = "HBEAT") /\ (p.sta = "init" => p.evnt = "INIT" /\ e = "cli")
    BY <1>2, <1>8, <1>12 DEF ShapeOf, Live4, Conn, Ends
  <2>3. /\ f \in Conn /\ f.sock = p.sock
        /\ Acked(msgs) => f.sta = "open" /\ f.evnt = "HBEAT" /\ f.due = HBeatSndTm + o /\ f.age = 0
        /\ ~Acked(msgs) => f.sta = p.sta /\ f.evnt = p.evnt /\ f.due = p.due
    BY <1>2, <1>6, FedIs
  <2>4. p.sta = "open" => ~Acked(msgs)  BY <1>2, <1>5, <2>2, NoAckWhenOpen
  <2>5. n \in Int /\ (~Acked(msgs) => n = openCnt[e]) /\ (Acked(msgs) => n = openCnt[e] + 1)
    BY <1>5 DEF CntFed
  <2>6. msgs = Msgs(e, p)  BY DEF Msgs
  <2>7. /\ Fails(p, sock, e) =>
             w1 = Work(Gone(e, f), IF p.sta = "open" THEN openCnt[e] - 1 ELSE n, SockClose(k, p.sock, e), g)
        /\ ~Fails(p, sock, e) => w1 = Work(f, n, k, g)
    <3>1. w1 = Read(Work(p, openCnt[e], sock, rcvd[e]), e, full, o)  BY <2>1 DEF w0
    <3>2. p.sock \in Socks  BY <2>2
    <3> HIDE DEF f, k, g, n, msgs
    <3>3. msgs = Got(p, sock, e) /\ f = Fed(p, msgs, o) /\ k = SockTake(sock, p.sock, e)
          /\ g = GotFed(rcvd[e], msgs, full) /\ n = CntFed(openCnt[e], msgs)
      BY DEF f, k, g, n, msgs
    <3>4. /\ Fails(p, sock, e) =>
               w1 = Work(Gone(e, f), IF p.sta = "open" THEN openCnt[e] - 1 ELSE CntFed(openCnt[e], msgs),
                         SockClose(SockTake(sock, p.sock, e), p.sock, e), GotFed(rcvd[e], msgs, full))
          /\ ~Fails(p, sock, e) =>
               w1 = Work(f, CntFed(openCnt[e], msgs), SockTake(sock, p.sock, e), GotFed(rcvd[e], msgs, full))
      BY <1>2, <1>5, <1>6, <1>8, <1>12, <3>1, <3>2, <3>3, ReadCases
    <3> QED  BY <3>3, <3>4
  <2> HIDE DEF f, k, g, n, msgs
  <2>8. CASE Fails(p, sock, e)
    <3> DEFINE m == IF p.sta = "open" THEN openCnt[e] - 1 ELSE n
    <3>1. w1 = Work(Gone(e, f), m, SockClose(k, p.sock, e), g)  BY <2>7, <2>8
    <3>2. m \in Int  BY <1>5, <2>5
    <3>3. m = (IF p.sta = "init" /\ Acked(msgs) THEN openCnt[e] + 1
               ELSE IF p.evnt = "HBEAT" THEN openCnt[e] - 1 ELSE openCnt[e])
      BY <1>12, <2>2, <2>5 DEF Live4
    <3> HIDE DEF m
    <3>4. Gone(e, f) \in Conn /\ Gone(e, f).sta = "closed" /\ Gone(e, f).sock = 0
      BY <2>3, GoneIs
    <3>5. Gone(e, f).evnt = IF e = "srv" THEN "none" ELSE "CONN"  BY <2>3, GoneIs
    <3>6. Gone(e, f).evnt = "none" \/ Gone(e, f).due > 0  BY <2>3, GoneIs, LinkAssumption
    <3>7. w2 = w1 /\ ~Silent(w1) /\ w3 = w1
      <4>1. ByAge(w1, e) = w1 /\ ByTimer(w1, e, ok) = w1 /\ ~Silent(w1)
        BY <3>1, <3>4, <3>6, GoneRests
      <4> QED  BY <4>1 DEF w2, w3
    <3>8. w3.cn = Gone(e, f) /\ w3.cnt = m /\ w3.k = SockClose(k, p.sock, e) /\ w3.got = g
      BY <3>1, <3>7 DEF Work
    <3>10. Dropped(e, p, w3, full)
      BY <1>12, <2>2, <2>6, <2>8, <3>3, <3>4, <3>5, <3>8 DEF Dropped, Live4, k, g
    <3> QED  BY <3>2, <3>4, <3>7, <3>8, <3>10 DEF Outcome
  <2>9. CASE ~Fails(p, sock, e)
    <3>1. w1 = Work(f, n, k, g)  BY <2>7, <2>9
    <3>2. w1.cn = f /\ w1.cnt = n /\ w1.k = k /\ w1.got = g  BY <3>1 DEF Work
    <3>3. (Came(e, p) = << >> => f.age = p.age) /\ (Came(e, p) # << >> => f.age \in {0, -o})
      <4>1. /\ Came(e, p) # << >> <=> msgs # {}
            /\ \A m \in msgs : m.code \in Signs
        BY <1>2, <1>5, <2>2, <2>9, TakesAll DEF msgs, Came
      <4> QED  BY <1>2, <1>6, <4>1, FedIs DEF f
    <3>4. k[p.sock].up = sock[p.sock].up /\ k[p.sock].cut = sock[p.sock].cut
      BY <1>5, <2>2 DEF k, SockTake, Net, SockRec
    <3>5. CASE Silent(w1)
      <4>1. f.sta = "open" /\ (f.age < 0 \/ f.age >= HBeatTm)
        BY <3>2, <3>5 DEF Silent, Ahead
      <4>2. ~Acked(msgs)  BY <2>3, <4>1, LinkAssumption
      <4>3. p.sta = "open" /\ n = openCnt[e]  BY <2>3, <2>5, <4>1, <4>2
      <4>4. ~Ahead(w1) => Came(e, p) = << >> /\ p.age >= HBeatTm
        <5>1. ~Ahead(w1) => f.age >= HBeatTm  BY <3>2, <4>1 DEF Ahead
        <5> QED  BY <1>6, <3>3, <5>1, LinkAssumption
      <4>5. w2 = GiveUp(w1, e, openCnt[e] - 1)  BY <3>2, <3>5, <4>3 DEF w2, ByAge
      <4>6. w2 = Work(Gone(e, f), openCnt[e] - 1, SockClose(k, p.sock, e), g)
        <5>1. f.sock = p.sock  BY <2>3
        <5> QED  BY <2>5, <3>1, <4>5, <5>1, GiveUpIs
      <4>7. Gone(e, f) \in Conn /\ Gone(e, f).sta = "closed" /\ Gone(e, f).sock = 0
        BY <2>3, GoneIs
      <4>8. Gone(e, f).evnt = IF e = "srv" THEN "none" ELSE "CONN"  BY <2>3, GoneIs
      <4>9. Gone(e, f).evnt = "none" \/ Gone(e, f).due > 0  BY <2>3, GoneIs, LinkAssumption
      <4>10. w3 = w2
        <5>1. w2.cn = Gone(e, f)  BY <4>6 DEF Work
        <5>2. Gone(e, f).due \in Int  BY <4>7 DEF Conn
        <5>3. ~TmOut(w2.cn)  BY <4>9, <5>1, <5>2 DEF TmOut
        <5> QED  BY <5>3 DEF w3, ByTimer
      <4>11. w3.cn = Gone(e, f) /\ w3.cnt = openCnt[e] - 1 /\ w3.k = SockClose(k, p.sock, e) /\ w3.got = g
        BY <4>6, <4>10 DEF Work
      <4>12. ~SockEnd(sock, p.sock, e)  BY <2>9 DEF Fails
      <4>14. Dropped(e, p, w3, full)
        BY <1>12, <2>2, <2>6, <4>2, <4>3, <4>7, <4>8, <4>11 DEF Dropped, k, g
      <4>15. ~sock[p.sock].cut => Ahead(w1) \/ Deaf(e, p, 0)
        <5>1. p.age \in Int  BY <1>2 DEF Conn
        <5> QED  BY <4>3, <4>4, <4>12, <5>1 DEF Deaf
      <4> QED  BY <1>5, <4>7, <4>11, <4>14, <4>15 DEF Outcome
    <3>6. CASE ~Silent(w1)
      <4>1. w2 = w1  BY <3>6 DEF w2, ByAge
      <4>2. f.sta = "open" => f.age \in 0 .. HBeatTm - 1 /\ (Came(e, p) # << >> => f.age = 0)
        <5>1. f.age \in Int /\ HBeatTm \in Nat  BY <2>3, LinkAssumption DEF Conn
        <5> QED  BY <1>6, <3>2, <3>3, <3>6, <5>1 DEF Silent, Ahead
      <4>3. CASE Acked(msgs)
        <5>1. p.sta = "init"  BY <1>12, <2>4, <4>3 DEF Live4
        <5>2. ~TmOut(f)  BY <1>6, <2>3, <4>3, LinkAssumption DEF TmOut
        <5>3. w3 = w1  BY <3>2, <4>1, <5>2 DEF w3, ByTimer
        <5>4. Opened(e, p, w3, full, 0)
          BY <1>6, <2>3, <2>5, <2>6, <2>9, <3>2, <4>3, <5>1, <5>3, LinkAssumption DEF Opened, k, g, o
        <5> QED  BY <2>3, <2>5, <3>2, <3>6, <5>3, <5>4 DEF Outcome
      <4>4. CASE ~Acked(msgs) /\ ~TmOut(f)
        <5>1. w3 = w1  BY <3>2, <4>1, <4>4 DEF w3, ByTimer
        <5>2. p.due + 0 > 0
          <6>1. p.due \in Int  BY <1>2 DEF Conn
          <6> QED  BY <1>12, <2>2, <2>3, <4>4, <6>1 DEF TmOut, Live4
        <5>3. Remains(e, p, w3, full, 0)
          <6>1. /\ w3.cn = f /\ w3.cnt = openCnt[e] /\ w3.k = k /\ w3.got = g
                /\ f.sta = p.sta /\ f.evnt = p.evnt /\ f.due = p.due /\ f.sock = p.sock
            BY <2>3, <2>5, <3>2, <4>4, <5>1
          <6>2. f.age - 0 = f.age  BY <2>3 DEF Conn
          <6> QED  BY <1>12, <2>6, <2>9, <3>3, <4>2, <4>4, <5>2, <6>1, <6>2 DEF Remains, k, g
        <5> QED  BY <2>3, <2>5, <3>2, <3>6, <5>1, <5>3 DEF Outcome
      <4>5. CASE ~Acked(msgs) /\ TmOut(f) /\ p.sta = "open" /\ ok
        <5> DEFINE d == Timer(f, "HBEAT", HBeatSndTm)
                   k2 == SockWrite(k, p.sock, e, <<HBeat>>)
        <5>1. w3 = Work(d, n, k2, g)
          <6>1. w3 = HBeatTmOut(w1, e, ok)  BY <2>2, <2>3, <3>2, <4>1, <4>5 DEF w3, ByTimer
          <6>2. f.sock = p.sock  BY <2>3
          <6> QED  BY <3>2, <4>5, <6>1, <6>2 DEF HBeatTmOut
        <5>2. d \in Conn  BY <2>3, TimerIs, TimesAreInt
        <5>3. d.sta = f.sta /\ d.sock = f.sock /\ d.age = f.age  BY <2>3 DEF Timer, Conn
        <5>4. d.evnt = "HBEAT" /\ d.due = HBeatSndTm  BY <2>3 DEF Timer, Conn
        <5> HIDE DEF d, k2
        <5>5. w3.cn = d /\ w3.cnt = n /\ w3.k = k2 /\ w3.got = g  BY <5>1 DEF Work
        <5>6. p.due + 0 =< 0
          <6>1. p.due \in Int  BY <1>2 DEF Conn
          <6> QED  BY <2>3, <4>5, <6>1 DEF TmOut
        <5>7. Remains(e, p, w3, full, 0)
          <6>1. /\ w3.cn = d /\ w3.cnt = openCnt[e] /\ w3.k = k2 /\ w3.got = g
                /\ d.sta = p.sta /\ d.evnt = p.evnt /\ d.sock = p.sock /\ d.age = f.age
            BY <2>2, <2>3, <2>5, <4>5, <5>3, <5>4, <5>5
          <6>2. f.age - 0 = f.age /\ HBeatSndTm - 0 = HBeatSndTm  BY <2>3, LinkAssumption DEF Conn
          <6> QED  BY <1>12, <2>3, <2>6, <2>9, <3>3, <4>2, <4>5, <5>4, <5>6, <6>1, <6>2 DEF Remains, k, k2, g
        <5> QED  BY <2>5, <3>6, <5>2, <5>5, <5>7 DEF Outcome
      <4>6. CASE ~Acked(msgs) /\ TmOut(f) /\ p.sta = "open" /\ ~ok
        <5>1. w3 = GiveUp(w1, e, n - 1)
          <6>1. w3 = HBeatTmOut(w1, e, ok)  BY <2>2, <2>3, <3>2, <4>1, <4>6 DEF w3, ByTimer
          <6> QED  BY <3>2, <4>6, <6>1 DEF HBeatTmOut
        <5>2. w3 = Work(Gone(e, f), n - 1, SockClose(k, p.sock, e), g)
          <6>1. f.sock = p.sock  BY <2>3
          <6> QED  BY <2>5, <3>1, <5>1, <6>1, GiveUpIs
        <5>3. Gone(e, f) \in Conn /\ Gone(e, f).sta = "closed" /\ Gone(e, f).sock = 0
          BY <2>3, GoneIs
        <5>4. Gone(e, f).evnt = IF e = "srv" THEN "none" ELSE "CONN"  BY <2>3, GoneIs
        <5>5. w3.cn = Gone(e, f) /\ w3.cnt = n - 1 /\ w3.k = SockClose(k, p.sock, e) /\ w3.got = g
          BY <5>2 DEF Work
        <5>8. Dropped(e, p, w3, full)
          BY <1>12, <2>2, <2>5, <2>6, <4>6, <5>3, <5>4, <5>5 DEF Dropped, k, g
        <5> QED  BY <1>5, <2>5, <3>6, <5>3, <5>5, <5>8 DEF Outcome
      <4>7. CASE ~Acked(msgs) /\ TmOut(f) /\ p.sta = "init"
        <5> DEFINE d == Timer(Lost(f), "CONN", ConnTm)
        <5>1. w3 = Work(d, n, SockClose(k, p.sock, e), g)
          <6>1. w3 = InitTmOut(w1, e)  BY <2>2, <2>3, <3>2, <4>1, <4>7 DEF w3, ByTimer
          <6>2. f.sock = p.sock  BY <2>3
          <6> QED  BY <3>2, <6>1, <6>2 DEF InitTmOut, Close, Work
        <5>2. Gone(e, f) = d  BY <2>2, <4>7 DEF Gone, Reopen
        <5> HIDE DEF d
        <5>3. d \in Conn /\ d.sta = "closed" /\ d.sock = 0  BY <2>3, <5>2, GoneIs
        <5>4. d.evnt = IF e = "srv" THEN "none" ELSE "CONN"  BY <2>3, <5>2, GoneIs
        <5>5. w3.cn = d /\ w3.cnt = n /\ w3.k = SockClose(k, p.sock, e) /\ w3.got = g
          BY <5>1 DEF Work
        <5>6. Dropped(e, p, w3, full)
          BY <1>12, <2>2, <2>5, <2>6, <4>7, <5>3, <5>4, <5>5 DEF Dropped, k, g
        <5> QED  BY <2>5, <3>6, <5>3, <5>5, <5>6 DEF Outcome
      <4> QED  BY <1>12, <4>3, <4>4, <4>5, <4>6, <4>7 DEF Live4
    <3> QED  BY <3>5, <3>6
  <2> QED  BY <2>8, <2>9
<1> QED  BY <1>2, <1>10, <1>11, <1>12 DEF Conn, Live4

-----------------------------------------------------------------------------
(* Connections and the sockets they have *)

AckIn(x) == \E j \in DOMAIN x.in["cli"] : x.in["cli"][j].code = "ack"

(* A connection c of the end e, when its socket is x and the accept thread *)
(* owes the socket a its answer.                                           *)
HasSock(e, c, x, a) ==
  /\ e \in x.up
  /\ e = "srv" => x.at = "conn"
  /\ e = "cli" /\ c.sta = "connected" => x.at = "tmp" /\ x.in["srv"] = << >>
  /\ e = "cli" /\ c.sta = "open" => x.at = "conn" /\ a # c.sock /\ ~AckIn(x)

ConnOK(e, c, k, a) ==
  /\ ShapeOf(e, c)
  /\ c.sock # 0 => HasSock(e, c, k[c.sock], a)

SockOK(s, x, a) ==
  /\ x.up = {} => x = noSock
  /\ x.at = "free" => x.up = {}
  /\ x.at = "tmp" => /\ "srv" \in x.up /\ a # s /\ x.in["cli"] = << >>
                     /\ \A j \in DOMAIN x.in["srv"] : j = 1 /\ x.in["srv"][j].code = "req"
  /\ x.at = "conn" =>
       /\ \A j \in DOMAIN x.in["srv"] : x.in["srv"][j].code \in {"hbeat", "data"}
       /\ \A j \in DOMAIN x.in["cli"] : x.in["cli"][j].code \in {"ack", "hbeat", "data"}
       /\ \A i, j \in DOMAIN x.in["cli"] :
            x.in["cli"][i].code = "ack" /\ x.in["cli"][j].code = "ack" => i = j
  /\ a = s => ~AckIn(x)
  /\ x.cut => x.in["cli"] = << >> /\ x.in["srv"] = << >>

(* The connections cs of the ends and the network k. *)
Struct(cs, k, a) ==
  /\ cs \in [Ends -> Seq(Conn)] /\ k \in Net /\ a \in Socks \cup {0}
  /\ \A e \in Ends : \A i \in DOMAIN cs[e] : ConnOK(e, cs[e][i], k, a)
  /\ \A e \in Ends : \A i, j \in DOMAIN cs[e] :
       cs[e][i].sock = cs[e][j].sock /\ cs[e][i].sock # 0 => i = j
  /\ \A s \in Socks : SockOK(s, k[s], a)

Put(cs, e, i, d) == [cs EXCEPT ![e] = [@ EXCEPT ![i] = d]]

IsPut(q, cs, e, i, d) ==
  /\ q \in [Ends -> Seq(Conn)]
  /\ \A f \in Ends : DOMAIN q[f] = DOMAIN cs[f]
  /\ \A f \in Ends : Len(q[f]) = Len(cs[f])
  /\ q[e][i] = d
  /\ \A f \in Ends : \A j \in DOMAIN cs[f] : ~(f = e /\ j = i) => q[f][j] = cs[f][j]

LEMMA PutIs ==
  ASSUME NEW cs, cs \in [Ends -> Seq(Conn)], NEW e \in Ends, NEW i \in DOMAIN cs[e], NEW d \in Conn
  PROVE  IsPut(Put(cs, e, i, d), cs, e, i, d)
<1> DEFINE q == [cs[e] EXCEPT ![i] = d]
<1>1. cs[e] \in Seq(Conn)  OBVIOUS
<1>2. q \in Seq(Conn) /\ Len(q) = Len(cs[e]) /\ DOMAIN q = DOMAIN cs[e]  BY <1>1
<1>3. \A j \in DOMAIN cs[e] : q[j] = IF j = i THEN d ELSE cs[e][j]  BY <1>1
<1> HIDE DEF q
<1>4. Put(cs, e, i, d) = [cs EXCEPT ![e] = q]  BY DEF Put, q
<1> QED  BY <1>2, <1>3, <1>4 DEF IsPut

(* A connection gets d, and the socket s another state y. *)
LEMMA StructPut ==
  ASSUME NEW cs, NEW k, NEW a, Struct(cs, k, a), NEW e \in Ends, NEW i \in DOMAIN cs[e],
         NEW d \in Conn, NEW s \in Socks, NEW y \in SockRec,
         ShapeOf(e, d), d.sock \in {0, s}, d.sock = s => HasSock(e, d, y, a),
         cs[e][i].sock \in {0, s},
         \A f \in Ends : \A j \in DOMAIN cs[f] :
            cs[f][j].sock = s /\ ~(f = e /\ j = i) => HasSock(f, cs[f][j], y, a),
         d.sock = s /\ cs[e][i].sock # s => \A j \in DOMAIN cs[e] : cs[e][j].sock # s,
         SockOK(s, y, a)
  PROVE  Struct(Put(cs, e, i, d), [k EXCEPT ![s] = y], a)
<1> DEFINE cs2 == Put(cs, e, i, d)
           k2 == [k EXCEPT ![s] = y]
<1>1. /\ cs \in [Ends -> Seq(Conn)] /\ k \in Net /\ a \in Socks \cup {0}  BY DEF Struct
<1>2. /\ cs2 \in [Ends -> Seq(Conn)]
      /\ \A f \in Ends : DOMAIN cs2[f] = DOMAIN cs[f]
      /\ cs2[e][i] = d
      /\ \A f \in Ends : \A j \in DOMAIN cs[f] : ~(f = e /\ j = i) => cs2[f][j] = cs[f][j]
  <2>1. IsPut(cs2, cs, e, i, d)  BY <1>1, PutIs
  <2> QED  BY <2>1 DEF IsPut
<1>3. k2 \in Net /\ k2[s] = y /\ (\A t \in Socks : t # s => k2[t] = k[t])  BY <1>1 DEF Net
<1>4. 0 \notin Socks  BY LinkAssumption
<1> HIDE DEF cs2, k2
<1>5. ASSUME NEW f \in Ends, NEW j \in DOMAIN cs2[f] PROVE ConnOK(f, cs2[f][j], k2, a)
  <2>1. CASE f = e /\ j = i
    <3>1. cs2[f][j] = d  BY <1>2, <2>1
    <3> QED  BY <1>3, <1>4, <2>1, <3>1 DEF ConnOK
  <2>2. CASE ~(f = e /\ j = i)
    <3>1. j \in DOMAIN cs[f] /\ cs2[f][j] = cs[f][j]  BY <1>2, <2>2
    <3>2. ConnOK(f, cs[f][j], k, a)  BY <3>1 DEF Struct
    <3>3. CASE cs[f][j].sock = s
      BY <1>3, <2>2, <3>1, <3>2, <3>3 DEF ConnOK
    <3>4. CASE cs[f][j].sock # s
      <4>1. cs[f][j] \in Conn  BY <1>1, <3>1
      <4>2. cs[f][j].sock \in Socks \cup {0}  BY <4>1 DEF Conn
      <4> QED  BY <1>3, <3>1, <3>2, <3>4, <4>2 DEF ConnOK
    <3> QED  BY <3>3, <3>4
  <2> QED  BY <2>1, <2>2
<1>6. ASSUME NEW f \in Ends, NEW j \in DOMAIN cs2[f], NEW h \in DOMAIN cs2[f],
             cs2[f][j].sock = cs2[f][h].sock, cs2[f][j].sock # 0
      PROVE  j = h
  <2>1. j \in DOMAIN cs[f] /\ h \in DOMAIN cs[f]  BY <1>2
  <2>2. \A x, z \in DOMAIN cs[f] : cs[f][x].sock = cs[f][z].sock /\ cs[f][x].sock # 0 => x = z
    BY DEF Struct
  <2>3. CASE f = e /\ j = i
    <3>1. d.sock = s  BY <1>2, <1>6, <2>1, <2>3
    <3> QED  BY <1>2, <1>6, <2>1, <2>2, <2>3, <3>1, <1>4
  <2>4. CASE f = e /\ h = i
    <3>1. d.sock = s  BY <1>2, <1>6, <2>1, <2>4
    <3> QED  BY <1>2, <1>6, <2>1, <2>2, <2>4, <3>1, <1>4
  <2>5. CASE ~(f = e /\ j = i) /\ ~(f = e /\ h = i)
    BY <1>2, <1>6, <2>1, <2>2, <2>5
  <2> QED  BY <2>3, <2>4, <2>5
<1>7. ASSUME NEW t \in Socks PROVE SockOK(t, k2[t], a)
  <2>1. CASE t = s  BY <1>3, <2>1
  <2>2. CASE t # s  BY <1>3, <2>2 DEF Struct
  <2> QED  BY <2>1, <2>2
<1> QED  BY <1>1, <1>2, <1>3, <1>5, <1>6, <1>7 DEF Struct, cs2, k2

-----------------------------------------------------------------------------
(* What an operation makes of one socket *)

Emptied(x, e) == IF x.cut THEN x ELSE [x EXCEPT !.in[e] = << >>]
Added(x, e, msgs) ==
  IF Peer(e) \notin x.up \/ x.cut THEN x ELSE [x EXCEPT !.in[Peer(e)] = @ \o msgs]

LEMMA PeerIs ==
  /\ Peer("cli") = "srv" /\ Peer("srv") = "cli"
  /\ \A e \in Ends : Peer(e) \in Ends /\ Peer(e) # e /\ Peer(Peer(e)) = e
  BY DEF Peer, Ends

LEMMA NoSockIs ==
  /\ noSock \in SockRec /\ newSock \in SockRec
  /\ noSock.up = {} /\ noSock.at = "free" /\ ~noSock.cut
  /\ newSock.up = Ends /\ newSock.at = "tmp" /\ ~newSock.cut
  /\ \A e \in Ends : noSock.in[e] = << >> /\ newSock.in[e] = << >>
<1>1. << >> \in Seq(Msg)  OBVIOUS
<1>2. [e \in Ends |-> << >>] \in [Ends -> Seq(Msg)]  BY <1>1
<1> QED  BY <1>2 DEF noSock, newSock, SockRec

LEMMA EmptiedIs ==
  ASSUME NEW x \in SockRec, NEW e \in Ends
  PROVE  /\ Emptied(x, e) \in SockRec
         /\ Emptied(x, e).up = x.up /\ Emptied(x, e).cut = x.cut /\ Emptied(x, e).at = x.at
         /\ x.cut => Emptied(x, e).in[e] = x.in[e]
         /\ ~x.cut => Emptied(x, e).in[e] = << >>
         /\ Emptied(x, e).in[Peer(e)] = x.in[Peer(e)]
<1>1. << >> \in Seq(Msg)  OBVIOUS
<1>2. Peer(e) # e /\ Peer(e) \in Ends  BY PeerIs
<1>3. CASE x.cut  BY <1>3 DEF Emptied
<1>4. CASE ~x.cut
  <2>1. Emptied(x, e) = [x EXCEPT !.in[e] = << >>]  BY <1>4 DEF Emptied
  <2>2. [x.in EXCEPT ![e] = << >>] \in [Ends -> Seq(Msg)]  BY <1>1 DEF SockRec
  <2>3. Emptied(x, e) \in SockRec  BY <2>1, <2>2 DEF SockRec
  <2>4. Emptied(x, e).up = x.up /\ Emptied(x, e).cut = x.cut /\ Emptied(x, e).at = x.at
    BY <2>1 DEF SockRec
  <2>5. Emptied(x, e).in = [x.in EXCEPT ![e] = << >>]  BY <2>1 DEF SockRec
  <2>6. x.in \in [Ends -> Seq(Msg)]  BY DEF SockRec
  <2> QED  BY <1>2, <1>4, <2>3, <2>4, <2>5, <2>6
<1> QED  BY <1>3, <1>4

LEMMA AddedIs ==
  ASSUME NEW x \in SockRec, NEW e \in Ends, NEW msgs \in Seq(Msg)
  PROVE  /\ Added(x, e, msgs) \in SockRec
         /\ Added(x, e, msgs).up = x.up /\ Added(x, e, msgs).cut = x.cut
         /\ Added(x, e, msgs).at = x.at
         /\ Added(x, e, msgs).in[e] = x.in[e]
         /\ Peer(e) \notin x.up \/ x.cut => Added(x, e, msgs) = x
         /\ Peer(e) \in x.up /\ ~x.cut =>
              Added(x, e, msgs).in[Peer(e)] = x.in[Peer(e)] \o msgs
<1>2. Peer(e) # e /\ Peer(e) \in Ends  BY PeerIs
<1>3. CASE Peer(e) \notin x.up \/ x.cut  BY <1>3 DEF Added
<1>4. CASE Peer(e) \in x.up /\ ~x.cut
  <2> DEFINE q == x.in[Peer(e)] \o msgs
  <2>0. x.in \in [Ends -> Seq(Msg)]  BY DEF SockRec
  <2>1. q \in Seq(Msg)  BY <1>2, <2>0
  <2>2. Added(x, e, msgs) = [x EXCEPT !.in[Peer(e)] = q]  BY <1>4 DEF Added
  <2> HIDE DEF q
  <2>3. [x.in EXCEPT ![Peer(e)] = q] \in [Ends -> Seq(Msg)]  BY <2>0, <2>1
  <2>4. Added(x, e, msgs) \in SockRec  BY <2>2, <2>3 DEF SockRec
  <2>5. /\ Added(x, e, msgs).up = x.up /\ Added(x, e, msgs).cut = x.cut
        /\ Added(x, e, msgs).at = x.at
    BY <2>2 DEF SockRec
  <2>6. Added(x, e, msgs).in = [x.in EXCEPT ![Peer(e)] = q]  BY <2>2 DEF SockRec
  <2>7. Added(x, e, msgs).in[e] = x.in[e] /\ Added(x, e, msgs).in[Peer(e)] = q
    BY <1>2, <2>0, <2>6
  <2> QED  BY <1>4, <2>4, <2>5, <2>7 DEF q
<1> QED  BY <1>3, <1>4

LEMMA ShutIs ==
  ASSUME NEW x \in SockRec, NEW e \in Ends
  PROVE  /\ Shut(x, e) \in SockRec
         /\ x.up = {e} => Shut(x, e) = noSock
         /\ x.up # {e} => /\ Shut(x, e).up = x.up \ {e} /\ Shut(x, e).cut = x.cut
                          /\ Shut(x, e).at = x.at /\ Shut(x, e).in = x.in
<1>1. CASE x.up = {e}  BY <1>1, NoSockIs DEF Shut
<1>2. CASE x.up # {e}
  <2>1. Shut(x, e) = [x EXCEPT !.up = x.up \ {e}]  BY <1>2 DEF Shut
  <2>2. x.up \ {e} \in SUBSET Ends  BY DEF SockRec
  <2>3. Shut(x, e) \in SockRec  BY <2>1, <2>2 DEF SockRec
  <2>4. /\ Shut(x, e).up = x.up \ {e} /\ Shut(x, e).cut = x.cut
        /\ Shut(x, e).at = x.at /\ Shut(x, e).in = x.in
    BY <2>1 DEF SockRec
  <2> QED  BY <1>2, <2>3, <2>4
<1> QED  BY <1>1, <1>2

(* The operations of the network in these terms. *)
LEMMA OneSock ==
  ASSUME NEW k \in Net, NEW s \in Socks, NEW e \in Ends, NEW msgs
  PROVE  /\ SockTake(k, s, e) = [k EXCEPT ![s] = Emptied(k[s], e)]
         /\ SockWrite(k, s, e, msgs) = [k EXCEPT ![s] = Added(k[s], e, msgs)]
         /\ SockClose(k, s, e) = [k EXCEPT ![s] = Shut(k[s], e)]
<1>1. s # 0  BY LinkAssumption
<1>2. k = [k EXCEPT ![s] = k[s]]  BY DEF Net
<1>3. SockTake(k, s, e) = [k EXCEPT ![s] = Emptied(k[s], e)]
  <2>1. CASE k[s].cut
    <3>1. SockTake(k, s, e) = k  BY <2>1 DEF SockTake
    <3>2. Emptied(k[s], e) = k[s]  BY <2>1 DEF Emptied
    <3> QED  BY <1>2, <3>1, <3>2
  <2>2. CASE ~k[s].cut
    <3>1. Emptied(k[s], e) = [k[s] EXCEPT !.in[e] = << >>]  BY <2>2 DEF Emptied
    <3> QED  BY <2>2, <3>1 DEF SockTake
  <2> QED  BY <2>1, <2>2
<1>4. SockWrite(k, s, e, msgs) = [k EXCEPT ![s] = Added(k[s], e, msgs)]
  <2>1. CASE Peer(e) \notin k[s].up \/ k[s].cut
    <3>1. SockWrite(k, s, e, msgs) = k  BY <2>1 DEF SockWrite
    <3>2. Added(k[s], e, msgs) = k[s]  BY <2>1 DEF Added
    <3> QED  BY <1>2, <3>1, <3>2
  <2>2. CASE Peer(e) \in k[s].up /\ ~k[s].cut
    <3>1. Added(k[s], e, msgs) = [k[s] EXCEPT !.in[Peer(e)] = @ \o msgs]  BY <2>2 DEF Added
    <3> QED  BY <1>1, <2>2, <3>1 DEF SockWrite
  <2> QED  BY <2>1, <2>2
<1>5. SockClose(k, s, e) = [k EXCEPT ![s] = Shut(k[s], e)]  BY <1>1 DEF SockClose
<1> QED  BY <1>3, <1>4, <1>5

(* The state of a socket stays right. *)
LEMMA NoSockOK ==
  ASSUME NEW s, NEW a
  PROVE  SockOK(s, noSock, a)
<1>1. "cli" \in Ends /\ "srv" \in Ends  BY DEF Ends
<1> QED  BY <1>1, NoSockIs DEF SockOK, AckIn

LEMMA EmptiedOK ==
  ASSUME NEW x \in SockRec, NEW e \in Ends, NEW s, NEW a, SockOK(s, x, a), e \in x.up
  PROVE  SockOK(s, Emptied(x, e), a)
<1> DEFINE y == Emptied(x, e)
<1>1. /\ y \in SockRec /\ y.up = x.up /\ y.cut = x.cut /\ y.at = x.at
      /\ y.in["cli"] = x.in["cli"] \/ y.in["cli"] = << >>
      /\ y.in["srv"] = x.in["srv"] \/ y.in["srv"] = << >>
  BY EmptiedIs, PeerIs DEF Ends
<1> HIDE DEF y
<1>2. AckIn(y) => AckIn(x)  BY <1>1 DEF AckIn
<1> QED  BY <1>1, <1>2 DEF SockOK, y

LEMMA ShutOK ==
  ASSUME NEW x \in SockRec, NEW e \in Ends, NEW s, NEW a, SockOK(s, x, a), e \in x.up,
         x.at = "tmp" => e = "cli" \/ x.up = {e}
  PROVE  SockOK(s, Shut(x, e), a)
<1>1. CASE x.up = {e}  BY <1>1, ShutIs, NoSockOK
<1>2. CASE x.up # {e}
  <2> DEFINE y == Shut(x, e)
  <2>1. y.up = x.up \ {e} /\ y.cut = x.cut /\ y.at = x.at /\ y.in = x.in  BY <1>2, ShutIs
  <2>2. y.up # {} /\ x.up # {}  BY <1>2, <2>1
  <2> HIDE DEF y
  <2>3. AckIn(y) <=> AckIn(x)  BY <2>1 DEF AckIn
  <2> QED  BY <1>2, <2>1, <2>2, <2>3 DEF SockOK, y
<1> QED  BY <1>1, <1>2

(* What is written on a connection that is open is heartbeats and data. *)
LEMMA AddedOK ==
  ASSUME NEW x \in SockRec, NEW e \in Ends, NEW s, NEW a, SockOK(s, x, a), e \in x.up,
         x.at = "conn", NEW msgs \in Seq(Msg),
         \A j \in DOMAIN msgs : msgs[j].code \in {"hbeat", "data"}
  PROVE  /\ SockOK(s, Added(x, e, msgs), a)
         /\ AckIn(Added(x, e, msgs)) => AckIn(x)
<1> DEFINE y == Added(x, e, msgs)  p == Peer(e)
<1>0. CASE Peer(e) \notin x.up \/ x.cut
  <2>1. y = x  BY <1>0, AddedIs
  <2> QED  BY <2>1
<1>1. CASE Peer(e) \in x.up /\ ~x.cut
  <2>1. /\ y \in SockRec /\ y.up = x.up /\ y.cut = x.cut /\ y.at = x.at
        /\ y.in[e] = x.in[e] /\ y.in[p] = x.in[p] \o msgs
    BY <1>1, AddedIs
  <2>2. p \in Ends /\ x.in[p] \in Seq(Msg)  BY PeerIs DEF SockRec
  <2>3. /\ \A j \in DOMAIN y.in[p] :
             \/ y.in[p][j].code \in {"hbeat", "data"}
             \/ j \in DOMAIN x.in[p] /\ y.in[p][j] = x.in[p][j]
        /\ \A j \in DOMAIN y.in[p] : y.in[p][j].code = "ack" =>
             j \in DOMAIN x.in[p] /\ y.in[p][j] = x.in[p][j]
    <3>1. ASSUME NEW j \in DOMAIN y.in[p]
          PROVE  \/ y.in[p][j].code \in {"hbeat", "data"}
                 \/ j \in DOMAIN x.in[p] /\ y.in[p][j] = x.in[p][j]
      <4>1. CASE j =< Len(x.in[p])  BY <2>1, <2>2, <4>1
      <4>2. CASE j > Len(x.in[p])
        <5>1. j - Len(x.in[p]) \in DOMAIN msgs /\ y.in[p][j] = msgs[j - Len(x.in[p])]
          BY <2>1, <2>2, <4>2
        <5> QED  BY <5>1
      <4> QED  BY <2>1, <2>2, <4>1, <4>2
    <3> QED  BY <3>1
  <2> HIDE DEF y, p
  <2>4. (e = "cli" /\ p = "srv") \/ (e = "srv" /\ p = "cli")  BY DEF Ends, Peer, p
  <2>5. AckIn(y) => AckIn(x)  BY <2>1, <2>3, <2>4 DEF AckIn
  <2>6. x.up # {}  OBVIOUS
  <2>7. /\ \A j \in DOMAIN y.in["srv"] : y.in["srv"][j].code \in {"hbeat", "data"}
        /\ \A j \in DOMAIN y.in["cli"] : y.in["cli"][j].code \in {"ack", "hbeat", "data"}
    <3>1. /\ \A j \in DOMAIN x.in["srv"] : x.in["srv"][j].code \in {"hbeat", "data"}
          /\ \A j \in DOMAIN x.in["cli"] : x.in["cli"][j].code \in {"ack", "hbeat", "data"}
      BY DEF SockOK
    <3>2. CASE e = "cli" /\ p = "srv"  BY <2>1, <2>3, <3>1, <3>2
    <3>3. CASE e = "srv" /\ p = "cli"
      <4>1. y.in["srv"] = x.in["srv"]  BY <2>1, <3>3
      <4>2. \A j \in DOMAIN y.in["cli"] :
                y.in["cli"][j].code \in {"hbeat", "data"}
                \/ (j \in DOMAIN x.in["cli"] /\ y.in["cli"][j] = x.in["cli"][j])
        BY <2>3, <3>3
      <4> QED  BY <3>1, <4>1, <4>2
    <3> QED  BY <2>4, <3>2, <3>3
  <2>8. \A i, j \in DOMAIN y.in["cli"] :
          y.in["cli"][i].code = "ack" /\ y.in["cli"][j].code = "ack" => i = j
    <3>1. \A i, j \in DOMAIN x.in["cli"] :
            x.in["cli"][i].code = "ack" /\ x.in["cli"][j].code = "ack" => i = j
      BY DEF SockOK
    <3>2. CASE e = "cli" /\ p = "srv"
      <4>1. y.in["cli"] = x.in["cli"]  BY <2>1, <3>2
      <4> QED  BY <3>1, <4>1
    <3>3. CASE e = "srv" /\ p = "cli"
      <4>1. \A j \in DOMAIN y.in["cli"] : y.in["cli"][j].code = "ack" =>
                (j \in DOMAIN x.in["cli"] /\ y.in["cli"][j] = x.in["cli"][j])
        BY <2>3, <3>3
      <4> QED  BY <3>1, <4>1
    <3> QED  BY <2>4, <3>2, <3>3
  <2> QED  BY <1>1, <2>1, <2>5, <2>6, <2>7, <2>8 DEF SockOK, y
<1> QED  BY <1>0, <1>1

-----------------------------------------------------------------------------
(* Struct is kept *)

LEMMA StructConn ==
  ASSUME NEW cs, NEW k, NEW a, Struct(cs, k, a), NEW e \in Ends, NEW i \in DOMAIN cs[e]
  PROVE  /\ cs[e][i] \in Conn /\ ShapeOf(e, cs[e][i])
         /\ cs[e][i].sock # 0 => /\ cs[e][i].sock \in Socks
                                 /\ HasSock(e, cs[e][i], k[cs[e][i].sock], a)
                                 /\ k[cs[e][i].sock] \in SockRec
                                 /\ SockOK(cs[e][i].sock, k[cs[e][i].sock], a)
<1>1. cs[e][i] \in Conn  BY DEF Struct
<1>2. cs[e][i].sock \in Socks \cup {0}  BY <1>1 DEF Conn
<1>3. ConnOK(e, cs[e][i], k, a)  BY DEF Struct
<1>4. k \in Net /\ \A s \in Socks : SockOK(s, k[s], a)  BY DEF Struct
<1> QED  BY <1>1, <1>2, <1>3, <1>4 DEF ConnOK, Net

(* The connections change, but not the sockets that they have. *)
LEMMA StructSame ==
  ASSUME NEW cs, NEW k, NEW a, Struct(cs, k, a), NEW q \in [Ends -> Seq(Conn)],
         \A f \in Ends : DOMAIN q[f] = DOMAIN cs[f],
         \A f \in Ends : \A j \in DOMAIN cs[f] :
            q[f][j].sta = cs[f][j].sta /\ q[f][j].sock = cs[f][j].sock /\ ShapeOf(f, q[f][j])
  PROVE  Struct(q, k, a)
<1>1. ASSUME NEW f \in Ends, NEW j \in DOMAIN q[f] PROVE ConnOK(f, q[f][j], k, a)
  <2>1. ConnOK(f, cs[f][j], k, a)  BY DEF Struct
  <2>2. ASSUME NEW x, HasSock(f, cs[f][j], x, a) PROVE HasSock(f, q[f][j], x, a)
    BY <2>2 DEF HasSock
  <2> QED  BY <2>1, <2>2 DEF ConnOK
<1>2. \A f \in Ends : \A i, j \in DOMAIN q[f] :
        q[f][i].sock = q[f][j].sock /\ q[f][i].sock # 0 => i = j
  BY DEF Struct
<1> QED  BY <1>1, <1>2 DEF Struct

(* Only the socket s changes. *)
LEMMA StructSock ==
  ASSUME NEW cs, NEW k, NEW a, Struct(cs, k, a), NEW s \in Socks, NEW y \in SockRec,
         SockOK(s, y, a),
         \A f \in Ends : \A j \in DOMAIN cs[f] :
            cs[f][j].sock = s => HasSock(f, cs[f][j], y, a)
  PROVE  Struct(cs, [k EXCEPT ![s] = y], a)
<1> DEFINE k2 == [k EXCEPT ![s] = y]
<1>1. k \in Net  BY DEF Struct
<1>2. k2 \in Net /\ k2[s] = y /\ \A t \in Socks : t # s => k2[t] = k[t]  BY <1>1 DEF Net
<1> HIDE DEF k2
<1>3. ASSUME NEW f \in Ends, NEW j \in DOMAIN cs[f] PROVE ConnOK(f, cs[f][j], k2, a)
  <2>1. ConnOK(f, cs[f][j], k, a) /\ cs[f][j] \in Conn  BY DEF Struct
  <2>2. cs[f][j].sock \in Socks \cup {0}  BY <2>1 DEF Conn
  <2> QED  BY <1>2, <2>1, <2>2 DEF ConnOK
<1>4. \A t \in Socks : SockOK(t, k2[t], a)  BY <1>2 DEF Struct
<1> QED  BY <1>2, <1>3, <1>4 DEF Struct, k2

(* What another end makes of a socket leaves a connection its own. *)
LEMMA OtherHas ==
  ASSUME NEW x \in SockRec, NEW e \in Ends, NEW f \in Ends, f # e, NEW c, NEW a, HasSock(f, c, x, a)
  PROVE  /\ HasSock(f, c, Emptied(x, e), a)
         /\ HasSock(f, c, Shut(x, e), a)
<1>1. Peer(e) = f  BY DEF Peer, Ends
<1>2. HasSock(f, c, Emptied(x, e), a)
  <2> DEFINE y == Emptied(x, e)
  <2>1. /\ y.up = x.up /\ y.at = x.at /\ y.in[f] = x.in[f]
        /\ y.in[e] = x.in[e] \/ y.in[e] = << >>
    BY <1>1, EmptiedIs
  <2> HIDE DEF y
  <2>2. f = "cli" => (AckIn(y) <=> AckIn(x)) /\ (x.in["srv"] = << >> => y.in["srv"] = << >>)
    BY <2>1 DEF AckIn, Ends
  <2> QED  BY <2>1, <2>2 DEF HasSock, y
<1>3. HasSock(f, c, Shut(x, e), a)
  <2> DEFINE y == Shut(x, e)
  <2>1. f \in x.up  BY DEF HasSock
  <2>2. y.up = x.up \ {e} /\ y.at = x.at /\ y.in = x.in  BY <2>1, ShutIs
  <2> HIDE DEF y
  <2>3. AckIn(y) <=> AckIn(x)  BY <2>2 DEF AckIn
  <2> QED  BY <2>1, <2>2, <2>3 DEF HasSock, y
<1> QED  BY <1>2, <1>3

(* Two connections of an end have different sockets. *)
LEMMA StructOther ==
  ASSUME NEW cs, NEW k, NEW a, Struct(cs, k, a), NEW e \in Ends, NEW i \in DOMAIN cs[e],
         cs[e][i].sock \in Socks,
         NEW f \in Ends, NEW j \in DOMAIN cs[f], cs[f][j].sock = cs[e][i].sock, ~(f = e /\ j = i)
  PROVE  f # e /\ HasSock(f, cs[f][j], k[cs[e][i].sock], a)
<1>1. cs[e][i].sock # 0  BY LinkAssumption
<1>2. f # e  BY <1>1 DEF Struct
<1> QED  BY <1>1, <1>2, StructConn

LEMMA StructTake ==
  ASSUME NEW cs, NEW k, NEW a, Struct(cs, k, a), NEW e \in Ends, NEW i \in DOMAIN cs[e],
         NEW s \in Socks, s = cs[e][i].sock
  PROVE  Struct(cs, SockTake(k, s, e), a)
<1> DEFINE x == k[s]  c == cs[e][i]  y == Emptied(x, e)
<1>1. s # 0  BY LinkAssumption
<1>2. HasSock(e, c, x, a) /\ x \in SockRec /\ SockOK(s, x, a) /\ c \in Conn
  BY <1>1, StructConn
<1> HIDE DEF x
<1>3. e \in x.up  BY <1>2 DEF HasSock
<1>4. /\ y \in SockRec /\ SockOK(s, y, a) /\ y.up = x.up /\ y.at = x.at
      /\ y.in["cli"] = x.in["cli"] \/ y.in["cli"] = << >>
      /\ y.in["srv"] = x.in["srv"] \/ y.in["srv"] = << >>
  BY <1>2, <1>3, EmptiedIs, EmptiedOK, PeerIs DEF Ends
<1> HIDE DEF y
<1>5. AckIn(y) => AckIn(x)  BY <1>4 DEF AckIn
<1>6. HasSock(e, c, y, a)  BY <1>2, <1>4, <1>5 DEF HasSock
<1>7. ASSUME NEW f \in Ends, NEW j \in DOMAIN cs[f], cs[f][j].sock = s PROVE HasSock(f, cs[f][j], y, a)
  <2>1. CASE f = e /\ j = i  BY <1>6, <2>1
  <2>2. CASE ~(f = e /\ j = i)
    <3>1. f # e /\ HasSock(f, cs[f][j], x, a)  BY <1>7, <2>2, StructOther DEF x
    <3> QED  BY <1>2, <3>1, OtherHas DEF y
  <2> QED  BY <2>1, <2>2
<1>8. Struct(cs, [k EXCEPT ![s] = y], a)  BY <1>4, <1>7, StructSock
<1>9. k \in Net  BY DEF Struct
<1> QED  BY <1>8, <1>9, OneSock DEF x, y

LEMMA StructShut ==
  ASSUME NEW cs, NEW k, NEW a, Struct(cs, k, a), NEW e \in Ends, NEW i \in DOMAIN cs[e],
         NEW s \in Socks, s = cs[e][i].sock, NEW d \in Conn, ShapeOf(e, d), d.sock = 0
  PROVE  Struct(Put(cs, e, i, d), SockClose(k, s, e), a)
<1> DEFINE x == k[s]  c == cs[e][i]  y == Shut(x, e)
<1>1. s # 0  BY LinkAssumption
<1>2. HasSock(e, c, x, a) /\ x \in SockRec /\ SockOK(s, x, a)
  BY <1>1, StructConn
<1> HIDE DEF x
<1>3. e \in x.up /\ (x.at = "tmp" => e = "cli")  BY <1>2 DEF HasSock, Ends
<1>4. y \in SockRec /\ SockOK(s, y, a)  BY <1>2, <1>3, ShutIs, ShutOK
<1> HIDE DEF y
<1>5. ASSUME NEW f \in Ends, NEW j \in DOMAIN cs[f], cs[f][j].sock = s, ~(f = e /\ j = i)
      PROVE  HasSock(f, cs[f][j], y, a)
  <2>1. f # e /\ HasSock(f, cs[f][j], x, a)  BY <1>5, StructOther DEF x
  <2> QED  BY <1>2, <2>1, OtherHas DEF y
<1>6. Struct(Put(cs, e, i, d), [k EXCEPT ![s] = y], a)
  BY <1>1, <1>4, <1>5, StructPut
<1>9. k \in Net  BY DEF Struct
<1> QED  BY <1>6, <1>9, OneSock DEF x, y

(* A connection that is open is written to. *)
LEMMA StructWrite ==
  ASSUME NEW cs, NEW k, NEW a, Struct(cs, k, a), NEW e \in Ends, NEW i \in DOMAIN cs[e],
         NEW s \in Socks, s = cs[e][i].sock, cs[e][i].sta = "open", NEW msgs \in Seq(Msg),
         \A j \in DOMAIN msgs : msgs[j].code \in {"hbeat", "data"}
  PROVE  Struct(cs, SockWrite(k, s, e, msgs), a)
<1> DEFINE x == k[s]  c == cs[e][i]  y == Added(x, e, msgs)
<1>1. s # 0  BY LinkAssumption
<1>2. HasSock(e, c, x, a) /\ x \in SockRec /\ SockOK(s, x, a) /\ c \in Conn
  BY <1>1, StructConn
<1> HIDE DEF x
<1>3. e \in x.up /\ x.at = "conn"  BY <1>2 DEF HasSock, Ends
<1>4. /\ y \in SockRec /\ SockOK(s, y, a) /\ y.up = x.up /\ y.at = x.at /\ y.in[e] = x.in[e]
      /\ AckIn(y) => AckIn(x)
  BY <1>2, <1>3, AddedIs, AddedOK
<1> HIDE DEF y
<1>7. ASSUME NEW f \in Ends, NEW j \in DOMAIN cs[f], cs[f][j].sock = s PROVE HasSock(f, cs[f][j], y, a)
  <2>1. HasSock(f, cs[f][j], x, a)  BY <1>1, <1>7, StructConn DEF x
  <2> QED  BY <1>3, <1>4, <2>1 DEF HasSock
<1>8. Struct(cs, [k EXCEPT ![s] = y], a)  BY <1>4, <1>7, StructSock
<1>9. k \in Net  BY DEF Struct
<1> QED  BY <1>8, <1>9, OneSock DEF x, y

(* A connection of the client is made over a free socket. *)
LEMMA StructDial ==
  ASSUME NEW cs, NEW k, NEW a, Struct(cs, k, a), NEW e \in Ends, NEW i \in DOMAIN cs[e],
         cs[e][i].sock = 0, NEW s \in Socks, k[s].up = {}, a # s,
         NEW d \in Conn, ShapeOf(e, d), d.sta = "connected", d.sock = s
  PROVE  Struct(Put(cs, e, i, d), [k EXCEPT ![s] = newSock], a)
<1>1. s # 0  BY LinkAssumption
<1>2. \A f \in Ends : \A j \in DOMAIN cs[f] : cs[f][j].sock # s
  <2>1. ASSUME NEW f \in Ends, NEW j \in DOMAIN cs[f], cs[f][j].sock = s PROVE FALSE
    <3>1. HasSock(f, cs[f][j], k[s], a)  BY <1>1, <2>1, StructConn
    <3> QED  BY <3>1 DEF HasSock
  <2> QED  BY <2>1
<1>3. /\ newSock \in SockRec /\ newSock.up = {"cli", "srv"} /\ newSock.at = "tmp" /\ ~newSock.cut
      /\ newSock.in["cli"] = << >> /\ newSock.in["srv"] = << >>
  BY NoSockIs DEF Ends
<1>4. SockOK(s, newSock, a)  BY <1>3 DEF SockOK, AckIn
<1>5. HasSock(e, d, newSock, a)
  <2>1. e # "srv"  BY DEF ShapeOf
  <2> QED  BY <1>3, <2>1 DEF HasSock, Ends
<1> QED  BY <1>2, <1>3, <1>4, <1>5, StructPut

(* The init request is written. *)
LEMMA StructAsk ==
  ASSUME NEW cs, NEW k, NEW a, Struct(cs, k, a), NEW e \in Ends, NEW i \in DOMAIN cs[e],
         NEW s \in Socks, s = cs[e][i].sock, cs[e][i].sta = "connected", NEW n \in Nat,
         NEW d \in Conn, ShapeOf(e, d), d.sta = "init", d.sock = s
  PROVE  Struct(Put(cs, e, i, d), SockWrite(k, s, e, <<Req(n)>>), a)
<1> DEFINE x == k[s]  c == cs[e][i]  y == Added(x, e, <<Req(n)>>)
<1>1. s # 0  BY LinkAssumption
<1>2. HasSock(e, c, x, a) /\ x \in SockRec /\ SockOK(s, x, a) /\ ShapeOf(e, c)
  BY <1>1, StructConn
<1> HIDE DEF x
<1>3. e = "cli"  BY <1>2 DEF ShapeOf, Ends
<1>4. e \in x.up /\ x.at = "tmp" /\ x.in["srv"] = << >>  BY <1>2, <1>3 DEF HasSock
<1>5. "srv" \in x.up /\ a # s /\ x.in["cli"] = << >>  BY <1>2, <1>4 DEF SockOK
<1>6. Req(n) \in Msg  BY DEF Req, Msg
<1>7. /\ y \in SockRec /\ y.up = x.up /\ y.at = x.at /\ y.cut = x.cut /\ y.in["cli"] = x.in["cli"]
      /\ x.cut => y = x
      /\ ~x.cut => y.in["srv"] = x.in["srv"] \o <<Req(n)>>
  <2>1. <<Req(n)>> \in Seq(Msg)  BY <1>6
  <2>2. Peer(e) = "srv"  BY <1>3 DEF Peer
  <2> DEFINE ms == <<Req(n)>>
  <2> HIDE DEF ms
  <2>3. /\ Added(x, e, ms) \in SockRec /\ Added(x, e, ms).up = x.up
        /\ Added(x, e, ms).cut = x.cut /\ Added(x, e, ms).at = x.at
        /\ Added(x, e, ms).in[e] = x.in[e]
        /\ Peer(e) \notin x.up \/ x.cut => Added(x, e, ms) = x
        /\ Peer(e) \in x.up /\ ~x.cut => Added(x, e, ms).in[Peer(e)] = x.in[Peer(e)] \o ms
    <3>1. ms \in Seq(Msg)  BY <2>1 DEF ms
    <3> QED  BY <1>2, <3>1, AddedIs
  <2> QED  BY <1>3, <1>5, <2>2, <2>3 DEF ms
<1> HIDE DEF y
<1>8. SockOK(s, y, a)
  <2>1. CASE x.cut  BY <1>2, <1>7, <2>1
  <2>2. CASE ~x.cut
    <3>1. y.in["srv"] = <<Req(n)>>  BY <1>4, <1>6, <1>7, <2>2
    <3>2. \A j \in DOMAIN y.in["srv"] : j = 1 /\ y.in["srv"][j].code = "req"
      BY <3>1 DEF Req
    <3>3. ~AckIn(y)  BY <1>5, <1>7 DEF AckIn
    <3>4. y.in["cli"] = << >> /\ y.up # {} /\ y.at = "tmp" /\ ~y.cut /\ "srv" \in y.up
      BY <1>4, <1>5, <1>7, <2>2
    <3> QED  BY <1>5, <3>2, <3>3, <3>4 DEF SockOK
  <2> QED  BY <2>1, <2>2
<1>9. HasSock(e, d, y, a)  BY <1>3, <1>4, <1>7 DEF HasSock
<1>10. ASSUME NEW f \in Ends, NEW j \in DOMAIN cs[f], cs[f][j].sock = s, ~(f = e /\ j = i)
       PROVE  HasSock(f, cs[f][j], y, a)
  <2>1. f # e /\ HasSock(f, cs[f][j], x, a)  BY <1>10, StructOther DEF x
  <2>2. f = "srv"  BY <1>3, <2>1 DEF Ends
  <2> QED  BY <1>7, <2>1, <2>2 DEF HasSock
<1>11. Struct(Put(cs, e, i, d), [k EXCEPT ![s] = y], a)
  BY <1>1, <1>8, <1>9, <1>10, <1>7, StructPut
<1>12. k \in Net  BY DEF Struct
<1> QED  BY <1>11, <1>12, OneSock DEF x, y

(* A connection gets d and keeps its socket. *)
LEMMA StructTurn ==
  ASSUME NEW cs, NEW k, NEW a, Struct(cs, k, a), NEW e \in Ends, NEW i \in DOMAIN cs[e],
         NEW d \in Conn, ShapeOf(e, d), d.sock = cs[e][i].sock,
         d.sock # 0 => HasSock(e, d, k[d.sock], a)
  PROVE  Struct(Put(cs, e, i, d), k, a)
<1> DEFINE q == Put(cs, e, i, d)
<1>1. IsPut(q, cs, e, i, d)
  <2>1. cs \in [Ends -> Seq(Conn)]  BY DEF Struct
  <2> QED  BY <2>1, PutIs
<1>2. /\ q \in [Ends -> Seq(Conn)] /\ (\A f \in Ends : DOMAIN q[f] = DOMAIN cs[f]) /\ q[e][i] = d
      /\ \A f \in Ends : \A j \in DOMAIN cs[f] : ~(f = e /\ j = i) => q[f][j] = cs[f][j]
  BY <1>1 DEF IsPut
<1> HIDE DEF q
<1>3. ASSUME NEW f \in Ends, NEW j \in DOMAIN q[f] PROVE ConnOK(f, q[f][j], k, a)
  <2>1. CASE f = e /\ j = i  BY <1>2, <2>1 DEF ConnOK
  <2>2. CASE ~(f = e /\ j = i)  BY <1>2, <2>2 DEF Struct
  <2> QED  BY <2>1, <2>2
<1>4. \A f \in Ends : \A j \in DOMAIN cs[f] : q[f][j].sock = cs[f][j].sock  BY <1>2
<1>5. \A f \in Ends : \A h, j \in DOMAIN q[f] :
        q[f][h].sock = q[f][j].sock /\ q[f][h].sock # 0 => h = j
  BY <1>2, <1>4 DEF Struct
<1> QED  BY <1>2, <1>3, <1>5 DEF Struct, q

-----------------------------------------------------------------------------
(* A pass over a connection keeps Struct and the counts *)

(* The answer to an init request comes at most once, and what comes after  *)
(* it is taken: the read does not fail.                                    *)
LEMMA AckedReads ==
  ASSUME NEW c \in Conn, NEW k \in Net, NEW s \in Socks, c.sock = s, c.sta = "init", NEW a,
         SockOK(s, k[s], a), "cli" \in k[s].up, Acked(Got(c, k, "cli"))
  PROVE  ~Fails(c, k, "cli") /\ ~k[s].cut /\ k[s].at = "conn" /\ AckIn(k[s])
<1> DEFINE x == k[s]  in == SockRead(k, c.sock, "cli")
<1>1. x \in SockRec /\ x.in["cli"] \in Seq(Msg)  BY DEF Net, SockRec, Ends
<1>2. in = IF x.cut THEN << >> ELSE x.in["cli"]  BY DEF SockRead
<1> HIDE DEF x, in
<1>3. PICK j0 \in Taken("init", in) : in[j0].code = "ack"
  BY DEF Acked, Got, in
<1>4. j0 \in DOMAIN in  BY <1>3 DEF Taken
<1>5. ~x.cut /\ in = x.in["cli"]
  <2>1. in # << >>  BY <1>4
  <2> QED  BY <1>2, <2>1
<1>6. AckIn(x)  BY <1>3, <1>4, <1>5 DEF AckIn
<1>7. x.at = "conn"
  <2>1. x.in["cli"] # << >>  BY <1>4, <1>5
  <2>2. x.at # "tmp" /\ x.at # "free"  BY <2>1 DEF SockOK, x
  <2> QED  BY <1>1, <2>2 DEF SockRec
<1>8. /\ \A j \in DOMAIN in : in[j].code \in {"ack", "hbeat", "data"}
      /\ \A i, j \in DOMAIN in : in[i].code = "ack" /\ in[j].code = "ack" => i = j
  BY <1>5, <1>7 DEF SockOK, x
<1>9. ASSUME NEW j \in DOMAIN in PROVE Welcome("init", in, j)
  <2>1. \A h \in 1 .. j0 : Welcome("init", in, h)  BY <1>3 DEF Taken
  <2>2. j \in Nat /\ j >= 1 /\ j0 \in Nat /\ j0 >= 1  BY <1>1, <1>4, <1>5
  <2>3. CASE j =< j0  BY <2>1, <2>2, <2>3
  <2>4. CASE j > j0
    <3>1. j0 \in 1 .. j - 1  BY <2>2, <2>4
    <3>2. in[j].code # "ack"  BY <1>3, <1>4, <1>8, <2>2, <2>4
    <3>3. in[j].code \in {"hbeat", "data"}  BY <1>8, <3>2
    <3> QED  BY <1>3, <3>1, <3>3 DEF Welcome
  <2> QED  BY <2>2, <2>3, <2>4
<1>10. Taken("init", in) = DOMAIN in
  <2>1. \A j \in DOMAIN in : \A h \in 1 .. j : h \in DOMAIN in  BY <1>1, <1>5
  <2> QED  BY <1>9, <2>1 DEF Taken
<1>11. ~SockEnd(k, c.sock, "cli")
  <2>1. k[c.sock].in["cli"] # << >>  BY <1>4, <1>5 DEF x
  <2> QED  BY <2>1 DEF SockEnd
<1> QED  BY <1>5, <1>6, <1>7, <1>10, <1>11 DEF Fails, in, x

LEMMA PassStruct ==
  ASSUME LinkTypes, Struct(conns, sock, acking), NEW e \in Ends, NEW full \in BOOLEAN,
         pos[e] \in DOMAIN conns[e], NEW c, c = conns[e][pos[e]], NEW r, r.cn \in Conn,
         NEW o, Outcome(e, c, r, full, o)
  PROVE  /\ Struct(Put(conns, e, pos[e], r.cn), r.k, acking)
         /\ c.sta = "init" => ~(Fails(c, sock, e) /\ Acked(Msgs(e, c)))
<1> DEFINE i == pos[e]  s == c.sock
<1>1. /\ c \in Conn /\ ShapeOf(e, c)
      /\ s # 0 => s \in Socks /\ HasSock(e, c, sock[s], acking) /\ sock[s] \in SockRec
                  /\ SockOK(s, sock[s], acking)
  BY StructConn
<1>0. sock \in Net  BY DEF LinkTypes
<1> HIDE DEF i, s
<1>2. c.sta = "init" => ~(Fails(c, sock, e) /\ Acked(Msgs(e, c)))
  <2>1. SUFFICES ASSUME c.sta = "init", Acked(Msgs(e, c)) PROVE ~Fails(c, sock, e)
    OBVIOUS
  <2>2. e = "cli" /\ s # 0  BY <1>1, <2>1 DEF ShapeOf, s, Ends
  <2>3. "cli" \in sock[s].up  BY <1>1, <2>2 DEF HasSock
  <2> QED  BY <1>0, <1>1, <2>1, <2>2, <2>3, AckedReads DEF s, Msgs
<1>3. CASE Idled(e, c, r)
  <2>1. r.cn.sta = "closed" /\ r.cn.sock = 0 /\ r.cn.evnt = c.evnt /\ c.sta = "closed" /\ r.k = sock
    BY <1>3 DEF Idled
  <2>2. ShapeOf(e, r.cn) /\ c.sock = 0  BY <1>1, <2>1 DEF ShapeOf
  <2> QED  BY <1>2, <2>1, <2>2, StructTurn
<1>4. CASE Dialled(e, c, r)
  <2>1. /\ c.sta = "closed" /\ c.evnt = "CONN" /\ r.cn.sta = "connected" /\ r.cn.evnt = "CONN_WAIT"
        /\ r.cn.sock \in FreeSocks(sock) /\ r.k = [sock EXCEPT ![r.cn.sock] = newSock]
    BY <1>4 DEF Dialled
  <2>2. r.cn.sock \in Socks /\ sock[r.cn.sock].up = {} /\ acking # r.cn.sock  BY <2>1 DEF FreeSocks
  <2>3. c.sock = 0 /\ r.cn.sock # 0 /\ e # "srv"  BY <1>1, <2>1, <2>2, LinkAssumption DEF ShapeOf
  <2>4. ShapeOf(e, r.cn)  BY <2>1, <2>3 DEF ShapeOf
  <2> DEFINE t == r.cn.sock
  <2>5. t \in Socks /\ sock[t].up = {} /\ acking # t  BY <2>2
  <2>6. r.cn.sock = t /\ r.k = [sock EXCEPT ![t] = newSock]  BY <2>1
  <2> HIDE DEF t
  <2>7. Struct(Put(conns, e, pos[e], r.cn), [sock EXCEPT ![t] = newSock], acking)
    BY <2>1, <2>3, <2>4, <2>5, <2>6, StructDial
  <2> QED  BY <1>2, <2>6, <2>7
<1>5. CASE Asked(e, c, r)
  <2>1. /\ c.sta = "connected" /\ r.cn.sta = "init" /\ r.cn.evnt = "INIT" /\ r.cn.sock = c.sock
        /\ r.k = SockWrite(sock, c.sock, e, <<Req(key[e])>>)
    BY <1>5 DEF Asked
  <2>2. s # 0 /\ e # "srv"  BY <1>1, <2>1 DEF ShapeOf, s
  <2>3. ShapeOf(e, r.cn)  BY <2>1, <2>2 DEF ShapeOf, s
  <2>4. key[e] \in Nat  BY DEF LinkTypes
  <2> QED  BY <1>1, <1>2, <2>1, <2>2, <2>3, <2>4, StructAsk DEF s
<1>6. CASE Dropped(e, c, r, full)
  <2>1. /\ r.cn.sta = "closed" /\ r.cn.sock = 0
        /\ r.cn.evnt = IF e = "srv" THEN "none" ELSE "CONN"
        /\ r.k = SockClose(IF Live4(c) THEN SockTake(sock, c.sock, e) ELSE sock, c.sock, e)
    BY <1>6 DEF Dropped
  <2>2. ShapeOf(e, r.cn)  BY <2>1 DEF ShapeOf
  <2>3. CASE c.sta = "closed"
    <3>1. c.sock = 0  BY <1>1, <2>3 DEF ShapeOf
    <3>2. r.k = sock  BY <2>1, <2>3, <3>1 DEF Live4, SockClose
    <3> QED  BY <1>2, <2>1, <2>2, <3>1, <3>2, StructTurn
  <2>4. CASE c.sta = "connected"
    <3>1. s # 0  BY <1>1, <2>4 DEF ShapeOf, s
    <3>2. r.k = SockClose(sock, s, e)  BY <2>1, <2>4 DEF Live4, s
    <3> QED  BY <1>1, <1>2, <2>1, <2>2, <3>1, <3>2, StructShut DEF s
  <2>5. CASE Live4(c)
    <3>1. s # 0  BY <1>1, <2>5 DEF ShapeOf, s, Live4
    <3> DEFINE k == SockTake(sock, s, e)
    <3>2. r.k = SockClose(k, s, e)  BY <2>1, <2>5 DEF s
    <3>3. Struct(conns, k, acking)  BY <1>1, <3>1, StructTake DEF s
    <3> HIDE DEF k
    <3> QED  BY <1>1, <1>2, <2>1, <2>2, <3>1, <3>2, <3>3, StructShut DEF s
  <2> QED  BY <1>1, <2>3, <2>4, <2>5 DEF Conn, Live4
<1>7. CASE Remains(e, c, r, full, o)
  <2>1. /\ Live4(c) /\ r.cn.sta = c.sta /\ r.cn.evnt = c.evnt /\ r.cn.sock = c.sock
        /\ \/ r.k = SockTake(sock, c.sock, e)
           \/ c.sta = "open" /\ r.k = SockWrite(SockTake(sock, c.sock, e), c.sock, e, <<HBeat>>)
    BY <1>7 DEF Remains
  <2>2. s # 0  BY <1>1, <2>1 DEF ShapeOf, s, Live4
  <2>3. ShapeOf(e, r.cn)  BY <1>1, <2>1 DEF ShapeOf
  <2> DEFINE k == SockTake(sock, s, e)
  <2>4. Struct(conns, k, acking)  BY <1>1, <2>2, StructTake DEF s
  <2> HIDE DEF k
  <2>5. Struct(conns, r.k, acking)
    <3>1. CASE r.k = k  BY <2>4, <3>1
    <3>2. CASE c.sta = "open" /\ r.k = SockWrite(k, s, e, <<HBeat>>)
      <4>1. <<HBeat>> \in Seq(Msg) /\ \A j \in DOMAIN <<HBeat>> : <<HBeat>>[j].code \in {"hbeat", "data"}
        BY DEF HBeat, Msg
      <4> QED  BY <1>1, <2>2, <2>4, <3>2, <4>1, StructWrite DEF s
    <3> QED  BY <2>1, <3>1, <3>2 DEF k, s
  <2>6. HasSock(e, c, r.k[s], acking)  BY <2>2, <2>5, StructConn DEF s
  <2>7. HasSock(e, r.cn, r.k[r.cn.sock], acking)  BY <2>1, <2>6 DEF HasSock, s
  <2> QED  BY <1>2, <2>1, <2>3, <2>5, <2>7, StructTurn
<1>8. CASE Opened(e, c, r, full, o)
  <2>1. /\ c.sta = "init" /\ Acked(Msgs(e, c))
        /\ r.cn.sta = "open" /\ r.cn.evnt = "HBEAT" /\ r.cn.sock = c.sock
        /\ r.k = SockTake(sock, c.sock, e)
    BY <1>8 DEF Opened
  <2>2. s # 0 /\ e = "cli"  BY <1>1, <2>1 DEF ShapeOf, s, Ends
  <2>3. ShapeOf(e, r.cn)  BY <1>1, <2>1 DEF ShapeOf
  <2>4. "cli" \in sock[s].up  BY <1>1, <2>2 DEF HasSock
  <2>5. ~sock[s].cut /\ sock[s].at = "conn" /\ AckIn(sock[s])
    BY <1>0, <1>1, <2>1, <2>2, <2>4, AckedReads DEF s, Msgs
  <2>6. acking # s  BY <1>1, <2>2, <2>5 DEF SockOK
  <2> DEFINE k == SockTake(sock, s, e)
  <2>7. Struct(conns, k, acking)  BY <1>1, <2>2, StructTake DEF s
  <2>8. k[s].up = sock[s].up /\ k[s].at = "conn" /\ k[s].in["cli"] = << >>
    <3>0. k = [sock EXCEPT ![s] = Emptied(sock[s], e)]  BY <1>0, <1>1, <2>2, OneSock
    <3>1. k[s] = Emptied(sock[s], e)  BY <1>0, <1>1, <2>2, <3>0 DEF Net
    <3> QED  BY <1>1, <2>2, <2>5, <3>1, EmptiedIs
  <2> HIDE DEF k
  <2>9. HasSock(e, r.cn, k[s], acking)
    <3>1. ~AckIn(k[s])  BY <2>8 DEF AckIn
    <3> QED  BY <2>1, <2>2, <2>4, <2>6, <2>8, <3>1 DEF HasSock, s
  <2>10. r.k = k /\ r.cn.sock = s  BY <2>1 DEF k, s
  <2> QED  BY <1>2, <2>1, <2>3, <2>7, <2>9, <2>10, StructTurn
<1> QED  BY <1>3, <1>4, <1>5, <1>6, <1>7, <1>8 DEF Outcome

CountedIn(cns) == {i \in DOMAIN cns : cns[i].evnt = "HBEAT"}
Counts ==
  /\ stale["cli"] = 0
  /\ \A e \in Ends : openCnt[e] = Cardinality(CountedIn(conns[e])) + stale[e]

LEMMA CountFinite ==
  ASSUME NEW cns \in Seq(Conn)
  PROVE  IsFiniteSet(CountedIn(cns)) /\ Cardinality(CountedIn(cns)) \in Nat
<1>1. CountedIn(cns) \subseteq 1 .. Len(cns)  BY DEF CountedIn
<1>2. IsFiniteSet(1 .. Len(cns))  BY FS_Interval
<1>3. IsFiniteSet(CountedIn(cns))  BY <1>1, <1>2, FS_Subset
<1> QED  BY <1>3, FS_CardinalityType

LEMMA CountPut ==
  ASSUME NEW cns \in Seq(Conn), NEW i \in DOMAIN cns, NEW q \in Seq(Conn), DOMAIN q = DOMAIN cns,
         \A j \in DOMAIN cns : j # i => q[j] = cns[j]
  PROVE  /\ (q[i].evnt = "HBEAT" <=> cns[i].evnt = "HBEAT") => CountedIn(q) = CountedIn(cns)
         /\ q[i].evnt = "HBEAT" /\ cns[i].evnt # "HBEAT" =>
              Cardinality(CountedIn(q)) = Cardinality(CountedIn(cns)) + 1
         /\ q[i].evnt # "HBEAT" /\ cns[i].evnt = "HBEAT" =>
              Cardinality(CountedIn(q)) = Cardinality(CountedIn(cns)) - 1
<1>1. (q[i].evnt = "HBEAT" <=> cns[i].evnt = "HBEAT") => CountedIn(q) = CountedIn(cns)
  BY DEF CountedIn
<1>2. IsFiniteSet(CountedIn(cns)) /\ IsFiniteSet(CountedIn(q))  BY CountFinite
<1>3. ASSUME q[i].evnt = "HBEAT", cns[i].evnt # "HBEAT"
      PROVE  Cardinality(CountedIn(q)) = Cardinality(CountedIn(cns)) + 1
  <2>1. CountedIn(q) = CountedIn(cns) \cup {i} /\ i \notin CountedIn(cns)  BY <1>3 DEF CountedIn
  <2> QED  BY <1>2, <2>1, FS_AddElement
<1>4. ASSUME q[i].evnt # "HBEAT", cns[i].evnt = "HBEAT"
      PROVE  Cardinality(CountedIn(q)) = Cardinality(CountedIn(cns)) - 1
  <2>1. CountedIn(q) = CountedIn(cns) \ {i} /\ i \in CountedIn(cns)  BY <1>4 DEF CountedIn
  <2> QED  BY <1>2, <2>1, FS_RemoveElement
<1> QED  BY <1>1, <1>3, <1>4

-----------------------------------------------------------------------------
(* The counts are exact *)

CntInv == LinkTypes /\ Struct(conns, sock, acking) /\ Counts

LEMMA CntInit ==
  ASSUME LinkInit
  PROVE  CntInv
<1>1. OwnConn \in Conn /\ ShapeOf("cli", OwnConn) /\ OwnConn.sock = 0 /\ OwnConn.evnt = "CONN"
  BY DEF OwnConn, Conn, ShapeOf
<1>2. /\ OwnConns \in Seq(Conn) /\ Len(OwnConns) = ConnCnt
      /\ \A i \in DOMAIN OwnConns : OwnConns[i] = OwnConn
  <2>1. OwnConns \in [1 .. ConnCnt -> Conn]  BY <1>1 DEF OwnConns
  <2>2. ConnCnt \in Nat  BY LinkAssumption
  <2> QED  BY <2>1, <2>2 DEF OwnConns
<1>3. conns["cli"] = OwnConns /\ conns["srv"] = << >> /\ conns \in [Ends -> Seq(Conn)]
  <2>1. << >> \in Seq(Conn)  OBVIOUS
  <2> QED  BY <1>2, <2>1 DEF LinkInit, Ends
<1>4. sock \in Net /\ \A s \in Socks : sock[s] = noSock  BY NoSockIs DEF LinkInit, Net
<1>5. LinkTypes
  <2>1. MaxFault \in 0 .. MaxFault /\ 0 \notin Socks /\ ConnCnt \in Nat  BY LinkAssumption
  <2>2. \A e \in Ends : pos[e] >= ReadsTick /\ pos[e] =< Len(conns[e]) /\ lag[e] = 0
    <3>1. \A e \in Ends : pos[e] = 0 /\ Len(conns[e]) \in Nat /\ lag[e] = 0  BY <1>3 DEF LinkInit
    <3> QED  BY <3>1 DEF ReadsTick
  <2>3. [e \in Ends |-> << >>] \in [Ends -> Seq(Nat)]  OBVIOUS
  <2>4. sndTq \in [Ends -> Seq(Nat)]  BY <2>3 DEF LinkInit
  <2>5. /\ pos \in [Ends -> Int] /\ lag \in [Ends -> Nat] /\ openCnt \in [Ends -> Int] /\ stale \in [Ends -> Int]
        /\ rcvd \in [Ends -> SUBSET Nat] /\ sure \in [Ends -> SUBSET Nat]
        /\ sent \in [Ends -> Nat] /\ key \in [Ends -> Nat] /\ acking \in Socks \cup {0}
        /\ served \in SUBSET Ends /\ faultCnt \in 0 .. MaxFault
        /\ late \in BOOLEAN /\ calm \in BOOLEAN /\ ahead \in BOOLEAN /\ tooOld \in BOOLEAN
    <3>1. /\ pos \in [Ends -> Int] /\ lag \in [Ends -> Nat] /\ openCnt \in [Ends -> Int] /\ stale \in [Ends -> Int]
          /\ sent \in [Ends -> Nat] /\ key \in [Ends -> Nat]
      BY DEF LinkInit
    <3>2. {} \in SUBSET Nat  OBVIOUS
    <3>3. rcvd \in [Ends -> SUBSET Nat] /\ sure \in [Ends -> SUBSET Nat]
      BY <3>2 DEF LinkInit
    <3> QED  BY <2>1, <3>1, <3>3 DEF LinkInit
  <2> QED  BY <1>2, <1>3, <1>4, <2>2, <2>4, <2>5 DEF LinkTypes
<1>6. Struct(conns, sock, acking)
  <2>1. \A e \in Ends : \A i \in DOMAIN conns[e] :
          e = "cli" /\ conns[e][i] = OwnConn
    BY <1>2, <1>3 DEF Ends
  <2>2. \A e \in Ends : \A i \in DOMAIN conns[e] : ConnOK(e, conns[e][i], sock, acking)
    BY <1>1, <2>1 DEF ConnOK
  <2>3. \A e \in Ends : \A i, j \in DOMAIN conns[e] :
          conns[e][i].sock = conns[e][j].sock /\ conns[e][i].sock # 0 => i = j
    BY <1>1, <2>1
  <2>4. \A s \in Socks : SockOK(s, sock[s], acking)  BY <1>4, NoSockOK
  <2> QED  BY <1>3, <1>4, <2>2, <2>3, <2>4 DEF Struct, LinkInit
<1>7. Counts
  <2>1. CountedIn(conns["cli"]) = {} /\ CountedIn(conns["srv"]) = {}
    BY <1>1, <1>2, <1>3 DEF CountedIn
  <2>2. stale["cli"] = 0 /\ stale["srv"] = 0 /\ openCnt["cli"] = 0 /\ openCnt["srv"] = 0
    BY DEF LinkInit, Ends
  <2> QED  BY <2>1, <2>2, FS_EmptySet DEF Counts, Ends
<1> QED  BY <1>5, <1>6, <1>7 DEF CntInv

(* What a pass over a connection leaves alone, and the types it keeps. *)
LEMMA PassFrame ==
  ASSUME LinkTypes, NEW e \in Ends, NEW wr, NEW ok, NEW full \in BOOLEAN, ConnPass(e, wr, ok, full)
  PROVE  /\ UNCHANGED <<sndTq, sent, acking, key, late, stale, sure>>
         /\ calm' \in BOOLEAN /\ ahead' \in BOOLEAN /\ tooOld' \in BOOLEAN
         /\ full => faultCnt > 0
         /\ faultCnt' = IF full THEN faultCnt - 1 ELSE faultCnt
         /\ pos[e] > 0
         /\ pos[e] = Len(conns[e]) => Served(e)
         /\ pos[e] # Len(conns[e]) => pos' = [pos EXCEPT ![e] = @ + 1] /\ UNCHANGED <<lag, served>>
<1>1. /\ pos[e] > 0 /\ UNCHANGED <<sndTq, sent, acking, key, late, stale, sure>>
      /\ IF pos[e] = Len(conns[e]) THEN Served(e)
         ELSE pos' = [pos EXCEPT ![e] = @ + 1] /\ UNCHANGED <<lag, served>>
  BY DEF ConnPass
<1>2. full => faultCnt > 0  BY DEF ConnPass
<1>3. faultCnt' = IF full THEN faultCnt - 1 ELSE faultCnt  BY DEF ConnPass
<1>4. calm' \in BOOLEAN /\ ahead' \in BOOLEAN /\ tooOld' \in BOOLEAN  BY DEF ConnPass
<1> QED  BY <1>1, <1>2, <1>3, <1>4

LEMMA ServedIs ==
  ASSUME pos \in [Ends -> Int], lag \in [Ends -> Nat], served \in SUBSET Ends, NEW e \in Ends, Served(e)
  PROVE  /\ pos' \in [Ends -> Int] /\ pos'[e] = 0 /\ served' \in SUBSET Ends
         /\ lag' \in [Ends -> Nat] /\ lag'[e] = 0 /\ e \in served'
         /\ \A f \in Ends : f # e => pos'[f] = pos[f]
         /\ \A f \in Ends : f # e => lag'[f] = lag[f]
         /\ \A f \in Ends : f # e => (f \in served' <=> f \in served)
<1>1. pos' = [pos EXCEPT ![e] = 0] /\ lag' = [lag EXCEPT ![e] = 0] /\ served' = served \cup {e}
  BY DEF Served
<1>2. pos' \in [Ends -> Int] /\ pos'[e] = 0 /\ \A f \in Ends : f # e => pos'[f] = pos[f]
  BY <1>1
<1>3. lag' \in [Ends -> Nat] /\ lag'[e] = 0 /\ \A f \in Ends : f # e => lag'[f] = lag[f]
  BY <1>1
<1>4. served' \in SUBSET Ends /\ e \in served' /\ \A f \in Ends : f # e => (f \in served' <=> f \in served)
  BY <1>1
<1> QED  BY <1>2, <1>3, <1>4

(* Data is received only as it is in the network. *)
LEMMA GotIs ==
  ASSUME LinkTypes, Struct(conns, sock, acking), NEW e \in Ends, NEW c \in Conn,
         ShapeOf(e, c), NEW r, NEW full \in BOOLEAN, NEW o, Outcome(e, c, r, full, o)
  PROVE  r.got \in SUBSET Nat
<1>1. rcvd[e] \in SUBSET Nat /\ sock \in Net  BY DEF LinkTypes
<1>2. ASSUME Live4(c) PROVE DataOf(Msgs(e, c)) \subseteq Nat
  <2>1. c.sock \in Socks  BY <1>2 DEF Live4, ShapeOf, Conn
  <2>2. SockRead(sock, c.sock, e) \in Seq(Msg)  BY <1>1, <2>1 DEF SockRead, Net, SockRec
  <2>3. \A m \in Msgs(e, c) : m \in Msg  BY <2>2 DEF Msgs, Got, Taken
  <2> QED  BY <2>3 DEF DataOf, Msg
<1>3. r.got = rcvd[e] \/ (Live4(c) /\ r.got = GotFed(rcvd[e], Msgs(e, c), full))
  BY DEF Outcome, Idled, Dialled, Asked, Dropped, Remains, Opened, Live4
<1>4. ASSUME Live4(c) PROVE GotFed(rcvd[e], Msgs(e, c), full) \subseteq Nat
  BY <1>1, <1>2, <1>4 DEF GotFed
<1> QED  BY <1>1, <1>3, <1>4

LEMMA ConnPassCnt ==
  ASSUME CntInv, NEW e \in Ends, NEW wr \in BOOLEAN, NEW ok \in BOOLEAN, NEW full \in BOOLEAN,
         ConnPass(e, wr, ok, full)
  PROVE  CntInv'
<1> USE DEF CntInv
<1> DEFINE i == pos[e]  c == conns[e][i]  o == lag[e]
<1>1. i \in DOMAIN conns[e]
  <2>1. pos[e] \in Int /\ pos[e] > 0 /\ pos[e] =< Len(conns[e]) /\ conns[e] \in Seq(Conn)
    BY DEF LinkTypes, ConnPass
  <2> QED  BY <2>1
<1>2. c \in Conn /\ ShapeOf(e, c)  BY <1>1, StructConn
<1>3. PICK r : /\ r.cn \in Conn /\ r.cnt \in Int
               /\ conns' = Put(conns, e, i, r.cn)
               /\ openCnt' = [openCnt EXCEPT ![e] = r.cnt]
               /\ sock' = r.k
               /\ rcvd' = [rcvd EXCEPT ![e] = r.got]
               /\ Outcome(e, c, r, full, o)
  BY <1>2, PassCases DEF Put
<1> HIDE DEF c, i, o
<1>4. /\ UNCHANGED <<sndTq, sent, acking, key, late, stale, sure>>
      /\ calm' \in BOOLEAN /\ ahead' \in BOOLEAN /\ tooOld' \in BOOLEAN
      /\ full => faultCnt > 0
      /\ faultCnt' = IF full THEN faultCnt - 1 ELSE faultCnt
      /\ i = Len(conns[e]) => Served(e)
      /\ i # Len(conns[e]) => pos' = [pos EXCEPT ![e] = @ + 1] /\ UNCHANGED <<lag, served>>
  BY PassFrame DEF i
<1>5. Struct(conns', sock', acking')
  <2>1. Struct(Put(conns, e, i, r.cn), r.k, acking)
    BY <1>1, <1>3, PassStruct DEF c, i
  <2> QED  BY <1>3, <1>4, <2>1
<1>6. IsPut(conns', conns, e, i, r.cn)
  <2>1. conns \in [Ends -> Seq(Conn)]  BY DEF LinkTypes
  <2> QED  BY <1>1, <1>3, <2>1, PutIs
<1>7. LinkTypes'
  <2>1. conns' \in [Ends -> Seq(Conn)] /\ sock' \in Net  BY <1>5 DEF Struct
  <2>2. \A f \in Ends : Len(conns'[f]) = Len(conns[f])  BY <1>6 DEF IsPut
  <2>3. /\ pos' \in [Ends -> Int] /\ lag' \in [Ends -> Nat] /\ served' \in SUBSET Ends
        /\ \A f \in Ends : pos'[f] >= ReadsTick /\ pos'[f] =< Len(conns[f]) /\ (pos'[f] =< 0 => lag'[f] = 0)
    <3>1. /\ pos \in [Ends -> Int] /\ lag \in [Ends -> Nat] /\ served \in SUBSET Ends
          /\ \A f \in Ends : pos[f] >= ReadsTick /\ pos[f] =< Len(conns[f]) /\ (pos[f] =< 0 => lag[f] = 0)
      BY DEF LinkTypes
    <3>2. Len(conns[e]) \in Nat  BY DEF LinkTypes
    <3>3. CASE i = Len(conns[e])
      <4>1. /\ pos' \in [Ends -> Int] /\ pos'[e] = 0 /\ served' \in SUBSET Ends
            /\ lag' \in [Ends -> Nat] /\ lag'[e] = 0
            /\ \A f \in Ends : f # e => pos'[f] = pos[f]
            /\ \A f \in Ends : f # e => lag'[f] = lag[f]
        <5>1. Served(e)  BY <1>4, <3>3
        <5> QED  BY <3>1, <5>1, ServedIs
      <4>2. ASSUME NEW f \in Ends
            PROVE  pos'[f] >= ReadsTick /\ pos'[f] =< Len(conns[f]) /\ (pos'[f] =< 0 => lag'[f] = 0)
        <5>1. CASE f = e  BY <3>2, <4>1, <5>1 DEF ReadsTick
        <5>2. CASE f # e  BY <3>1, <4>1, <5>2
        <5> QED  BY <5>1, <5>2
      <4> QED  BY <4>1, <4>2
    <3>4. CASE i # Len(conns[e])
      <4>1. pos[e] > 0 /\ pos' = [pos EXCEPT ![e] = i + 1] /\ UNCHANGED <<lag, served>> /\ i = pos[e]
        BY <1>1, <1>4, <3>1, <3>4, PassFrame DEF i
      <4>2. i + 1 \in Int /\ i + 1 > 0 /\ i + 1 =< Len(conns[e])  BY <3>1, <3>2, <3>4, <4>1
      <4> QED  BY <3>1, <3>2, <4>1, <4>2 DEF ReadsTick
    <3> QED  BY <3>3, <3>4
  <2>4. rcvd' \in [Ends -> SUBSET Nat]
    <3>1. r.got \in SUBSET Nat  BY <1>2, <1>3, GotIs
    <3> QED  BY <1>3, <3>1 DEF LinkTypes
  <2>5. openCnt' \in [Ends -> Int]  BY <1>3 DEF LinkTypes
  <2>6. faultCnt' \in 0 .. MaxFault
    <3>1. faultCnt \in 0 .. MaxFault  BY DEF LinkTypes
    <3> QED  BY <1>4, <3>1, LinkAssumption
  <2>7. "cli" \in Ends  BY DEF Ends
  <2> QED  BY <1>4, <2>1, <2>2, <2>3, <2>4, <2>5, <2>6, <2>7 DEF LinkTypes
<1>8. Counts'
  <2> DEFINE old == Cardinality(CountedIn(conns[e]))  new == Cardinality(CountedIn(conns'[e]))
  <2>1. /\ conns[e] \in Seq(Conn) /\ conns'[e] \in Seq(Conn) /\ DOMAIN conns'[e] = DOMAIN conns[e]
        /\ \A j \in DOMAIN conns[e] : j # i => conns'[e][j] = conns[e][j]
        /\ conns'[e][i] = r.cn
    BY <1>6 DEF IsPut, LinkTypes
  <2>2. /\ (r.cn.evnt = "HBEAT" <=> c.evnt = "HBEAT") => new = old
        /\ r.cn.evnt = "HBEAT" /\ c.evnt # "HBEAT" => new = old + 1
        /\ r.cn.evnt # "HBEAT" /\ c.evnt = "HBEAT" => new = old - 1
    <3>1. /\ (conns'[e][i].evnt = "HBEAT" <=> conns[e][i].evnt = "HBEAT") =>
                 CountedIn(conns'[e]) = CountedIn(conns[e])
          /\ conns'[e][i].evnt = "HBEAT" /\ conns[e][i].evnt # "HBEAT" =>
                 Cardinality(CountedIn(conns'[e])) = Cardinality(CountedIn(conns[e])) + 1
          /\ conns'[e][i].evnt # "HBEAT" /\ conns[e][i].evnt = "HBEAT" =>
                 Cardinality(CountedIn(conns'[e])) = Cardinality(CountedIn(conns[e])) - 1
      BY <1>1, <2>1, CountPut
    <3> QED  BY <2>1, <3>1 DEF c
  <2>3. \A f \in Ends : f # e => CountedIn(conns'[f]) = CountedIn(conns[f])
    <3>1. ASSUME NEW f \in Ends, f # e PROVE conns'[f] = conns[f]
      BY <1>3, <3>1 DEF Put, LinkTypes
    <3> QED  BY <3>1
  <2>4. old \in Nat /\ openCnt[e] = old + stale[e] /\ stale[e] \in Int /\ openCnt[e] \in Int
    BY <2>1, CountFinite DEF Counts, LinkTypes
  <2> HIDE DEF old, new
  <2>5. /\ (r.cn.evnt = "HBEAT" <=> c.evnt = "HBEAT") => r.cnt = openCnt[e]
        /\ r.cn.evnt = "HBEAT" /\ c.evnt # "HBEAT" => r.cnt = openCnt[e] + 1
        /\ r.cn.evnt # "HBEAT" /\ c.evnt = "HBEAT" => r.cnt = openCnt[e] - 1
    <3>1. CASE Idled(e, c, r)  BY <3>1 DEF Idled
    <3>2. CASE Dialled(e, c, r)  BY <3>2 DEF Dialled
    <3>3. CASE Asked(e, c, r)  BY <1>2, <3>3 DEF Asked, ShapeOf
    <3>4. CASE Dropped(e, c, r, full)
      <4>1. c.sta = "init" => ~(Fails(c, sock, e) /\ Acked(Msgs(e, c)))
        BY <1>1, <1>3, PassStruct DEF c, i
      <4>2. r.cn.evnt # "HBEAT"  BY <3>4 DEF Dropped
      <4>3. ~(c.sta = "init" /\ Acked(Msgs(e, c)))  BY <3>4, <4>1 DEF Dropped
      <4>4. r.cnt = IF c.evnt = "HBEAT" THEN openCnt[e] - 1 ELSE openCnt[e]
        BY <3>4, <4>3 DEF Dropped
      <4> QED  BY <4>2, <4>4
    <3>5. CASE Remains(e, c, r, full, o)  BY <3>5 DEF Remains
    <3>6. CASE Opened(e, c, r, full, o)  BY <1>2, <3>6 DEF Opened, ShapeOf
    <3> QED  BY <1>3, <3>1, <3>2, <3>3, <3>4, <3>5, <3>6 DEF Outcome
  <2>6. r.cnt = new + stale[e]  BY <2>2, <2>4, <2>5
  <2>7. \A f \in Ends : openCnt'[f] = IF f = e THEN r.cnt ELSE openCnt[f]
    BY <1>3 DEF LinkTypes
  <2>8. stale' = stale  BY <1>4
  <2>9. \A f \in Ends : openCnt'[f] = Cardinality(CountedIn(conns'[f])) + stale'[f]
    <3>1. ASSUME NEW f \in Ends PROVE openCnt'[f] = Cardinality(CountedIn(conns'[f])) + stale'[f]
      <4>1. CASE f = e  BY <2>6, <2>7, <2>8, <4>1 DEF new
      <4>2. CASE f # e  BY <2>3, <2>7, <2>8, <4>2 DEF Counts
      <4> QED  BY <4>1, <4>2
    <3> QED  BY <3>1
  <2> QED  BY <2>8, <2>9 DEF Counts
<1> QED  BY <1>5, <1>7, <1>8

LEMMA PickIs ==
  ASSUME LinkTypes, NEW e \in Ends
  PROVE  /\ OpenConns(e) = {} <=> Pick(e) = 0
         /\ Pick(e) # 0 => /\ Pick(e) \in OpenConns(e) /\ \A j \in OpenConns(e) : Pick(e) =< j
                           /\ Pick(e) \in DOMAIN conns[e] /\ conns[e][Pick(e)].sta = "open"
<1>1. conns[e] \in Seq(Conn)  BY DEF LinkTypes
<1>2. OpenConns(e) \subseteq Nat /\ 0 \notin OpenConns(e)  BY <1>1 DEF OpenConns
<1>3. CASE OpenConns(e) = {}  BY <1>3 DEF Pick
<1>4. CASE OpenConns(e) # {}
  <2>1. \E i \in OpenConns(e) : \A j \in OpenConns(e) : i =< j  BY <1>2, <1>4, LeastSock
  <2>2. Pick(e) = CHOOSE i \in OpenConns(e) : \A j \in OpenConns(e) : i =< j  BY <1>4 DEF Pick
  <2>3. Pick(e) \in OpenConns(e) /\ \A j \in OpenConns(e) : Pick(e) =< j  BY <2>1, <2>2
  <2> QED  BY <1>2, <1>4, <2>3 DEF OpenConns
<1> QED  BY <1>3, <1>4

Queued(e) == [j \in 1 .. Len(sndTq[e]) |-> Data(sndTq[e][j])]

LEMMA QueuedIs ==
  ASSUME LinkTypes, NEW e \in Ends
  PROVE  /\ Queued(e) \in Seq(Msg)
         /\ \A j \in DOMAIN Queued(e) : Queued(e)[j].code \in {"hbeat", "data"}
         /\ \A n \in ToSet(sndTq[e]) : Data(n) \in ToSet(Queued(e))
<1>1. sndTq[e] \in Seq(Nat)  BY DEF LinkTypes
<1>2. \A j \in 1 .. Len(sndTq[e]) : Data(sndTq[e][j]) \in Msg  BY <1>1 DEF Data, Msg
<1>3. Queued(e) \in Seq(Msg)  BY <1>1, <1>2 DEF Queued
<1>4. \A j \in DOMAIN Queued(e) : Queued(e)[j].code = "data"  BY DEF Queued, Data
<1>5. ASSUME NEW n \in ToSet(sndTq[e]) PROVE Data(n) \in ToSet(Queued(e))
  <2>1. PICK j \in DOMAIN sndTq[e] : sndTq[e][j] = n  BY DEF ToSet
  <2>2. j \in DOMAIN Queued(e) /\ Queued(e)[j] = Data(n)  BY <1>1, <2>1 DEF Queued
  <2> QED  BY <2>2 DEF ToSet
<1> QED  BY <1>3, <1>4, <1>5

(* What is sent goes over one connection, which is closed when that fails. *)
Carried(e, i, d) ==
  /\ i = Pick(e) /\ conns[e][i].sta = "open"
  /\ conns' = Put(conns, e, i, d)
  /\ d.evnt = "HBEAT" /\ d.due = HBeatSndTm /\ d.age = conns[e][i].age
  /\ \/ /\ d.sta = "open" /\ d.sock = conns[e][i].sock
        /\ sock' = SockWrite(sock, conns[e][i].sock, e, Queued(e))
     \/ /\ d.sta = "closed" /\ d.sock = 0
        /\ sock' = SockClose(sock, conns[e][i].sock, e)
        /\ CanWrite(sock, conns[e][i].sock, e, FALSE)
LEMMA SndCases ==
  ASSUME LinkTypes, NEW e \in Ends, NEW wr \in BOOLEAN, SndPass(e, wr)
  PROVE  /\ pos[e] = 0 /\ sndTq' = [sndTq EXCEPT ![e] = << >>] /\ pos' = [pos EXCEPT ![e] = ReadsTick]
         /\ UNCHANGED <<openCnt, lag, rcvd, sent, acking, key, served, faultCnt, late, calm, stale, ahead, tooOld, sure>>
         /\ \/ (OpenConns(e) = {} \/ sndTq[e] = << >>) /\ UNCHANGED <<conns, sock>>
            \/ /\ OpenConns(e) # {} /\ sndTq[e] # << >>
               /\ \E i \in DOMAIN conns[e], d \in Conn : Carried(e, i, d)
<1> DEFINE i == Pick(e)
           cn == conns[e][i]
           x == IF wr THEN cn ELSE Lost(cn)
           d == Timer(x, "HBEAT", HBeatSndTm)
<1>1. /\ pos[e] = 0 /\ sndTq' = [sndTq EXCEPT ![e] = << >>] /\ pos' = [pos EXCEPT ![e] = ReadsTick]
      /\ UNCHANGED <<openCnt, lag, rcvd, sent, acking, key, served, faultCnt, late, calm, stale, ahead, tooOld, sure>>
      /\ i = 0 \/ sndTq[e] = << >> => UNCHANGED <<conns, sock>>
      /\ ~(i = 0 \/ sndTq[e] = << >>) =>
           /\ CanWrite(sock, cn.sock, e, wr)
           /\ conns' = [conns EXCEPT ![e] = [@ EXCEPT ![i] = d]]
           /\ sock' = IF wr THEN SockWrite(sock, cn.sock, e, Queued(e)) ELSE SockClose(sock, cn.sock, e)
  BY DEF SndPass, Queued
<1>2. OpenConns(e) = {} <=> i = 0  BY PickIs
<1>3. ASSUME ~(i = 0 \/ sndTq[e] = << >>)
      PROVE  /\ OpenConns(e) # {} /\ i \in DOMAIN conns[e] /\ d \in Conn /\ cn.sta = "open"
             /\ d.evnt = "HBEAT" /\ d.due = HBeatSndTm /\ d.age = cn.age
             /\ wr => d.sta = "open" /\ d.sock = cn.sock
             /\ ~wr => d.sta = "closed" /\ d.sock = 0
  <2>1. OpenConns(e) # {} /\ i \in DOMAIN conns[e] /\ cn.sta = "open"  BY <1>3, PickIs
  <2>2. cn \in Conn  BY <2>1 DEF LinkTypes
  <2> HIDE DEF cn, i
  <2>3. x \in Conn /\ x.age = cn.age  BY <2>2 DEF Lost, Conn
  <2>4. (wr => x = cn) /\ (~wr => x.sta = "closed" /\ x.sock = 0)  BY <2>2 DEF Lost, Conn
  <2> HIDE DEF x
  <2>5. d \in Conn /\ d.sta = x.sta /\ d.sock = x.sock  BY <2>3, TimesAreInt DEF Timer, Conn
  <2>6. d.evnt = "HBEAT" /\ d.due = HBeatSndTm /\ d.age = x.age  BY <2>3 DEF Timer, Conn
  <2> QED  BY <2>1, <2>3, <2>4, <2>5, <2>6
<1> HIDE DEF d, i, x
<1>4. CASE i = 0 \/ sndTq[e] = << >>  BY <1>1, <1>2, <1>4
<1>5. CASE ~(i = 0 \/ sndTq[e] = << >>)
  <2>1. conns' = Put(conns, e, i, d)  BY <1>1, <1>5 DEF Put
  <2>2. \/ /\ d.sta = "open" /\ d.sock = conns[e][i].sock
           /\ sock' = SockWrite(sock, conns[e][i].sock, e, Queued(e))
        \/ /\ d.sta = "closed" /\ d.sock = 0
           /\ sock' = SockClose(sock, conns[e][i].sock, e)
           /\ CanWrite(sock, conns[e][i].sock, e, FALSE)
    <3>1. CASE wr  BY <1>1, <1>3, <1>5, <3>1
    <3>2. CASE ~wr
      <4>1. wr = FALSE  BY <3>2
      <4> QED  BY <1>1, <1>3, <1>5, <4>1
    <3> QED  BY <3>1, <3>2
  <2>3. i = Pick(e)  BY DEF i
  <2>4. Carried(e, i, d)  BY <1>3, <1>5, <2>1, <2>2, <2>3 DEF Carried, i
  <2> QED  BY <1>1, <1>3, <1>5, <2>4
<1> QED  BY <1>4, <1>5

(* Counts do not change when no timer does. *)
LEMMA CountsKept ==
  ASSUME Counts, UNCHANGED <<openCnt, stale>>,
         \A e \in Ends : CountedIn(conns'[e]) = CountedIn(conns[e])
  PROVE  Counts'
  BY DEF Counts

LEMMA SndPassCnt ==
  ASSUME CntInv, NEW e \in Ends, NEW wr \in BOOLEAN, SndPass(e, wr)
  PROVE  CntInv'
<1> USE DEF CntInv
<1>1. /\ pos[e] = 0 /\ sndTq' = [sndTq EXCEPT ![e] = << >>] /\ pos' = [pos EXCEPT ![e] = ReadsTick]
      /\ UNCHANGED <<openCnt, lag, rcvd, sent, acking, key, served, faultCnt, late, calm, stale, ahead, tooOld, sure>>
  BY SndCases
<1>2. /\ Struct(conns', sock', acking)
      /\ \A f \in Ends : Len(conns'[f]) = Len(conns[f])
      /\ \A f \in Ends : CountedIn(conns'[f]) = CountedIn(conns[f])
  <2>1. CASE UNCHANGED <<conns, sock>>  BY <2>1
  <2>2. ASSUME NEW i \in DOMAIN conns[e], NEW d \in Conn, conns[e][i].sta = "open",
               conns' = Put(conns, e, i, d), d.evnt = "HBEAT",
               \/ /\ d.sta = "open" /\ d.sock = conns[e][i].sock
                  /\ sock' = SockWrite(sock, conns[e][i].sock, e, Queued(e))
               \/ /\ d.sta = "closed" /\ d.sock = 0
                  /\ sock' = SockClose(sock, conns[e][i].sock, e)
        PROVE  /\ Struct(conns', sock', acking)
               /\ \A f \in Ends : Len(conns'[f]) = Len(conns[f])
               /\ \A f \in Ends : CountedIn(conns'[f]) = CountedIn(conns[f])
    <3> DEFINE c == conns[e][i]
    <3>1. c \in Conn /\ ShapeOf(e, c) /\ c.sta = "open"  BY <2>2, StructConn
    <3>2. c.sock # 0 /\ c.evnt = "HBEAT"  BY <3>1 DEF ShapeOf
    <3>3. c.sock \in Socks /\ HasSock(e, c, sock[c.sock], acking)  BY <3>2, StructConn
    <3>4. Struct(conns', sock', acking)
      <4>1. CASE d.sta = "open" /\ d.sock = c.sock /\ sock' = SockWrite(sock, c.sock, e, Queued(e))
        <5>1. /\ Queued(e) \in Seq(Msg)
              /\ \A j \in DOMAIN Queued(e) : Queued(e)[j].code \in {"hbeat", "data"}
          BY QueuedIs
        <5>2. Struct(conns, sock', acking)  BY <3>1, <3>3, <4>1, <5>1, StructWrite
        <5>3. ShapeOf(e, d)  BY <2>2, <3>1, <3>2, <4>1 DEF ShapeOf
        <5>4. HasSock(e, c, sock'[c.sock], acking)  BY <3>2, <5>2, StructConn
        <5>5. HasSock(e, d, sock'[d.sock], acking)  BY <3>1, <4>1, <5>4 DEF HasSock
        <5>6. Struct(Put(conns, e, i, d), sock', acking)  BY <4>1, <5>2, <5>3, <5>5, StructTurn
        <5> QED  BY <2>2, <5>6
      <4>2. CASE d.sta = "closed" /\ d.sock = 0 /\ sock' = SockClose(sock, c.sock, e)
        <5>1. ShapeOf(e, d)  BY <2>2, <4>2 DEF ShapeOf
        <5>2. Struct(Put(conns, e, i, d), sock', acking)  BY <3>3, <4>2, <5>1, StructShut
        <5> QED  BY <2>2, <5>2
      <4> QED  BY <2>2, <4>1, <4>2
    <3>5. IsPut(conns', conns, e, i, d)
      <4>1. conns \in [Ends -> Seq(Conn)]  BY DEF LinkTypes
      <4> QED  BY <2>2, <4>1, PutIs
    <3>6. \A f \in Ends : CountedIn(conns'[f]) = CountedIn(conns[f])
      BY <2>2, <3>2, <3>5 DEF IsPut, CountedIn
    <3> QED  BY <3>4, <3>5, <3>6 DEF IsPut
  <2>3. UNCHANGED <<conns, sock>> \/ \E i \in DOMAIN conns[e], d \in Conn : Carried(e, i, d)
    BY SndCases
  <2>4. CASE ~UNCHANGED <<conns, sock>>
    <3>1. PICK i \in DOMAIN conns[e], d \in Conn : Carried(e, i, d)  BY <2>3, <2>4
    <3> QED  BY <2>2, <3>1 DEF Carried
  <2> QED  BY <2>1, <2>4
<1>3. LinkTypes'
  <2>1. conns' \in [Ends -> Seq(Conn)] /\ sock' \in Net  BY <1>2 DEF Struct
  <2>2. /\ pos' \in [Ends -> Int]
        /\ \A f \in Ends : pos'[f] >= ReadsTick /\ pos'[f] =< Len(conns[f]) /\ (pos'[f] =< 0 => lag[f] = 0)
    <3>1. /\ pos \in [Ends -> Int]
          /\ \A f \in Ends : pos[f] >= ReadsTick /\ pos[f] =< Len(conns[f]) /\ (pos[f] =< 0 => lag[f] = 0)
      BY DEF LinkTypes
    <3>2. Len(conns[e]) \in Nat /\ ReadsTick \in Int /\ ReadsTick < 0  BY DEF LinkTypes, ReadsTick
    <3> QED  BY <1>1, <3>1, <3>2
  <2>3. sndTq' \in [Ends -> Seq(Nat)]
    <3>1. << >> \in Seq(Nat)  OBVIOUS
    <3> QED  BY <1>1, <3>1 DEF LinkTypes
  <2>4. "cli" \in Ends  BY DEF Ends
  <2> QED  BY <1>1, <1>2, <2>1, <2>2, <2>3, <2>4 DEF LinkTypes
<1>4. Counts'  BY <1>1, <1>2, CountsKept
<1> QED  BY <1>1, <1>2, <1>3, <1>4

LEMMA TickPassCnt ==
  ASSUME CntInv, NEW e \in Ends, TickPass(e)
  PROVE  CntInv'
<1> USE DEF CntInv
<1>1. /\ pos[e] = ReadsTick
      /\ conns[e] = << >> => Served(e)
      /\ conns[e] # << >> => pos' = [pos EXCEPT ![e] = 1] /\ UNCHANGED <<lag, served>>
      /\ UNCHANGED <<conns, openCnt, sndTq, rcvd, sent, sock, acking, key, faultCnt, late, calm, stale, ahead,
                     tooOld, sure>>
  BY DEF TickPass
<1>2. /\ pos' \in [Ends -> Int] /\ lag' \in [Ends -> Nat] /\ served' \in SUBSET Ends
      /\ \A f \in Ends : pos'[f] >= ReadsTick /\ pos'[f] =< Len(conns[f]) /\ (pos'[f] =< 0 => lag'[f] = 0)
  <2>1. /\ pos \in [Ends -> Int] /\ lag \in [Ends -> Nat] /\ served \in SUBSET Ends
        /\ \A f \in Ends : pos[f] >= ReadsTick /\ pos[f] =< Len(conns[f]) /\ (pos[f] =< 0 => lag[f] = 0)
    BY DEF LinkTypes
  <2>2. conns[e] \in Seq(Conn) /\ Len(conns[e]) \in Nat  BY DEF LinkTypes
  <2>3. CASE conns[e] = << >>
    <3>1. /\ pos' \in [Ends -> Int] /\ pos'[e] = 0 /\ served' \in SUBSET Ends
          /\ lag' \in [Ends -> Nat] /\ lag'[e] = 0
          /\ \A f \in Ends : f # e => pos'[f] = pos[f]
          /\ \A f \in Ends : f # e => lag'[f] = lag[f]
      <4>1. Served(e)  BY <1>1, <2>3
      <4> QED  BY <2>1, <4>1, ServedIs
    <3>2. ASSUME NEW f \in Ends
          PROVE  pos'[f] >= ReadsTick /\ pos'[f] =< Len(conns[f]) /\ (pos'[f] =< 0 => lag'[f] = 0)
      <4>1. CASE f = e  BY <2>2, <3>1, <4>1 DEF ReadsTick
      <4>2. CASE f # e  BY <2>1, <3>1, <4>2
      <4> QED  BY <4>1, <4>2
    <3> QED  BY <3>1, <3>2
  <2>4. CASE conns[e] # << >>
    <3>1. 1 =< Len(conns[e])  BY <2>2, <2>4
    <3>2. pos' = [pos EXCEPT ![e] = 1] /\ lag' = lag /\ served' = served  BY <1>1, <2>4
    <3>3. pos' \in [Ends -> Int] /\ pos'[e] = 1 /\ \A f \in Ends : f # e => pos'[f] = pos[f]
      BY <2>1, <3>2
    <3>4. ASSUME NEW f \in Ends
          PROVE  pos'[f] >= ReadsTick /\ pos'[f] =< Len(conns[f]) /\ (pos'[f] =< 0 => lag'[f] = 0)
      <4>1. CASE f = e  BY <3>1, <3>3, <4>1 DEF ReadsTick
      <4>2. CASE f # e  BY <2>1, <3>2, <3>3, <4>2
      <4> QED  BY <4>1, <4>2
    <3> QED  BY <2>1, <3>2, <3>3, <3>4
  <2> QED  BY <2>3, <2>4
<1>3. LinkTypes'  BY <1>1, <1>2 DEF LinkTypes
<1>4. Counts'  BY <1>1 DEF Counts
<1> QED  BY <1>1, <1>3, <1>4

LEMMA SendCnt ==
  ASSUME CntInv, NEW e \in Ends, Send(e)
  PROVE  CntInv'
<1> USE DEF CntInv
<1>1. UNCHANGED <<conns, openCnt, pos, lag, rcvd, sock, acking, key, served, faultCnt, late, calm, stale, ahead, tooOld>>
  BY DEF Send
<1>2. sent[e] \in Nat /\ sent[e] + 1 \in Nat  BY DEF LinkTypes
<1>3. sent' \in [Ends -> Nat] /\ sndTq' \in [Ends -> Seq(Nat)]
  <2>1. sndTq[e] \in Seq(Nat)  BY DEF LinkTypes
  <2>2. Append(sndTq[e], sent[e] + 1) \in Seq(Nat)  BY <1>2, <2>1
  <2> QED  BY <1>2, <2>2 DEF Send, LinkTypes
<1>4. sure' \in [Ends -> SUBSET Nat]
  <2>1. sure \in [Ends -> SUBSET Nat] /\ sure[e] \cup {sent[e] + 1} \in SUBSET Nat
    BY <1>2 DEF LinkTypes
  <2> QED  BY <2>1 DEF Send
<1>5. LinkTypes'  BY <1>1, <1>3, <1>4 DEF LinkTypes
<1>6. Counts'  BY <1>1 DEF Counts
<1> QED  BY <1>1, <1>5, <1>6

LEMMA OneTickIs ==
  ASSUME NEW c \in Conn, NEW o \in Nat
  PROVE  /\ OneTick(c, o) \in Conn /\ OneTick(c, o).sta = c.sta /\ OneTick(c, o).sock = c.sock
         /\ OneTick(c, o).evnt = c.evnt
         /\ OneTick(c, o).due = IF c.due + o > 0 THEN c.due - 1 ELSE c.due
         /\ OneTick(c, o).age = IF c.sta = "open" /\ c.age - o < HBeatTm THEN c.age + 1 ELSE c.age
<1> DEFINE left == IF c.due + o > 0 THEN c.due - 1 ELSE c.due
           old == IF c.sta = "open" /\ c.age - o < HBeatTm THEN c.age + 1 ELSE c.age
<1>1. left \in Int /\ old \in Int
  <2>1. c.due \in Int /\ c.age \in Int  BY DEF Conn
  <2> QED  BY <2>1
<1>2. OneTick(c, o) = [c EXCEPT !.due = left, !.age = old]  BY DEF OneTick, Conn
<1> HIDE DEF left, old
<1>3. OneTick(c, o) \in Conn  BY <1>1, <1>2 DEF Conn
<1>4. OneTick(c, o).sta = c.sta /\ OneTick(c, o).sock = c.sock  BY <1>2 DEF Conn
<1>5. OneTick(c, o).evnt = c.evnt /\ OneTick(c, o).due = left  BY <1>2 DEF Conn
<1>6. OneTick(c, o).age = old  BY <1>2 DEF Conn
<1> QED  BY <1>3, <1>4, <1>5, <1>6 DEF left, old

LEMMA TickIs ==
  ASSUME LinkTypes, NEW lateFlg, LinkTick(lateFlg)
  PROVE  /\ conns' \in [Ends -> Seq(Conn)]
         /\ \A e \in Ends : DOMAIN conns'[e] = DOMAIN conns[e] /\ Len(conns'[e]) = Len(conns[e])
         /\ \A e \in Ends : \A i \in DOMAIN conns[e] : conns'[e][i] = OneTick(conns[e][i], Lag(e))
         /\ lag' \in [Ends -> Nat] /\ \A e \in Ends : lag'[e] = Lag(e) /\ Lag(e) \in Nat
         /\ \A e \in Ends : Lag(e) = IF pos[e] > 0 THEN lag[e] + 1 ELSE 0
<1>1. /\ conns' = [e \in Ends |-> [i \in DOMAIN conns[e] |-> OneTick(conns[e][i], Lag(e))]]
      /\ lag' = [e \in Ends |-> Lag(e)]
  BY DEF LinkTick
<1>0. \A e \in Ends : Lag(e) \in Nat  BY DEF Lag, LinkTypes
<1>2. ASSUME NEW e \in Ends
      PROVE  /\ conns'[e] \in Seq(Conn)
             /\ DOMAIN conns'[e] = DOMAIN conns[e] /\ Len(conns'[e]) = Len(conns[e])
             /\ \A i \in DOMAIN conns[e] : conns'[e][i] = OneTick(conns[e][i], Lag(e))
  <2>1. conns[e] \in Seq(Conn) /\ Len(conns[e]) \in Nat /\ DOMAIN conns[e] = 1 .. Len(conns[e])
    BY DEF LinkTypes
  <2>2. \A i \in DOMAIN conns[e] : OneTick(conns[e][i], Lag(e)) \in Conn
    <3>1. ASSUME NEW i \in DOMAIN conns[e] PROVE OneTick(conns[e][i], Lag(e)) \in Conn
      <4>1. conns[e][i] \in Conn /\ Lag(e) \in Nat  BY <1>0, <2>1
      <4> QED  BY <4>1, OneTickIs
    <3> QED  BY <3>1
  <2>3. conns'[e] = [i \in 1 .. Len(conns[e]) |-> OneTick(conns[e][i], Lag(e))]  BY <1>1, <2>1
  <2>4. conns'[e] \in [1 .. Len(conns[e]) -> Conn]  BY <2>1, <2>2, <2>3
  <2>5. conns'[e] \in Seq(Conn) /\ Len(conns'[e]) = Len(conns[e])  BY <2>1, <2>4
  <2> QED  BY <2>1, <2>3, <2>5
<1>3. conns' \in [Ends -> Seq(Conn)]  BY <1>1, <1>2
<1>4. lag' \in [Ends -> Nat] /\ \A e \in Ends : lag'[e] = Lag(e)  BY <1>0, <1>1
<1>5. \A e \in Ends : Lag(e) = IF pos[e] > 0 THEN lag[e] + 1 ELSE 0  BY DEF Lag
<1> QED  BY <1>0, <1>2, <1>3, <1>4, <1>5

LEMMA TickCnt ==
  ASSUME CntInv, NEW lateFlg \in BOOLEAN, LinkTick(lateFlg)
  PROVE  CntInv'
<1> USE DEF CntInv
<1>1. /\ conns' \in [Ends -> Seq(Conn)]
      /\ \A e \in Ends : DOMAIN conns'[e] = DOMAIN conns[e] /\ Len(conns'[e]) = Len(conns[e])
      /\ \A e \in Ends : \A i \in DOMAIN conns[e] : conns'[e][i] = OneTick(conns[e][i], Lag(e))
      /\ lag' \in [Ends -> Nat] /\ \A e \in Ends : lag'[e] = Lag(e) /\ Lag(e) \in Nat
      /\ \A e \in Ends : Lag(e) = IF pos[e] > 0 THEN lag[e] + 1 ELSE 0
  BY TickIs
<1>2. /\ UNCHANGED <<openCnt, pos, sndTq, rcvd, sent, sock, acking, key, stale, ahead, tooOld, sure>>
      /\ served' = {} /\ late' = (late \/ lateFlg) /\ calm' = (calm /\ ~lateFlg)
      /\ lateFlg \/ InPass => faultCnt > 0
      /\ faultCnt' = IF lateFlg \/ InPass THEN faultCnt - 1 ELSE faultCnt
  BY DEF LinkTick
<1>3. \A e \in Ends : \A i \in DOMAIN conns[e] :
        /\ conns'[e][i].sta = conns[e][i].sta /\ conns'[e][i].sock = conns[e][i].sock
        /\ conns'[e][i].evnt = conns[e][i].evnt
  <2>1. ASSUME NEW e \in Ends, NEW i \in DOMAIN conns[e]
        PROVE  /\ conns'[e][i].sta = conns[e][i].sta /\ conns'[e][i].sock = conns[e][i].sock
               /\ conns'[e][i].evnt = conns[e][i].evnt
    <3>1. conns[e][i] \in Conn  BY DEF LinkTypes
    <3>2. Lag(e) \in Nat /\ conns'[e][i] = OneTick(conns[e][i], Lag(e))  BY <1>1
    <3>3. /\ OneTick(conns[e][i], Lag(e)).sta = conns[e][i].sta
          /\ OneTick(conns[e][i], Lag(e)).sock = conns[e][i].sock
          /\ OneTick(conns[e][i], Lag(e)).evnt = conns[e][i].evnt
      BY <3>1, <3>2, OneTickIs
    <3> QED  BY <3>2, <3>3
  <2> QED  BY <2>1
<1>4. \A e \in Ends : \A i \in DOMAIN conns[e] : ShapeOf(e, conns'[e][i])
  <2>1. ASSUME NEW e \in Ends, NEW i \in DOMAIN conns[e] PROVE ShapeOf(e, conns'[e][i])
    <3>1. ShapeOf(e, conns[e][i])  BY StructConn
    <3> QED  BY <1>3, <3>1 DEF ShapeOf
  <2> QED  BY <2>1
<1>5. Struct(conns', sock, acking)  BY <1>1, <1>3, <1>4, StructSame
<1>6. \A e \in Ends : CountedIn(conns'[e]) = CountedIn(conns[e])  BY <1>1, <1>3 DEF CountedIn
<1>7. Counts'  BY <1>2, <1>6, CountsKept
<1>8. LinkTypes'
  <2>1. faultCnt' \in 0 .. MaxFault
    <3>1. faultCnt \in 0 .. MaxFault  BY DEF LinkTypes
    <3> QED  BY <1>2, <3>1, LinkAssumption
  <2>2. "cli" \in Ends  BY DEF Ends
  <2>3. \A e \in Ends : pos[e] =< 0 => lag'[e] = 0
    <3>1. \A e \in Ends : pos[e] \in Int  BY DEF LinkTypes
    <3> QED  BY <1>1, <3>1
  <2> QED  BY <1>1, <1>2, <2>1, <2>2, <2>3 DEF LinkTypes
<1> QED  BY <1>2, <1>5, <1>7, <1>8

LEMMA CutCnt ==
  ASSUME CntInv, NEW s \in Socks, Cut(s)
  PROVE  CntInv'
<1> USE DEF CntInv
<1> DEFINE x == sock[s]
           nil == [e \in Ends |-> << >>]
           y == [x EXCEPT !.cut = TRUE, !.in = nil]
<1>1. /\ faultCnt > 0 /\ faultCnt' = faultCnt - 1 /\ sock[s].up # {} /\ ~sock[s].cut
      /\ calm' = FALSE
      /\ UNCHANGED <<conns, openCnt, pos, lag, sndTq, rcvd, sent, acking, key, served, late, stale, ahead,
                     tooOld, sure>>
  BY DEF Cut
<1>2. sock' = [sock EXCEPT ![s] = y]  BY DEF Cut
<1>3. x \in SockRec /\ SockOK(s, x, acking) /\ x.up # {}  BY <1>1 DEF Struct, Net
<1>4. /\ y \in SockRec /\ y.up = x.up /\ y.at = x.at /\ y.cut
      /\ y.in["cli"] = << >> /\ y.in["srv"] = << >>
  <2>1. nil \in [Ends -> Seq(Msg)]
    <3>1. << >> \in Seq(Msg)  OBVIOUS
    <3> QED  BY <3>1
  <2>2. nil["cli"] = << >> /\ nil["srv"] = << >>  BY DEF Ends
  <2> HIDE DEF nil, x
  <2>3. y \in SockRec  BY <1>3, <2>1 DEF SockRec
  <2>4. y.up = x.up /\ y.at = x.at  BY <1>3, <2>1 DEF SockRec
  <2>5. y.cut = TRUE /\ y.in = nil  BY <1>3, <2>1 DEF SockRec
  <2> QED  BY <2>2, <2>3, <2>4, <2>5
<1> HIDE DEF y, x
<1>5. ~AckIn(y)  BY <1>4 DEF AckIn
<1>6. SockOK(s, y, acking)  BY <1>3, <1>4, <1>5 DEF SockOK
<1>7. \A f \in Ends : \A j \in DOMAIN conns[f] :
        conns[f][j].sock = s => HasSock(f, conns[f][j], y, acking)
  <2>1. ASSUME NEW f \in Ends, NEW j \in DOMAIN conns[f], conns[f][j].sock = s
        PROVE  HasSock(f, conns[f][j], y, acking)
    <3>1. HasSock(f, conns[f][j], x, acking)  BY <2>1, StructConn, LinkAssumption DEF x
    <3> QED  BY <1>4, <1>5, <3>1 DEF HasSock
  <2> QED  BY <2>1
<1>8. Struct(conns, sock', acking)  BY <1>2, <1>4, <1>6, <1>7, StructSock
<1>9. LinkTypes'
  <2>1. faultCnt' \in 0 .. MaxFault
    <3>1. faultCnt \in 0 .. MaxFault  BY DEF LinkTypes
    <3> QED  BY <1>1, <3>1, LinkAssumption
  <2>2. sock' \in Net  BY <1>8 DEF Struct
  <2> QED  BY <1>1, <2>1, <2>2 DEF LinkTypes
<1>10. Counts'  BY <1>1 DEF Counts
<1> QED  BY <1>1, <1>8, <1>9, <1>10

LEMMA AcptEndCnt ==
  ASSUME CntInv, NEW s \in Socks, AcptEnd(s)
  PROVE  CntInv'
<1> USE DEF CntInv
<1> DEFINE x == sock[s]  y == Shut(x, "srv")
<1>1. /\ acking = 0 /\ x.at = "tmp" /\ SockEnd(sock, s, "srv") /\ sock' = SockClose(sock, s, "srv")
      /\ UNCHANGED <<conns, openCnt, pos, lag, sndTq, rcvd, sent, acking, key, served, faultCnt, late,
                     calm, stale, ahead, tooOld, sure>>
  BY DEF AcptEnd
<1>2. "srv" \in Ends /\ sock \in Net  BY DEF Ends, LinkTypes
<1>3. x \in SockRec /\ SockOK(s, x, acking)  BY DEF Struct, Net
<1>4. x.up = {"srv"}
  <2>1. "srv" \in x.up  BY <1>1, <1>3 DEF SockOK
  <2>2. "cli" \notin x.up  BY <1>1 DEF SockEnd, Peer
  <2>3. x.up \subseteq {"cli", "srv"}  BY <1>3 DEF SockRec, Ends
  <2> QED  BY <2>1, <2>2, <2>3
<1> HIDE DEF x
<1>5. y = noSock  BY <1>2, <1>3, <1>4, ShutIs
<1>6. y \in SockRec /\ SockOK(s, y, acking)  BY <1>5, NoSockIs, NoSockOK
<1>7. \A f \in Ends : \A j \in DOMAIN conns[f] :
        conns[f][j].sock = s => HasSock(f, conns[f][j], y, acking)
  <2>1. ASSUME NEW f \in Ends, NEW j \in DOMAIN conns[f], conns[f][j].sock = s
        PROVE  FALSE
    <3>1. HasSock(f, conns[f][j], x, acking)  BY <2>1, StructConn, LinkAssumption DEF x
    <3> QED  BY <1>1, <1>4, <3>1 DEF HasSock
  <2> QED  BY <2>1
<1> HIDE DEF y
<1>8. sock' = [sock EXCEPT ![s] = y]  BY <1>1, <1>2, OneSock DEF x, y
<1>9. Struct(conns, sock', acking)  BY <1>6, <1>7, <1>8, StructSock
<1>10. LinkTypes'
  <2>1. sock' \in Net  BY <1>9 DEF Struct
  <2> QED  BY <1>1, <2>1 DEF LinkTypes
<1>11. Counts'  BY <1>1 DEF Counts
<1> QED  BY <1>1, <1>9, <1>10, <1>11

LEMMA AcptAckCnt ==
  ASSUME CntInv, AcptAck
  PROVE  CntInv'
<1> USE DEF CntInv
<1> DEFINE s == acking  x == sock[s]
           y == IF "srv" \in x.up THEN Added(x, "srv", <<Ack>>) ELSE x
<1>1. /\ s # 0 /\ acking' = 0
      /\ sock' = IF "srv" \in x.up THEN SockWrite(sock, s, "srv", <<Ack>>) ELSE sock
      /\ UNCHANGED <<conns, openCnt, pos, lag, sndTq, rcvd, sent, key, served, faultCnt, late, calm, stale,
                     ahead, tooOld, sure>>
  BY DEF AcptAck
<1>2. "srv" \in Ends /\ sock \in Net /\ s \in Socks  BY <1>1 DEF Ends, LinkTypes
<1>3. x \in SockRec /\ SockOK(s, x, s)  BY <1>2 DEF Struct, Net
<1>4. ~AckIn(x) /\ x.at # "tmp"  BY <1>3 DEF SockOK
<1>5. <<Ack>> \in Seq(Msg)  BY DEF Ack, Msg
<1> HIDE DEF x, s
<1>6. sock' = [sock EXCEPT ![s] = y]
  <2>1. CASE "srv" \in x.up  BY <1>1, <1>2, <2>1, OneSock DEF x
  <2>2. CASE "srv" \notin x.up
    <3>1. sock = [sock EXCEPT ![s] = sock[s]]  BY <1>2 DEF Net
    <3> QED  BY <1>1, <2>2, <3>1 DEF x
  <2> QED  BY <2>1, <2>2
<1>7. y \in SockRec /\ y.up = x.up /\ y.at = x.at /\ y.cut = x.cut /\ y.in["srv"] = x.in["srv"]
      /\ (y = x \/ (~x.cut /\ "srv" \in x.up /\ "cli" \in x.up /\ y.in["cli"] = x.in["cli"] \o <<Ack>>))
  <2>1. CASE "srv" \in x.up
    <3> DEFINE ms == <<Ack>>
    <3> HIDE DEF ms
    <3>1. /\ Added(x, "srv", ms) \in SockRec /\ Added(x, "srv", ms).up = x.up
          /\ Added(x, "srv", ms).cut = x.cut /\ Added(x, "srv", ms).at = x.at
          /\ Added(x, "srv", ms).in["srv"] = x.in["srv"]
          /\ Peer("srv") \notin x.up \/ x.cut => Added(x, "srv", ms) = x
          /\ Peer("srv") \in x.up /\ ~x.cut =>
               Added(x, "srv", ms).in[Peer("srv")] = x.in[Peer("srv")] \o ms
      <4>1. ms \in Seq(Msg)  BY <1>5 DEF ms
      <4> QED  BY <1>2, <1>3, <4>1, AddedIs
    <3> QED  BY <2>1, <3>1, PeerIs DEF ms
  <2>2. CASE "srv" \notin x.up  BY <1>3, <2>2
  <2> QED  BY <2>1, <2>2
<1> HIDE DEF y
<1>8. SockOK(s, y, 0)
  <2>0. s # 0  BY <1>1
  <2>1. CASE y = x  BY <1>3, <2>0, <2>1 DEF SockOK
  <2>2. CASE ~x.cut /\ "srv" \in x.up /\ "cli" \in x.up /\ y.in["cli"] = x.in["cli"] \o <<Ack>>
    <3>1. x.at = "conn"
      <4>1. x.up # {}  BY <2>2
      <4>2. x.at # "free"  BY <1>3, <4>1 DEF SockOK
      <4> QED  BY <1>3, <1>4, <4>2 DEF SockRec
    <3>2. /\ x.in["cli"] \in Seq(Msg)
          /\ \A j \in DOMAIN x.in["cli"] : x.in["cli"][j].code \in {"hbeat", "data"}
      <4>1. \A j \in DOMAIN x.in["cli"] : x.in["cli"][j].code \in {"ack", "hbeat", "data"}
        BY <1>3, <3>1 DEF SockOK
      <4> QED  BY <1>3, <1>4, <4>1 DEF AckIn, SockRec, Ends
    <3>3. \A j \in DOMAIN y.in["cli"] :
            y.in["cli"][j].code \in {"hbeat", "data"} \/ (j = Len(x.in["cli"]) + 1 /\ y.in["cli"][j].code = "ack")
      BY <2>2, <3>2 DEF Ack
    <3>4. \A i, j \in DOMAIN y.in["cli"] :
            y.in["cli"][i].code = "ack" /\ y.in["cli"][j].code = "ack" => i = j
      BY <3>3
    <3>5. \A j \in DOMAIN y.in["cli"] : y.in["cli"][j].code \in {"ack", "hbeat", "data"}
      BY <3>3
    <3>6. \A j \in DOMAIN y.in["srv"] : y.in["srv"][j].code \in {"hbeat", "data"}
      BY <1>3, <1>7, <3>1 DEF SockOK
    <3>7. y.at = "conn" /\ ~y.cut /\ y.up # {}  BY <1>7, <2>2, <3>1
    <3> QED  BY <2>0, <3>4, <3>5, <3>6, <3>7 DEF SockOK
  <2> QED  BY <1>7, <2>1, <2>2
<1>9. sock' \in Net /\ sock'[s] = y /\ \A t \in Socks : t # s => sock'[t] = sock[t]
  BY <1>2, <1>6, <1>7 DEF Net
<1>10. \A f \in Ends : \A j \in DOMAIN conns[f] : ConnOK(f, conns[f][j], sock', 0)
  <2>1. ASSUME NEW f \in Ends, NEW j \in DOMAIN conns[f] PROVE ConnOK(f, conns[f][j], sock', 0)
    <3> DEFINE c == conns[f][j]
    <3>1. /\ c \in Conn /\ ShapeOf(f, c)
          /\ c.sock # 0 => c.sock \in Socks /\ HasSock(f, c, sock[c.sock], s)
      BY StructConn DEF s
    <3> HIDE DEF c
    <3>2. CASE c.sock = 0  BY <3>1, <3>2 DEF ConnOK, c
    <3>3. CASE c.sock # 0 /\ c.sock # s
      <4>1. HasSock(f, c, sock'[c.sock], 0)  BY <1>9, <3>1, <3>3 DEF HasSock
      <4> QED  BY <3>1, <4>1 DEF ConnOK, c
    <3>4. CASE c.sock # 0 /\ c.sock = s
      <4>1. HasSock(f, c, x, s)  BY <3>1, <3>4 DEF x
      <4>2. HasSock(f, c, y, 0)  BY <1>4, <1>7, <3>4, <4>1 DEF HasSock
      <4> QED  BY <1>9, <3>1, <3>4, <4>2 DEF ConnOK, c
    <3> QED  BY <3>2, <3>3, <3>4
  <2> QED  BY <2>1
<1>11. \A t \in Socks : SockOK(t, sock'[t], 0)
  <2>1. ASSUME NEW t \in Socks PROVE SockOK(t, sock'[t], 0)
    <3>1. CASE t = s  BY <1>8, <1>9, <3>1
    <3>2. CASE t # s
      <4>1. SockOK(t, sock[t], s) /\ t # 0  BY LinkAssumption DEF Struct, s
      <4> QED  BY <1>9, <3>2, <4>1 DEF SockOK
    <3> QED  BY <3>1, <3>2
  <2> QED  BY <2>1
<1>12. Struct(conns, sock', 0)  BY <1>9, <1>10, <1>11 DEF Struct
<1>13. LinkTypes'  BY <1>1, <1>9 DEF LinkTypes
<1>14. Counts'  BY <1>1 DEF Counts
<1> QED  BY <1>1, <1>12, <1>13, <1>14

LEMMA CloseAllIs ==
  ASSUME NEW k \in Net, NEW cns, NEW e \in Ends
  PROVE  /\ CloseAll(k, cns, e) \in Net
         /\ \A s \in Socks : /\ (\E i \in DOMAIN cns : cns[i].sock = s) =>
                                  CloseAll(k, cns, e)[s] = Shut(k[s], e)
                             /\ ~(\E i \in DOMAIN cns : cns[i].sock = s) =>
                                  CloseAll(k, cns, e)[s] = k[s]
<1>1. \A s \in Socks : k[s] \in SockRec /\ Shut(k[s], e) \in SockRec  BY ShutIs DEF Net
<1>2. CloseAll(k, cns, e) \in Net  BY <1>1 DEF CloseAll, Net
<1>3. ASSUME NEW s \in Socks
      PROVE  /\ (\E i \in DOMAIN cns : cns[i].sock = s) => CloseAll(k, cns, e)[s] = Shut(k[s], e)
             /\ ~(\E i \in DOMAIN cns : cns[i].sock = s) => CloseAll(k, cns, e)[s] = k[s]
  BY DEF CloseAll
<1> QED  BY <1>2, <1>3

(* All connections of an end are closed, and it has others instead. *)
LEMMA StructCloseAll ==
  ASSUME NEW cs, NEW k, NEW a, Struct(cs, k, a), NEW e \in Ends, NEW q \in Seq(Conn),
         \A i \in DOMAIN q : q[i].sock = 0 /\ ShapeOf(e, q[i])
  PROVE  Struct([cs EXCEPT ![e] = q], CloseAll(k, cs[e], e), a)
<1> DEFINE cs2 == [cs EXCEPT ![e] = q]  k2 == CloseAll(k, cs[e], e)
<1>1. cs \in [Ends -> Seq(Conn)] /\ k \in Net /\ a \in Socks \cup {0}  BY DEF Struct
<1>2. /\ k2 \in Net
      /\ \A s \in Socks : k2[s] = k[s]
           \/ (k2[s] = Shut(k[s], e) /\ \E i \in DOMAIN cs[e] : cs[e][i].sock = s)
  BY <1>1, CloseAllIs
<1>3. cs2 \in [Ends -> Seq(Conn)] /\ cs2[e] = q /\ \A f \in Ends : f # e => cs2[f] = cs[f]
  BY <1>1
<1> HIDE DEF cs2, k2
<1>4. ASSUME NEW f \in Ends, NEW j \in DOMAIN cs2[f] PROVE ConnOK(f, cs2[f][j], k2, a)
  <2>1. CASE f = e  BY <1>3, <2>1 DEF ConnOK
  <2>2. CASE f # e
    <3> DEFINE c == cs[f][j]
    <3>0. cs2[f][j] = c /\ j \in DOMAIN cs[f]  BY <1>3, <2>2
    <3>1. /\ ShapeOf(f, c)
          /\ c.sock # 0 => c.sock \in Socks /\ HasSock(f, c, k[c.sock], a) /\ k[c.sock] \in SockRec
      BY <3>0, StructConn
    <3> HIDE DEF c
    <3>2. c.sock # 0 => HasSock(f, c, Shut(k[c.sock], e), a)  BY <2>2, <3>1, OtherHas
    <3>3. c.sock # 0 => HasSock(f, c, k2[c.sock], a)  BY <1>2, <3>1, <3>2
    <3> QED  BY <3>0, <3>1, <3>3 DEF ConnOK
  <2> QED  BY <2>1, <2>2
<1>5. \A f \in Ends : \A i, j \in DOMAIN cs2[f] :
        cs2[f][i].sock = cs2[f][j].sock /\ cs2[f][i].sock # 0 => i = j
  BY <1>3 DEF Struct
<1>6. ASSUME NEW s \in Socks PROVE SockOK(s, k2[s], a)
  <2>1. SockOK(s, k[s], a) /\ k[s] \in SockRec  BY <1>1 DEF Struct, Net
  <2>2. CASE k2[s] = k[s]  BY <2>1, <2>2
  <2>3. CASE k2[s] = Shut(k[s], e) /\ \E i \in DOMAIN cs[e] : cs[e][i].sock = s
    <3>1. PICK i \in DOMAIN cs[e] : cs[e][i].sock = s  BY <2>3
    <3>2. HasSock(e, cs[e][i], k[s], a)  BY <3>1, StructConn, LinkAssumption
    <3>3. e \in k[s].up /\ (k[s].at = "tmp" => e = "cli")  BY <3>2 DEF HasSock, Ends
    <3> QED  BY <2>1, <2>3, <3>3, ShutOK
  <2> QED  BY <1>2, <2>2, <2>3
<1> QED  BY <1>1, <1>2, <1>3, <1>4, <1>5, <1>6 DEF Struct, cs2, k2

(* A socket whose request has come becomes a connection of the server. *)
LEMMA StructAttach ==
  ASSUME NEW cs, NEW k, Struct(cs, k, 0), NEW s \in Socks,
         k[s].at = "tmp", k[s].in["srv"] # << >>, NEW y,
         y = [k[s] EXCEPT !.in["srv"] = Tail(@), !.at = "conn"]
  PROVE  /\ Struct([cs EXCEPT !["srv"] = Append(@, AcptConn(s))], [k EXCEPT ![s] = y], s)
         /\ Len(k[s].in["srv"]) = 1
         /\ \A f \in Ends : \A j \in DOMAIN cs[f] : cs[f][j].sock = s => f = "cli" /\ cs[f][j].sta = "init"
<1> DEFINE x == k[s]  c == AcptConn(s)
           q == Append(cs["srv"], c)
           cs2 == [cs EXCEPT !["srv"] = q]
           k2 == [k EXCEPT ![s] = y]
<1>1. cs \in [Ends -> Seq(Conn)] /\ k \in Net /\ "srv" \in Ends /\ "cli" \in Ends
  BY DEF Struct, Ends
<1>2. s # 0  BY LinkAssumption
<1>3. x \in SockRec /\ SockOK(s, x, 0) /\ x.in \in [Ends -> Seq(Msg)]  BY <1>1 DEF Struct, Net, SockRec
<1>4. /\ "srv" \in x.up /\ x.in["cli"] = << >> /\ x.up # {}
      /\ \A j \in DOMAIN x.in["srv"] : j = 1 /\ x.in["srv"][j].code = "req"
  BY <1>3 DEF SockOK
<1>5. Len(x.in["srv"]) = 1 /\ Tail(x.in["srv"]) = << >>
  <2>1. x.in["srv"] \in Seq(Msg) /\ x.in["srv"] # << >>  BY <1>1, <1>3
  <2>2. Len(x.in["srv"]) \in Nat /\ Len(x.in["srv"]) # 0 /\ DOMAIN x.in["srv"] = 1 .. Len(x.in["srv"])
    BY <2>1
  <2>3. ASSUME Len(x.in["srv"]) >= 2 PROVE FALSE
    <3>1. 2 \in DOMAIN x.in["srv"]  BY <2>2, <2>3
    <3>2. 2 = 1  BY <1>4, <3>1
    <3> QED  BY <3>2
  <2> DEFINE m == Len(x.in["srv"])  t == Tail(x.in["srv"])
  <2>4. m \in Nat /\ m # 0 /\ ~(m >= 2)  BY <2>2, <2>3
  <2> HIDE DEF m
  <2>5. m = 1  BY <2>4
  <2>6. t \in Seq(Msg) /\ Len(t) = 0  BY <2>1, <2>5 DEF m
  <2> HIDE DEF t
  <2>7. t = << >>  BY <2>6
  <2> QED  BY <2>5, <2>7 DEF m, t
<1>6. ~x.cut
  <2>1. x.cut => x.in["srv"] = << >>  BY <1>3 DEF SockOK
  <2> QED  BY <2>1
<1> HIDE DEF x
<1>7. /\ y \in SockRec /\ y.up = x.up /\ y.at = "conn" /\ ~y.cut
      /\ y.in["srv"] = << >> /\ y.in["cli"] = << >>
  <2> DEFINE in == [x.in EXCEPT !["srv"] = << >>]
  <2>1. in \in [Ends -> Seq(Msg)]
    <3>1. << >> \in Seq(Msg)  OBVIOUS
    <3> QED  BY <1>3, <3>1
  <2>2. in["srv"] = << >> /\ in["cli"] = << >>  BY <1>1, <1>3, <1>4
  <2>3. y = [x EXCEPT !.in = in, !.at = "conn"]
    <3>1. y = [x EXCEPT !.in["srv"] = << >>, !.at = "conn"]  BY <1>5 DEF x
    <3> QED  BY <1>3, <3>1 DEF SockRec
  <2> HIDE DEF in
  <2>4. y \in SockRec  BY <1>3, <2>1, <2>3 DEF SockRec
  <2>5. y.up = x.up /\ y.cut = x.cut  BY <1>3, <2>1, <2>3 DEF SockRec
  <2>6. y.in = in /\ y.at = "conn"  BY <1>3, <2>1, <2>3 DEF SockRec
  <2> QED  BY <1>6, <2>2, <2>4, <2>5, <2>6
<1>8. c \in Conn /\ ShapeOf("srv", c) /\ c.sock = s /\ c.sta = "open"
  <2>1. c \in Conn  BY LinkAssumption DEF AcptConn, Conn
  <2> QED  BY <1>2, <2>1 DEF AcptConn, ShapeOf
<1> HIDE DEF c
<1>9. ASSUME NEW f \in Ends, NEW j \in DOMAIN cs[f], cs[f][j].sock = s
      PROVE  f = "cli" /\ cs[f][j].sta = "init"
  <2>1. HasSock(f, cs[f][j], x, 0) /\ ShapeOf(f, cs[f][j]) /\ cs[f][j] \in Conn
    BY <1>2, <1>9, StructConn DEF x
  <2>2. x.at = "tmp" /\ x.in["srv"] # << >>  BY DEF x
  <2>3. f = "cli" /\ cs[f][j].sta # "connected" /\ cs[f][j].sta # "open"
    BY <2>1, <2>2 DEF HasSock, Ends
  <2>4. cs[f][j].sta # "closed"  BY <1>2, <1>9, <2>1 DEF ShapeOf
  <2> QED  BY <2>1, <2>3, <2>4 DEF Conn
<1>10. /\ q \in Seq(Conn) /\ DOMAIN q = 1 .. Len(cs["srv"]) + 1 /\ q[Len(cs["srv"]) + 1] = c
       /\ \A j \in DOMAIN cs["srv"] : j \in 1 .. Len(cs["srv"]) /\ q[j] = cs["srv"][j]
       /\ Len(cs["srv"]) \in Nat /\ DOMAIN cs["srv"] = 1 .. Len(cs["srv"])
  <2>1. cs["srv"] \in Seq(Conn)  BY <1>1
  <2> QED  BY <1>8, <2>1
<1> HIDE DEF q
<1>11. cs2 \in [Ends -> Seq(Conn)] /\ cs2["srv"] = q /\ cs2["cli"] = cs["cli"]
  BY <1>1, <1>10
<1>12. k2 \in Net /\ k2[s] = y /\ \A t \in Socks : t # s => k2[t] = k[t]
  BY <1>1, <1>7 DEF Net
<1> HIDE DEF cs2, k2
<1>13. ASSUME NEW f \in Ends, NEW j \in DOMAIN cs[f] PROVE ConnOK(f, cs[f][j], k2, s)
  <2> DEFINE d == cs[f][j]
  <2>1. /\ d \in Conn /\ ShapeOf(f, d)
        /\ d.sock # 0 => d.sock \in Socks /\ HasSock(f, d, k[d.sock], 0)
    BY StructConn
  <2>2. d.sock = s => f = "cli" /\ d.sta = "init"  BY <1>9
  <2> HIDE DEF d
  <2>3. CASE d.sock = 0  BY <2>1, <2>3 DEF ConnOK, d
  <2>4. CASE d.sock # 0 /\ d.sock # s
    <3>1. HasSock(f, d, k2[d.sock], s)  BY <1>12, <2>1, <2>4 DEF HasSock
    <3> QED  BY <2>1, <3>1 DEF ConnOK, d
  <2>5. CASE d.sock # 0 /\ d.sock = s
    <3>1. "cli" \in y.up  BY <1>7, <2>1, <2>2, <2>5 DEF HasSock, x
    <3>2. HasSock(f, d, y, s)  BY <2>2, <2>5, <3>1 DEF HasSock
    <3> QED  BY <1>12, <2>1, <2>5, <3>2 DEF ConnOK, d
  <2> QED  BY <2>3, <2>4, <2>5
<1>14. ConnOK("srv", c, k2, s)
  BY <1>4, <1>7, <1>8, <1>12 DEF ConnOK, HasSock
<1>15. \A f \in Ends : \A j \in DOMAIN cs2[f] : ConnOK(f, cs2[f][j], k2, s)
  <2>1. \A j \in DOMAIN q : ConnOK("srv", q[j], k2, s)
    <3>1. ASSUME NEW j \in DOMAIN q PROVE ConnOK("srv", q[j], k2, s)
      <4>1. CASE j = Len(cs["srv"]) + 1  BY <1>10, <1>14, <4>1
      <4>2. CASE j # Len(cs["srv"]) + 1
        <5>1. j \in DOMAIN cs["srv"]  BY <1>10, <4>2
        <5> QED  BY <1>1, <1>10, <1>13, <5>1
      <4> QED  BY <4>1, <4>2
    <3> QED  BY <3>1
  <2> QED  BY <1>1, <1>11, <1>13, <2>1 DEF Ends
<1>16. \A f \in Ends : \A i, j \in DOMAIN cs2[f] :
         cs2[f][i].sock = cs2[f][j].sock /\ cs2[f][i].sock # 0 => i = j
  <2>1. \A f \in Ends : \A i, j \in DOMAIN cs[f] :
          cs[f][i].sock = cs[f][j].sock /\ cs[f][i].sock # 0 => i = j
    BY DEF Struct
  <2>2. \A j \in DOMAIN cs["srv"] : cs["srv"][j].sock # s  BY <1>1, <1>9
  <2>3. ASSUME NEW i \in DOMAIN q, NEW j \in DOMAIN q, q[i].sock = q[j].sock, q[i].sock # 0 PROVE i = j
    <3>1. CASE i = Len(cs["srv"]) + 1 \/ j = Len(cs["srv"]) + 1
      BY <1>8, <1>10, <2>2, <2>3, <3>1
    <3>2. CASE i # Len(cs["srv"]) + 1 /\ j # Len(cs["srv"]) + 1
      <4>1. i \in DOMAIN cs["srv"] /\ j \in DOMAIN cs["srv"]  BY <1>10, <3>2
      <4> QED  BY <1>1, <1>10, <2>1, <2>3, <4>1
    <3> QED  BY <3>1, <3>2
  <2> QED  BY <1>1, <1>11, <2>1, <2>3 DEF Ends
<1>17. \A t \in Socks : SockOK(t, k2[t], s)
  <2>1. SockOK(s, y, s)  BY <1>4, <1>7 DEF SockOK, AckIn
  <2>2. ASSUME NEW t \in Socks, t # s PROVE SockOK(t, k[t], s)
    <3>1. SockOK(t, k[t], 0)  BY DEF Struct
    <3> QED  BY <2>2, <3>1 DEF SockOK
  <2> QED  BY <1>12, <2>1, <2>2
<1>18. Struct(cs2, k2, s)  BY <1>11, <1>12, <1>15, <1>16, <1>17 DEF Struct
<1> QED  BY <1>5, <1>9, <1>18 DEF cs2, k2, q, c, x

LEMMA RestartCnt ==
  ASSUME CntInv, Restart
  PROVE  CntInv'
<1> USE DEF CntInv
<1>1. /\ faultCnt > 0 /\ faultCnt' = faultCnt - 1
      /\ sock' = CloseAll(sock, conns["cli"], "cli")
      /\ conns' = [conns EXCEPT !["cli"] = OwnConns]
      /\ openCnt' = [openCnt EXCEPT !["cli"] = 0]
      /\ pos' = [pos EXCEPT !["cli"] = 0] /\ lag' = [lag EXCEPT !["cli"] = 0] /\ calm' = FALSE
      /\ sndTq' = [sndTq EXCEPT !["cli"] = << >>]
      /\ rcvd' = [rcvd EXCEPT !["cli"] = {}]
      /\ key' = [key EXCEPT !["cli"] = @ + 1]
      /\ UNCHANGED <<sent, acking, served, late, stale, ahead, tooOld, sure>>
  BY DEF Restart
<1>2. "cli" \in Ends /\ conns \in [Ends -> Seq(Conn)]  BY DEF Ends, LinkTypes
<1>3. OwnConn \in Conn /\ ShapeOf("cli", OwnConn) /\ OwnConn.sock = 0 /\ OwnConn.evnt = "CONN"
  BY DEF OwnConn, Conn, ShapeOf
<1>4. /\ OwnConns \in Seq(Conn) /\ Len(OwnConns) = ConnCnt
      /\ \A i \in DOMAIN OwnConns : OwnConns[i] = OwnConn
  <2>1. OwnConns \in [1 .. ConnCnt -> Conn]  BY <1>3 DEF OwnConns
  <2>2. ConnCnt \in Nat  BY LinkAssumption
  <2> QED  BY <2>1, <2>2 DEF OwnConns
<1>5. Struct(conns', sock', acking)
  <2>1. Struct([conns EXCEPT !["cli"] = OwnConns], CloseAll(sock, conns["cli"], "cli"), acking)
    BY <1>2, <1>3, <1>4, StructCloseAll
  <2> QED  BY <1>1, <2>1
<1>6. conns'["cli"] = OwnConns /\ \A f \in Ends : f # "cli" => conns'[f] = conns[f]
  BY <1>1, <1>2
<1>7. LinkTypes'
  <2>1. conns' \in [Ends -> Seq(Conn)] /\ sock' \in Net  BY <1>5 DEF Struct
  <2>2. faultCnt' \in 0 .. MaxFault
    <3>1. faultCnt \in 0 .. MaxFault  BY DEF LinkTypes
    <3> QED  BY <1>1, <3>1, LinkAssumption
  <2>3. /\ pos' \in [Ends -> Int] /\ lag' \in [Ends -> Nat]
        /\ \A f \in Ends : pos'[f] >= ReadsTick /\ pos'[f] =< Len(conns'[f]) /\ (pos'[f] =< 0 => lag'[f] = 0)
    <3>1. 0 =< Len(OwnConns) /\ 0 \in Int /\ 0 \in Nat  BY <1>4
    <3>2. /\ pos \in [Ends -> Int] /\ lag \in [Ends -> Nat]
          /\ \A f \in Ends : pos[f] >= ReadsTick /\ pos[f] =< Len(conns[f]) /\ (pos[f] =< 0 => lag[f] = 0)
      BY DEF LinkTypes
    <3>3. /\ pos' \in [Ends -> Int] /\ pos'["cli"] = 0 /\ \A f \in Ends : f # "cli" => pos'[f] = pos[f]
          /\ lag' \in [Ends -> Nat] /\ lag'["cli"] = 0 /\ \A f \in Ends : f # "cli" => lag'[f] = lag[f]
      BY <1>1, <1>2, <3>2
    <3>4. ASSUME NEW f \in Ends
          PROVE  pos'[f] >= ReadsTick /\ pos'[f] =< Len(conns'[f]) /\ (pos'[f] =< 0 => lag'[f] = 0)
      <4>1. CASE f = "cli"  BY <1>6, <3>1, <3>3, <4>1 DEF ReadsTick
      <4>2. CASE f # "cli"  BY <1>6, <3>2, <3>3, <4>2
      <4> QED  BY <4>1, <4>2
    <3> QED  BY <3>3, <3>4
  <2>4. sndTq' \in [Ends -> Seq(Nat)]
    <3>1. << >> \in Seq(Nat)  OBVIOUS
    <3> QED  BY <1>1, <3>1 DEF LinkTypes
  <2>5. rcvd' \in [Ends -> SUBSET Nat]
    <3>1. {} \in SUBSET Nat  OBVIOUS
    <3> QED  BY <1>1, <3>1 DEF LinkTypes
  <2>6. openCnt' \in [Ends -> Int] /\ key' \in [Ends -> Nat]
    <3>1. key["cli"] + 1 \in Nat  BY <1>2 DEF LinkTypes
    <3>2. key' = [key EXCEPT !["cli"] = key["cli"] + 1]  BY <1>1
    <3>3. key' \in [Ends -> Nat]  BY <3>1, <3>2 DEF LinkTypes
    <3>4. 0 \in Int  OBVIOUS
    <3>5. openCnt' \in [Ends -> Int]  BY <1>1, <3>4 DEF LinkTypes
    <3> QED  BY <3>3, <3>5
  <2> QED  BY <1>1, <1>4, <1>6, <2>1, <2>2, <2>3, <2>4, <2>5, <2>6 DEF LinkTypes
<1>8. Counts'
  <2>1. CountedIn(OwnConns) = {}  BY <1>3, <1>4 DEF CountedIn
  <2>2. Cardinality(CountedIn(conns'["cli"])) = 0  BY <1>6, <2>1, FS_EmptySet
  <2>3. openCnt'["cli"] = 0 /\ \A f \in Ends : f # "cli" => openCnt'[f] = openCnt[f]
    BY <1>1, <1>2 DEF LinkTypes
  <2>4. stale' = stale /\ stale["cli"] = 0  BY <1>1 DEF Counts
  <2>5. \A f \in Ends : openCnt'[f] = Cardinality(CountedIn(conns'[f])) + stale'[f]
    <3>1. ASSUME NEW f \in Ends PROVE openCnt'[f] = Cardinality(CountedIn(conns'[f])) + stale'[f]
      <4>1. CASE f = "cli"  BY <2>2, <2>3, <2>4, <4>1
      <4>2. CASE f # "cli"  BY <1>6, <2>3, <2>4, <4>2 DEF Counts
      <4> QED  BY <4>1, <4>2
    <3> QED  BY <3>1
  <2> QED  BY <2>4, <2>5 DEF Counts
<1> QED  BY <1>1, <1>5, <1>7, <1>8

(* What the request makes of the network and the connections: those that   *)
(* stay are cns, over the network k, and the socket becomes y.             *)
Attached(s, cns, k, y) ==
  /\ y = [sock[s] EXCEPT !.in["srv"] = Tail(@), !.at = "conn"]
  /\ Struct([conns EXCEPT !["srv"] = cns], k, 0)
  /\ k[s] = sock[s]
  /\ conns' = [conns EXCEPT !["srv"] = Append(cns, AcptConn(s))]
  /\ sock' = [k EXCEPT ![s] = y]
  /\ Struct(conns', sock', s)
  /\ \/ cns = conns["srv"] /\ k = sock /\ stale' = stale
     \/ /\ cns = << >> /\ stale' = [stale EXCEPT !["srv"] = openCnt["srv"]]
        /\ key["srv"] \notin {0, Head(sock[s].in["srv"]).n}
        /\ k = CloseAll(sock, conns["srv"], "srv")
LEMMA AcptReqIs ==
  ASSUME LinkTypes, Struct(conns, sock, acking), NEW s \in Socks, AcptReq(s)
  PROVE  \E cns \in Seq(Conn), k \in Net, y \in SockRec : Attached(s, cns, k, y)
<1> DEFINE x == sock[s]
           y == [x EXCEPT !.in["srv"] = Tail(@), !.at = "conn"]
           n == Head(sock[s].in["srv"]).n
           new == key["srv"] \notin {0, n}
           cns == IF new THEN << >> ELSE conns["srv"]
           k == IF new THEN CloseAll(sock, conns["srv"], "srv") ELSE sock
<1>1. /\ acking = 0 /\ x.at = "tmp" /\ x.in["srv"] # << >>
      /\ sock' = IF new THEN CloseAll([sock EXCEPT ![s] = y], conns["srv"], "srv")
                 ELSE [sock EXCEPT ![s] = y]
      /\ conns' = [conns EXCEPT !["srv"] = Append(cns, AcptConn(s))]
      /\ stale' = [stale EXCEPT !["srv"] = IF new THEN openCnt["srv"] ELSE @]
  <2>1. /\ acking = 0 /\ x.at = "tmp" /\ x.in["srv"] # << >>
        /\ conns' = [conns EXCEPT !["srv"] = Append(IF new THEN << >> ELSE @, AcptConn(s))]
        /\ stale' = [stale EXCEPT !["srv"] = IF new THEN openCnt["srv"] ELSE @]
    BY DEF AcptReq
  <2>2. sock' = IF new THEN CloseAll([sock EXCEPT ![s].in["srv"] = Tail(@), ![s].at = "conn"], conns["srv"], "srv")
                ELSE [sock EXCEPT ![s].in["srv"] = Tail(@), ![s].at = "conn"]
    BY DEF AcptReq
  <2>3. [sock EXCEPT ![s].in["srv"] = Tail(@), ![s].at = "conn"] = [sock EXCEPT ![s] = y]
    BY DEF LinkTypes, Net, SockRec
  <2> HIDE DEF y, new
  <2> QED  BY <2>1, <2>2, <2>3
<1>2. "srv" \in Ends /\ sock \in Net /\ conns \in [Ends -> Seq(Conn)] /\ stale \in [Ends -> Int]
  BY DEF Ends, LinkTypes
<1>3. \A i \in DOMAIN conns["srv"] : conns["srv"][i].sock # s
  <2>1. ASSUME NEW i \in DOMAIN conns["srv"], conns["srv"][i].sock = s PROVE FALSE
    <3>1. HasSock("srv", conns["srv"][i], sock[s], acking)
      BY <1>2, <2>1, StructConn, LinkAssumption
    <3> QED  BY <1>1, <3>1 DEF HasSock
  <2> QED  BY <2>1
<1> HIDE DEF x, n
<1>4. cns \in Seq(Conn) /\ k \in Net /\ k[s] = sock[s] /\ Struct([conns EXCEPT !["srv"] = cns], k, 0)
  <2>1. CASE new
    <3>1. << >> \in Seq(Conn) /\ \A i \in DOMAIN << >> : << >>[i].sock = 0 /\ ShapeOf("srv", << >>[i])
      OBVIOUS
    <3>2. Struct([conns EXCEPT !["srv"] = << >>], CloseAll(sock, conns["srv"], "srv"), 0)
      BY <1>1, <1>2, <3>1, StructCloseAll
    <3>3. CloseAll(sock, conns["srv"], "srv") \in Net /\ CloseAll(sock, conns["srv"], "srv")[s] = sock[s]
      BY <1>2, <1>3, CloseAllIs
    <3> QED  BY <2>1, <3>1, <3>2, <3>3
  <2>2. CASE ~new
    <3>1. [conns EXCEPT !["srv"] = conns["srv"]] = conns  BY <1>2
    <3> QED  BY <1>1, <1>2, <2>2, <3>1
  <2> QED  BY <2>1, <2>2
<1>5. sock' = [k EXCEPT ![s] = y]
  <2>1. CASE new
    <3> DEFINE k3 == [sock EXCEPT ![s] = y]
    <3>1. sock' = CloseAll(k3, conns["srv"], "srv")  BY <1>1, <2>1
    <3>2. k = CloseAll(sock, conns["srv"], "srv")  BY <2>1
    <3> HIDE DEF y
    <3>3. k3[s] = y /\ \A t \in Socks : t # s => k3[t] = sock[t]  BY <1>2 DEF Net
    <3> HIDE DEF k3
    <3>4. CloseAll(k3, conns["srv"], "srv") = [t \in Socks |->
             IF \E i \in DOMAIN conns["srv"] : conns["srv"][i].sock = t THEN Shut(k3[t], "srv") ELSE k3[t]]
      BY DEF CloseAll
    <3>5. CloseAll(sock, conns["srv"], "srv") = [t \in Socks |->
             IF \E i \in DOMAIN conns["srv"] : conns["srv"][i].sock = t THEN Shut(sock[t], "srv") ELSE sock[t]]
      BY DEF CloseAll
    <3>6. sock' = [t \in Socks |-> IF t = s THEN y ELSE k[t]]  BY <1>3, <3>1, <3>2, <3>3, <3>4, <3>5
    <3>7. k \in Net  BY <1>4
    <3> HIDE DEF k
    <3> QED  BY <3>6, <3>7 DEF Net
  <2>2. CASE ~new  BY <1>1, <2>2
  <2> QED  BY <2>1, <2>2
<1>6. y \in SockRec
  <2>1. x \in SockRec  BY <1>2 DEF Net, x
  <2>2. Tail(x.in["srv"]) \in Seq(Msg)
    <3>1. x.in["srv"] \in Seq(Msg)  BY <1>2, <2>1 DEF SockRec
    <3> QED  BY <1>1, <3>1
  <2>3. [x.in EXCEPT !["srv"] = Tail(x.in["srv"])] \in [Ends -> Seq(Msg)]  BY <2>1, <2>2 DEF SockRec
  <2> QED  BY <2>1, <2>3 DEF SockRec
<1> HIDE DEF new, k, cns, y
<1>7. Struct(conns', sock', s)
  <2> DEFINE cs == [conns EXCEPT !["srv"] = cns]
  <2>1. [cs EXCEPT !["srv"] = Append(@, AcptConn(s))] = conns'  BY <1>1, <1>2, <1>4
  <2> HIDE DEF cs
  <2>2. y = [k[s] EXCEPT !.in["srv"] = Tail(@), !.at = "conn"]  BY <1>4 DEF y, x
  <2>3. Struct([cs EXCEPT !["srv"] = Append(@, AcptConn(s))], [k EXCEPT ![s] = y], s)
    BY <1>1, <1>4, <2>2, StructAttach DEF cs, x
  <2> QED  BY <1>5, <2>1, <2>3
<1>8. \/ cns = conns["srv"] /\ k = sock /\ stale' = stale
      \/ /\ cns = << >> /\ stale' = [stale EXCEPT !["srv"] = openCnt["srv"]]
         /\ key["srv"] \notin {0, n} /\ k = CloseAll(sock, conns["srv"], "srv")
  BY <1>1, <1>2 DEF cns, k, new
<1>9. Attached(s, cns, k, y)  BY <1>1, <1>4, <1>5, <1>7, <1>8 DEF x, y, n, Attached
<1> QED  BY <1>4, <1>6, <1>9

LEMMA AcptReqCnt ==
  ASSUME CntInv, NEW s \in Socks, AcptReq(s)
  PROVE  CntInv'
<1> USE DEF CntInv
<1> DEFINE n == Head(sock[s].in["srv"]).n
<1>0. PICK cns \in Seq(Conn), k \in Net, y \in SockRec : Attached(s, cns, k, y)
  BY AcptReqIs
<1>1. /\ Struct([conns EXCEPT !["srv"] = cns], k, 0)
      /\ conns' = [conns EXCEPT !["srv"] = Append(cns, AcptConn(s))]
      /\ Struct(conns', sock', s)
      /\ \/ cns = conns["srv"] /\ k = sock /\ stale' = stale
         \/ cns = << >> /\ stale' = [stale EXCEPT !["srv"] = openCnt["srv"]]
  BY <1>0 DEF Attached
<1>2. /\ openCnt' = [openCnt EXCEPT !["srv"] = @ + 1] /\ acking' = s /\ pos["srv"] = 0
      /\ key' = [key EXCEPT !["srv"] = n]
      /\ sock[s].in["srv"] # << >>
      /\ UNCHANGED <<pos, lag, sndTq, rcvd, sent, served, faultCnt, late, calm, ahead, tooOld, sure>>
  BY DEF AcptReq
<1>3. "srv" \in Ends /\ conns \in [Ends -> Seq(Conn)] /\ stale \in [Ends -> Int]
      /\ openCnt \in [Ends -> Int] /\ sock \in Net
  BY DEF Ends, LinkTypes
<1>4. n \in Nat
  <2>1. sock[s].in["srv"] \in Seq(Msg)  BY <1>3 DEF Net, SockRec
  <2>2. Head(sock[s].in["srv"]) \in Msg  BY <1>2, <2>1
  <2> QED  BY <2>2 DEF Msg
<1> HIDE DEF n
<1> DEFINE q == Append(cns, AcptConn(s))  m == Len(cns) + 1
<1>5. AcptConn(s) \in Conn /\ AcptConn(s).evnt = "HBEAT"  BY TimesAreInt DEF AcptConn, Conn
<1>6. /\ q \in Seq(Conn) /\ q[m] = AcptConn(s) /\ DOMAIN q = 1 .. m /\ Len(q) = m
      /\ DOMAIN cns = 1 .. Len(cns) /\ Len(cns) \in Nat
      /\ \A j \in DOMAIN cns : q[j] = cns[j]
  BY <1>5
<1>7. conns'["srv"] = q /\ conns'["cli"] = conns["cli"]  BY <1>1, <1>3 DEF Ends
<1> HIDE DEF q
<1>8. Cardinality(CountedIn(q)) = Cardinality(CountedIn(cns)) + 1
  <2>1. CountedIn(q) = CountedIn(cns) \cup {m} /\ m \notin CountedIn(cns)
    <3>1. ASSUME NEW j \in CountedIn(q), j # m PROVE j \in CountedIn(cns)
      <4>1. j \in 1 .. m /\ q[j].evnt = "HBEAT"  BY <1>6, <3>1 DEF CountedIn
      <4>2. j \in DOMAIN cns  BY <1>6, <3>1, <4>1
      <4> QED  BY <1>6, <4>1, <4>2 DEF CountedIn
    <3>2. ASSUME NEW j \in CountedIn(cns) PROVE j \in CountedIn(q)
      <4>1. j \in DOMAIN cns /\ cns[j].evnt = "HBEAT"  BY DEF CountedIn
      <4>2. j \in DOMAIN q  BY <1>6, <4>1
      <4> QED  BY <1>6, <4>1, <4>2 DEF CountedIn
    <3>3. m \in CountedIn(q)
      <4>1. m \in DOMAIN q  BY <1>6
      <4> QED  BY <1>5, <1>6, <4>1 DEF CountedIn
    <3>4. m \notin CountedIn(cns)  BY <1>6 DEF CountedIn
    <3> QED  BY <3>1, <3>2, <3>3, <3>4
  <2>2. IsFiniteSet(CountedIn(cns))  BY CountFinite
  <2> QED  BY <2>1, <2>2, FS_AddElement
<1>9. Counts'
  <2>1. stale["cli"] = 0 /\ \A e \in Ends : openCnt[e] = Cardinality(CountedIn(conns[e])) + stale[e]
    BY DEF Counts
  <2>2. openCnt'["srv"] = openCnt["srv"] + 1 /\ openCnt'["cli"] = openCnt["cli"]
    BY <1>2, <1>3 DEF Ends
  <2>3. stale'["cli"] = 0
    BY <1>1, <1>3, <2>1 DEF Ends
  <2>4. openCnt["srv"] = Cardinality(CountedIn(cns)) + stale'["srv"]
    <3>1. CASE cns = conns["srv"] /\ stale' = stale  BY <1>3, <2>1, <3>1
    <3>2. CASE cns = << >> /\ stale' = [stale EXCEPT !["srv"] = openCnt["srv"]]
      <4>1. CountedIn(cns) = {}  BY <3>2 DEF CountedIn
      <4>2. Cardinality(CountedIn(cns)) = 0  BY <4>1, FS_EmptySet
      <4> QED  BY <1>3, <3>2, <4>2
    <3> QED  BY <1>1, <3>1, <3>2
  <2>5. Cardinality(CountedIn(cns)) \in Nat /\ stale'["srv"] \in Int
    <3>1. Cardinality(CountedIn(cns)) \in Nat  BY CountFinite
    <3> QED  BY <1>1, <1>3, <3>1
  <2>6. openCnt'["srv"] = Cardinality(CountedIn(conns'["srv"])) + stale'["srv"]
    BY <1>7, <1>8, <2>2, <2>4, <2>5
  <2>7. openCnt'["cli"] = Cardinality(CountedIn(conns'["cli"])) + stale'["cli"]
    BY <1>7, <2>1, <2>2, <2>3 DEF Ends
  <2> QED  BY <2>3, <2>6, <2>7 DEF Counts, Ends
<1>10. LinkTypes'
  <2>1. conns' \in [Ends -> Seq(Conn)] /\ sock' \in Net  BY <1>1 DEF Struct
  <2>2. Len(conns'["cli"]) = ConnCnt /\ Len(conns'["srv"]) \in Nat  BY <1>6, <1>7 DEF LinkTypes
  <2>3. \A f \in Ends : pos[f] >= ReadsTick /\ pos[f] =< Len(conns'[f]) /\ (pos[f] =< 0 => lag[f] = 0)
    <3>1. /\ pos["cli"] =< Len(conns["cli"])
          /\ \A f \in Ends : pos[f] >= ReadsTick /\ (pos[f] =< 0 => lag[f] = 0)
      BY DEF LinkTypes, Ends
    <3> QED  BY <1>2, <1>7, <2>2, <3>1 DEF Ends
  <2>4. stale' \in [Ends -> Int]  BY <1>1, <1>3
  <2>5. openCnt' \in [Ends -> Int] /\ key' \in [Ends -> Nat]
    <3>1. key' \in [Ends -> Nat]  BY <1>2, <1>4 DEF LinkTypes
    <3>2. openCnt["srv"] + 1 \in Int  BY <1>3
    <3>3. openCnt' = [openCnt EXCEPT !["srv"] = openCnt["srv"] + 1]  BY <1>2
    <3> QED  BY <1>3, <3>1, <3>2, <3>3
  <2> QED  BY <1>2, <2>1, <2>2, <2>3, <2>4, <2>5 DEF LinkTypes
<1> QED  BY <1>1, <1>2, <1>9, <1>10

LEMMA CntStep ==
  ASSUME CntInv, LinkNext
  PROVE  CntInv'
<1>1. ASSUME NEW e \in Ends, HostPass(e) PROVE CntInv'  BY <1>1, SndPassCnt, TickPassCnt, ConnPassCnt DEF HostPass
<1>2. ASSUME NEW e \in Ends, Send(e) PROVE CntInv'  BY <1>2, SendCnt
<1>3. CASE Accept  BY <1>3, AcptAckCnt, AcptReqCnt, AcptEndCnt DEF Accept
<1>4. ASSUME NEW lateFlg \in BOOLEAN, LinkTick(lateFlg) PROVE CntInv'  BY <1>4, TickCnt
<1>5. ASSUME NEW s \in Socks, Cut(s) PROVE CntInv'  BY <1>5, CutCnt
<1>6. CASE Restart  BY <1>6, RestartCnt
<1> QED  BY <1>1, <1>2, <1>3, <1>4, <1>5, <1>6 DEF LinkNext

LEMMA CntStutter ==
  ASSUME CntInv, UNCHANGED linkVars
  PROVE  CntInv'
<1>1. UNCHANGED <<conns, openCnt, pos, lag, sndTq, rcvd, sent, sock, acking, key, served, faultCnt, late,
                  calm, stale, ahead, tooOld, sure>>
  BY DEF linkVars
<1>2. LinkTypes'  BY <1>1 DEF LinkTypes, CntInv
<1>3. Counts'  BY <1>1 DEF Counts, CntInv
<1> QED  BY <1>1, <1>2, <1>3 DEF CntInv

(* The inductive invariant of the count: types, the shape of a connection, *)
(* whose socket it has and what may be on its way over it (Struct).        *)
THEOREM CntInductive == LinkSpec => []CntInv
<1>1. LinkInit => CntInv  BY CntInit
<1>2. CntInv /\ [LinkNext]_linkVars => CntInv'  BY CntStep, CntStutter
<1> QED  BY <1>1, <1>2, PTL DEF LinkSpec

(* openConnCnt counts the open connections, those that a failed send       *)
(* closed, and those that a new key of the peer freed: at every state of   *)
(* both ends, for every number of connections and every fault.             *)
THEOREM LinkCounted == LinkSpec => []CountExact
<1>1. CntInv => CountExact
  <2> SUFFICES ASSUME CntInv, NEW e \in Ends
               PROVE  openCnt[e] = Cardinality(OpenConns(e) \cup Zombies(e)) + stale[e]
    BY DEF CountExact
  <2>1. OpenConns(e) \cup Zombies(e) = CountedIn(conns[e])
    <3>1. \A i \in DOMAIN conns[e] : ShapeOf(e, conns[e][i]) /\ conns[e][i] \in Conn
      BY StructConn DEF CntInv
    <3> QED  BY <3>1 DEF OpenConns, Zombies, CountedIn, ShapeOf, Conn
  <2> QED  BY <2>1 DEF CntInv, Counts
<1> QED  BY <1>1, CntInductive, PTL

-----------------------------------------------------------------------------
(* Time.  A connection of the end e at i is done when it needs no pass     *)
(* any more before the next tick, and twice when the pass that is going on *)
(* is not the first one since the last tick and is over it already.        *)

Done(e, i) == e \in served \/ i < pos[e]
TwiceIn(e, i) == e \in served /\ i < pos[e]

(* A tick fell into the pass, which has not come to the connection yet. *)
Behind(e, i) == lag[e] > 0 /\ i >= pos[e]

(* At most one tick falls into a pass, which is then the first one that is *)
(* over after that tick.                                                   *)
Lagging == \A e \in Ends : lag[e] =< 1 /\ (lag[e] > 0 => e \notin served)

(* Each end of a socket has a connection, or it is with the accept thread. *)
OwnBack ==
  \A s \in Socks : \A e \in sock[s].up :
     (\E i \in DOMAIN conns[e] : conns[e][i].sock = s) \/ (e = "srv" /\ sock[s].at = "tmp")

(* A client that waits for an answer has it in its socket. *)
Answered ==
  \A i \in DOMAIN conns["cli"] :
    LET c == conns["cli"][i]  x == sock[c.sock] IN
    c.sta = "init" /\ x.at = "conn" /\ acking # c.sock /\ "srv" \in x.up /\ ~x.cut => AckIn(x)

Beats(e, i) ==
  conns[e][i].sta = "open" =>
    /\ conns[e][i].due =< HBeatSndTm
    /\ conns[e][i].due >= 0 \/ (Behind(e, i) /\ conns[e][i].due >= -1)
    /\ TwiceIn(e, i) => conns[e][i].due > 0

(* The connection i of e is open, that of the other end over it is j, and  *)
(* nothing is there to be read.                                            *)
Quiet(e, i, j) ==
  LET c == conns[e][i]  d == conns[Peer(e)][j]  x == sock[c.sock] IN
  /\ c.sta = "open" /\ d.sta = "open" /\ c.sock = d.sock
  /\ ~x.cut /\ x.in[e] = << >>

Fresh(e, i, j) ==
  LET c == conns[e][i]  d == conns[Peer(e)][j] IN
  Quiet(e, i, j) =>
    /\ c.age + d.due =< HBeatSndTm + 3
    /\ d.due # 0 \/ Done(Peer(e), j) \/ Behind(Peer(e), j) => c.age + d.due =< HBeatSndTm + 2

(* The client at i still waits for the answer of the connection j of the   *)
(* server.                                                                 *)
Young(i, j) ==
  LET c == conns["cli"][i]  d == conns["srv"][j] IN
  c.sta = "init" /\ d.sta = "open" /\ d.sock = c.sock /\ ~sock[c.sock].cut =>
    /\ sock[c.sock].in["srv"] = << >>
    /\ d.age =< 2
    /\ Done("cli", i) => d.age =< 1
    /\ acking = c.sock \/ TwiceIn("cli", i) => d.age = 0

Pace ==
  /\ Lagging
  /\ \A e \in Ends : \A i \in DOMAIN conns[e] : Beats(e, i)
  /\ \A e \in Ends : \A i \in DOMAIN conns[e], j \in DOMAIN conns[Peer(e)] : Fresh(e, i, j)
  /\ \A i \in DOMAIN conns["cli"], j \in DOMAIN conns["srv"] : Young(i, j)

TimeInv == OwnBack /\ Answered /\ (~late => Pace)

(* A pass changes the connection i of e to d, and the socket s. *)
Shift(e, i, d, s) ==
  /\ i \in DOMAIN conns[e] /\ d \in Conn /\ IsPut(conns', conns, e, i, d)
  /\ s \in Socks \cup {0} /\ \A t \in Socks : t # s => sock'[t] = sock[t]
  /\ conns[e][i].sock \in {0, s} /\ d.sock \in {0, s}
  /\ \A h \in DOMAIN conns[e] : h # i /\ conns[e][h].sock = s => s = 0
  /\ acking' = acking /\ late' = late

(* A pass may catch up with the tick, and be over. *)
Catches ==
  \A f \in Ends : lag'[f] \in {0, lag[f]} /\ (f \in served' /\ f \notin served => lag'[f] = 0)

(* What a step leaves to do of a connection. *)
Alike(f, h) ==
  /\ Done(f, h)' <=> Done(f, h)
  /\ TwiceIn(f, h)' => TwiceIn(f, h)
  /\ Behind(f, h)' <=> Behind(f, h)

(* What the pass leaves to do. *)
ShiftPos(e, i) ==
  /\ Catches
  /\ lag[e] > 0 => i >= pos[e]
  /\ TwiceIn(e, i)' => e \in served
  /\ \A f \in Ends : \A h \in DOMAIN conns[f] : ~(f = e /\ h = i) => Alike(f, h)

LEMMA Lagged ==
  ASSUME LinkTypes, Lagging, Catches
  PROVE  Lagging'
<1>1. lag \in [Ends -> Nat]  BY DEF LinkTypes
<1> SUFFICES ASSUME NEW f \in Ends PROVE lag'[f] =< 1 /\ (lag'[f] > 0 => f \notin served')
  BY DEF Lagging
<1>2. lag[f] \in Nat /\ lag[f] =< 1 /\ (lag[f] > 0 => f \notin served)  BY <1>1 DEF Lagging
<1>3. lag'[f] \in {0, lag[f]} /\ (f \in served' /\ f \notin served => lag'[f] = 0)  BY DEF Catches
<1> QED  BY <1>2, <1>3

(* What it makes of the socket. *)
ShiftSock(e, i, d, s) ==
  s # 0 =>
    /\ e \in sock'[s].up => d.sock = s /\ (conns[e][i].sock = s \/ sock'[s].at = "tmp")
    /\ Peer(e) \in sock'[s].up =>
         \/ /\ Peer(e) \in sock[s].up /\ sock'[s].at = sock[s].at /\ sock'[s].cut = sock[s].cut
            /\ e = "srv" /\ AckIn(sock[s]) => AckIn(sock'[s])
         \/ Peer(e) = "srv" /\ sock'[s].at = "tmp"

(* What it makes of a connection that is open afterwards, or waits. *)
ShiftConn(e, i, d, s) ==
  LET c == conns[e][i]  x == sock[s]  y == sock'[s]  p == Peer(e) IN
  /\ d.sta = "open" =>
       /\ c.sock = s /\ d.sock = s /\ y.cut = x.cut
       /\ d.due + lag[e] > 0 /\ (d.due =< HBeatSndTm \/ (c.sta = "open" /\ d.due = c.due))
       /\ d.age \in 0 .. lag[e] \/ (c.sta = "open" /\ d.age = c.age /\ (y.in[e] = << >> => x.in[e] = << >>))
       /\ \/ p \notin x.up \/ x.cut \/ y.in[p] # << >>
          \/ c.sta = "open" /\ d.due = c.due /\ y.in[p] = x.in[p]
          \/ e = "cli" /\ c.sta = "init"
       /\ e = "srv" => /\ c.sta = "open" /\ (d.age = c.age \/ x.in[e] # << >>)
                       /\ y.in[e] = x.in[e] \/ y.in[e] = << >>
  /\ d.sta = "init" =>
       \/ y.at = "tmp" \/ y.cut \/ "srv" \notin y.up
       \/ c.sta = "init" /\ c.sock = s /\ acking = s /\ ~x.cut /\ y.in["srv"] = x.in["srv"]

ShiftAll(e, i, d, s) ==
  Shift(e, i, d, s) /\ ShiftPos(e, i) /\ ShiftSock(e, i, d, s) /\ ShiftConn(e, i, d, s)

LEMMA ShiftIs ==
  ASSUME LinkTypes, NEW e \in Ends, NEW i, NEW d, NEW s, Shift(e, i, d, s)
  PROVE  /\ i \in DOMAIN conns[e] /\ conns'[e][i] = d
         /\ \A f \in Ends : DOMAIN conns'[f] = DOMAIN conns[f]
         /\ \A f \in Ends : \A h \in DOMAIN conns[f] : ~(f = e /\ h = i) => conns'[f][h] = conns[f][h]
         /\ Peer(e) \in Ends /\ Peer(e) # e /\ Peer(Peer(e)) = e
         /\ \A f \in Ends : f # e => f = Peer(e)
  BY PeerIs DEF Shift, IsPut, Ends

LEMMA ShiftOwnBack ==
  ASSUME CntInv, CntInv', OwnBack, NEW e \in Ends, NEW i, NEW d, NEW s, ShiftAll(e, i, d, s)
  PROVE  OwnBack'
<1> USE DEF ShiftAll, CntInv
<1>1. /\ i \in DOMAIN conns[e] /\ conns'[e][i] = d
      /\ \A f \in Ends : DOMAIN conns'[f] = DOMAIN conns[f]
      /\ \A f \in Ends : \A h \in DOMAIN conns[f] : ~(f = e /\ h = i) => conns'[f][h] = conns[f][h]
      /\ \A f \in Ends : f # e => f = Peer(e)
  BY ShiftIs
<1>2. ASSUME NEW t \in Socks, NEW f \in sock'[t].up
      PROVE  (\E h \in DOMAIN conns'[f] : conns'[f][h].sock = t) \/ (f = "srv" /\ sock'[t].at = "tmp")
  <2>1. f \in Ends  BY DEF LinkTypes, Net, SockRec
  <2>2. t # 0  BY LinkAssumption
  <2>3. CASE t # s
    <3>1. sock'[t] = sock[t]  BY <2>3 DEF Shift
    <3>2. CASE f = "srv" /\ sock[t].at = "tmp"  BY <3>1, <3>2
    <3>3. CASE \E h \in DOMAIN conns[f] : conns[f][h].sock = t
      <4>1. PICK h \in DOMAIN conns[f] : conns[f][h].sock = t  BY <3>3
      <4>2. ~(f = e /\ h = i)  BY <2>2, <2>3, <4>1 DEF Shift
      <4> QED  BY <1>1, <2>1, <4>1, <4>2
    <3> QED  BY <3>1, <3>2, <3>3 DEF OwnBack
  <2>4. CASE t = s /\ f = e
    <3>1. d.sock = s  BY <2>2, <2>4 DEF ShiftSock
    <3> QED  BY <1>1, <2>1, <2>4, <3>1
  <2>5. CASE t = s /\ f # e
    <3>1. f = Peer(e)  BY <1>1, <2>1, <2>5
    <3>2. \/ f \in sock[s].up /\ sock'[s].at = sock[s].at
          \/ f = "srv" /\ sock'[s].at = "tmp"
      BY <2>2, <2>5, <3>1 DEF ShiftSock
    <3>3. CASE f \in sock[s].up /\ sock'[s].at = sock[s].at
      <4>1. (\E h \in DOMAIN conns[f] : conns[f][h].sock = t) \/ (f = "srv" /\ sock[t].at = "tmp")
        BY <2>5, <3>3 DEF OwnBack
      <4> QED  BY <1>1, <2>1, <2>5, <3>3, <4>1
    <3>4. CASE f = "srv" /\ sock'[s].at = "tmp"  BY <2>5, <3>4
    <3> QED  BY <3>2, <3>3, <3>4
  <2> QED  BY <2>3, <2>4, <2>5
<1> QED  BY <1>2 DEF OwnBack

LEMMA ShiftAnswered ==
  ASSUME CntInv, CntInv', Answered, NEW e \in Ends, NEW i, NEW d, NEW s, ShiftAll(e, i, d, s)
  PROVE  Answered'
<1> USE DEF ShiftAll, CntInv
<1>1. /\ i \in DOMAIN conns[e] /\ conns'[e][i] = d
      /\ \A f \in Ends : DOMAIN conns'[f] = DOMAIN conns[f]
      /\ \A f \in Ends : \A h \in DOMAIN conns[f] : ~(f = e /\ h = i) => conns'[f][h] = conns[f][h]
  BY ShiftIs
<1>2. acking' = acking  BY DEF Shift
<1>3. "cli" \in Ends /\ "srv" \in Ends /\ Peer("srv") = "cli"  BY DEF Ends, Peer
<1>4. ASSUME NEW h \in DOMAIN conns'["cli"], NEW c, c = conns'["cli"][h], NEW t, t = c.sock,
             c.sta = "init", sock'[t].at = "conn", acking # t, "srv" \in sock'[t].up, ~sock'[t].cut
      PROVE  AckIn(sock'[t])
  <2>1. ShapeOf("cli", c)  BY <1>2, <1>3, <1>4, StructConn
  <2>2. t # 0  BY <1>4, <2>1 DEF ShapeOf
  <2>3. t \in Socks /\ HasSock("cli", c, sock'[t], acking')  BY <1>2, <1>3, <1>4, <2>2, StructConn
  <2>4. "cli" \in sock'[t].up  BY <2>3 DEF HasSock
  <2>5. CASE e = "cli" /\ h = i
    <3>1. c = d  BY <1>1, <1>4, <2>5
    <3>2. t = s  BY <1>4, <2>2, <3>1 DEF Shift
    <3> QED  BY <1>4, <3>1, <3>2 DEF ShiftConn
  <2>6. CASE ~(e = "cli" /\ h = i)
    <3>1. h \in DOMAIN conns["cli"] /\ c = conns["cli"][h]  BY <1>1, <1>3, <1>4, <2>6
    <3>2. CASE t # s
      <4>1. sock'[t] = sock[t]  BY <2>3, <3>2 DEF Shift
      <4> QED  BY <1>4, <3>1, <4>1 DEF Answered
    <3>3. CASE t = s
      <4>1. e = "srv"
        <5>1. e = "cli" => h # i /\ conns[e][h].sock = s  BY <1>4, <2>6, <3>1, <3>3
        <5>2. e # "cli"  BY <2>2, <3>1, <3>3, <5>1 DEF Shift
        <5> QED  BY <5>2 DEF Ends
      <4>2. /\ sock'[s].at = sock[s].at /\ sock'[s].cut = sock[s].cut
            /\ AckIn(sock[s]) => AckIn(sock'[s])
        BY <1>3, <1>4, <2>2, <2>4, <3>3, <4>1 DEF ShiftSock
      <4>3. conns[e][i].sock = s  BY <1>4, <2>2, <3>3, <4>1 DEF ShiftSock
      <4>4. "srv" \in sock[s].up
        <5>1. HasSock("srv", conns[e][i], sock[s], acking)
          BY <1>1, <2>2, <3>3, <4>1, <4>3, StructConn
        <5> QED  BY <5>1 DEF HasSock
      <4>5. AckIn(sock[s])  BY <1>4, <3>1, <3>3, <4>2, <4>4 DEF Answered
      <4> QED  BY <3>3, <4>2, <4>5
    <3> QED  BY <3>2, <3>3
  <2> QED  BY <2>5, <2>6
<1> QED  BY <1>2, <1>4 DEF Answered

LEMMA ShiftPace ==
  ASSUME CntInv, CntInv', Pace, NEW e \in Ends, NEW i, NEW d, NEW s, ShiftAll(e, i, d, s)
  PROVE  Pace'
<1> USE DEF ShiftAll, CntInv
<1> DEFINE p == Peer(e)  c == conns[e][i]
<1>1. /\ i \in DOMAIN conns[e] /\ conns'[e][i] = d
      /\ \A f \in Ends : DOMAIN conns'[f] = DOMAIN conns[f]
      /\ \A f \in Ends : \A h \in DOMAIN conns[f] : ~(f = e /\ h = i) => conns'[f][h] = conns[f][h]
      /\ p \in Ends /\ p # e /\ Peer(p) = e
      /\ \A f \in Ends : f # e => f = p
  BY ShiftIs
<1>2. acking' = acking /\ d \in Conn /\ HBeatSndTm \in Nat  BY LinkAssumption DEF Shift
<1>3. \A f \in Ends : \A h \in DOMAIN conns[f] :
        ~(f = e /\ h = i) => /\ (Done(f, h)' <=> Done(f, h))
                              /\ (TwiceIn(f, h)' => TwiceIn(f, h))
                              /\ (Behind(f, h)' <=> Behind(f, h))
  BY DEF ShiftPos, Alike
<1>0. lag[e] \in Nat /\ lag[e] =< 1 /\ (TwiceIn(e, i)' => lag[e] = 0) /\ (lag[e] > 0 => Behind(e, i))
  <2>1. lag[e] \in Nat  BY DEF LinkTypes
  <2>2. lag[e] =< 1 /\ (lag[e] > 0 => e \notin served)  BY DEF Pace, Lagging
  <2>3. (TwiceIn(e, i)' => e \in served) /\ (lag[e] > 0 => i >= pos[e])  BY DEF ShiftPos
  <2> QED  BY <2>1, <2>2, <2>3 DEF Behind
<1>4. \A f \in Ends : \A h \in DOMAIN conns[f] : conns[f][h] \in Conn  BY StructConn
<1>5. \A f \in Ends : \A h \in DOMAIN conns[f] : conns[f][h].sock = 0 => conns[f][h].sta = "closed"
  <2>1. \A f \in Ends : \A h \in DOMAIN conns[f] : ShapeOf(f, conns[f][h])  BY StructConn
  <2> QED  BY <2>1 DEF ShapeOf
(* The sockets of the other connections of e, and of those of the other end but one. *)
<1>6. ASSUME NEW f \in Ends, NEW h \in DOMAIN conns[f], ~(f = e /\ h = i),
             conns[f][h].sock # 0, conns[f][h].sock # s
      PROVE  sock'[conns[f][h].sock] = sock[conns[f][h].sock]
  <2>1. conns[f][h].sock \in Socks  BY <1>4, <1>6 DEF Conn
  <2> QED  BY <1>6, <2>1 DEF Shift
<1>7. ASSUME NEW h \in DOMAIN conns[e], h # i, conns[e][h].sock # 0 PROVE conns[e][h].sock # s
  BY <1>7 DEF Shift
<1>8. ASSUME NEW f \in Ends, NEW h \in DOMAIN conns'[f] PROVE Beats(f, h)'
  <2>1. CASE f = e /\ h = i
    <3>0. Beats(e, i)  BY <1>1 DEF Pace
    <3>1. d.sta = "open" => d.due =< HBeatSndTm /\ d.due + lag[e] > 0  BY <3>0 DEF ShiftConn, Beats
    <3>2. d.due \in Int  BY <1>2 DEF Conn
    <3>3. d.sta = "open" => d.due >= 0 /\ (TwiceIn(e, i)' => d.due > 0)  BY <1>0, <3>1, <3>2
    <3> QED  BY <1>1, <2>1, <3>1, <3>3 DEF Beats
  <2>2. CASE ~(f = e /\ h = i)
    <3>1. conns'[f][h] = conns[f][h] /\ h \in DOMAIN conns[f]  BY <1>1, <2>2
    <3>2. Beats(f, h)  BY <3>1 DEF Pace
    <3>3. (TwiceIn(f, h)' => TwiceIn(f, h)) /\ (Behind(f, h)' <=> Behind(f, h))  BY <1>3, <2>2, <3>1
    <3> QED  BY <3>1, <3>2, <3>3 DEF Beats
  <2> QED  BY <2>1, <2>2
(* The connections of a pair neither of which is the one that changes. *)
<1>9. ASSUME NEW f \in Ends, NEW h \in DOMAIN conns[f], NEW j \in DOMAIN conns[Peer(f)],
             ~(f = e /\ h = i), ~(Peer(f) = e /\ j = i), conns[f][h].sock = conns[Peer(f)][j].sock,
             conns[f][h].sock # 0
      PROVE  sock'[conns[f][h].sock] = sock[conns[f][h].sock]
  <2>1. conns[f][h].sock # s
    <3>1. CASE f = e  BY <1>7, <1>9, <3>1
    <3>2. CASE f # e
      <4>1. Peer(f) = e  BY <1>1, <3>2
      <4>2. j # i /\ j \in DOMAIN conns[e]  BY <1>9, <4>1
      <4> QED  BY <1>7, <1>9, <4>1, <4>2
    <3> QED  BY <3>1, <3>2
  <2> QED  BY <1>6, <1>9, <2>1
<1>10. ASSUME NEW j \in DOMAIN conns[p], Quiet(e, i, j)' PROVE Fresh(e, i, j)'
  <2> DEFINE g == conns[p][j]
  <2>1. conns'[p][j] = g /\ g \in Conn /\ g.sta = "open"  BY <1>1, <1>4, <1>10 DEF Quiet
  <2>2. d.sta = "open" /\ d.sock = g.sock /\ ~sock'[d.sock].cut /\ sock'[d.sock].in[e] = << >>
    BY <1>1, <1>10, <2>1 DEF Quiet
  <2>3. c.sock = s /\ d.sock = s /\ sock'[s].cut = sock[s].cut
        /\ (d.age \in 0 .. lag[e] \/ (c.sta = "open" /\ d.age = c.age
                            /\ (sock'[s].in[e] = << >> => sock[s].in[e] = << >>)))
    BY <2>2 DEF ShiftConn
  <2>4. Beats(p, j) /\ Fresh(e, i, j)  BY <1>1 DEF Pace
  <2>5. g.due =< HBeatSndTm  BY <2>1, <2>4 DEF Beats
  <2>6. (Done(p, j)' <=> Done(p, j)) /\ (Behind(p, j)' <=> Behind(p, j))  BY <1>1, <1>3
  <2> HIDE DEF g, c, p
  <2>7. CASE d.age \in 0 .. lag[e]
    <3>1. g.due \in Int /\ d.age \in Int /\ d.age =< 1  BY <1>0, <1>2, <2>1, <2>7 DEF Conn
    <3>2. d.age + g.due =< HBeatSndTm + 2 /\ d.age + g.due =< HBeatSndTm + 3  BY <1>2, <2>5, <3>1
    <3> QED  BY <1>1, <2>1, <3>2 DEF Fresh, p
  <2>8. CASE c.sta = "open" /\ d.age = c.age /\ sock[s].in[e] = << >>
    <3>1. Quiet(e, i, j)  BY <2>1, <2>2, <2>3, <2>8 DEF Quiet, g, c, p
    <3>2. /\ c.age + g.due =< HBeatSndTm + 3
          /\ g.due # 0 \/ Done(p, j) \/ Behind(p, j) => c.age + g.due =< HBeatSndTm + 2
      <4>1. Fresh(e, i, j)  BY <2>4
      <4>2. conns[e][i] = c /\ conns[Peer(e)][j] = g /\ Peer(e) = p  BY DEF c, g, p
      <4> QED  BY <3>1, <4>1, <4>2 DEF Fresh
    <3>3. /\ d.age + g.due =< HBeatSndTm + 3
          /\ g.due # 0 \/ Done(p, j)' \/ Behind(p, j)' => d.age + g.due =< HBeatSndTm + 2
      BY <2>6, <2>8, <3>2
    <3>4. conns'[e][i] = d /\ conns'[Peer(e)][j] = g  BY <1>1, <2>1 DEF p
    <3>5. (Done(Peer(e), j)' => Done(p, j)') /\ (Behind(Peer(e), j)' => Behind(p, j)')  BY DEF p
    <3> QED  BY <3>3, <3>4, <3>5 DEF Fresh
  <2> QED  BY <2>2, <2>3, <2>7, <2>8
<1>11. ASSUME NEW j \in DOMAIN conns[p], Quiet(p, j, i)' PROVE Fresh(p, j, i)'
  <2> DEFINE g == conns[p][j]
  <2>1. conns'[p][j] = g /\ g \in Conn /\ g.sta = "open"  BY <1>1, <1>4, <1>11 DEF Quiet
  <2>2. d.sta = "open" /\ d.sock = g.sock /\ ~sock'[g.sock].cut /\ sock'[g.sock].in[p] = << >>
    BY <1>1, <1>11, <2>1 DEF Quiet
  <2>3. /\ c.sock = s /\ d.sock = s /\ sock'[s].cut = sock[s].cut
        /\ d.due =< HBeatSndTm \/ (c.sta = "open" /\ d.due = c.due)
        /\ d.due + lag[e] > 0
        /\ \/ p \notin sock[s].up \/ sock[s].cut \/ sock'[s].in[p] # << >>
           \/ c.sta = "open" /\ d.due = c.due /\ sock'[s].in[p] = sock[s].in[p]
           \/ e = "cli" /\ c.sta = "init"
    BY <2>2 DEF ShiftConn
  <2>4. p \in sock[s].up
    <3>1. g.sock # 0  BY <1>1, <1>5, <2>1
    <3>2. HasSock(p, g, sock[g.sock], acking)  BY <1>1, <3>1, StructConn
    <3> QED  BY <2>2, <2>3, <3>2 DEF HasSock
  <2>5. g.age + d.due =< HBeatSndTm + 2
    <3>1. CASE c.sta = "open" /\ d.due = c.due /\ sock'[s].in[p] = sock[s].in[p]
      <4>1. Fresh(p, j, i)  BY <1>1 DEF Pace
      <4>2. Quiet(p, j, i)  BY <1>1, <2>1, <2>2, <2>3, <3>1 DEF Quiet
      <4>3. conns[p][j] = g /\ conns[Peer(p)][i] = c  BY <1>1
      <4>4. c.due # 0 \/ Behind(Peer(p), i)
        <5>1. c.due # 0 \/ lag[e] > 0  BY <1>0, <2>3, <3>1
        <5> QED  BY <1>0, <1>1, <5>1
      <4>5. g.age + c.due =< HBeatSndTm + 2  BY <4>1, <4>2, <4>3, <4>4 DEF Fresh
      <4> QED  BY <3>1, <4>5
    <3>2. CASE e = "cli" /\ c.sta = "init"
      <4>1. p = "srv"  BY <3>2 DEF Peer
      <4>2. Young(i, j)  BY <1>1, <3>2, <4>1 DEF Pace
      <4>3. g.age =< 2  BY <2>1, <2>2, <2>3, <3>2, <4>1, <4>2 DEF Young
      <4>4. d.due =< HBeatSndTm  BY <2>3, <3>2
      <4> HIDE DEF g
      <4>5. g.age \in Int /\ d.due \in Int  BY <1>2, <2>1 DEF Conn
      <4> QED  BY <1>2, <4>3, <4>4, <4>5
    <3> QED  BY <2>2, <2>3, <2>4, <3>1, <3>2
  <2> HIDE DEF g, c, p
  <2>6. g.age + d.due =< HBeatSndTm + 3
    <3>1. g.age \in Int /\ d.due \in Int  BY <1>2, <2>1 DEF Conn
    <3> QED  BY <1>2, <2>5, <3>1
  <2>7. conns'[p][j] = g /\ conns'[Peer(p)][i] = d  BY <1>1, <2>1
  <2> QED  BY <2>5, <2>6, <2>7 DEF Fresh
<1>12. ASSUME NEW f \in Ends, NEW h \in DOMAIN conns'[f], NEW j \in DOMAIN conns'[Peer(f)]
       PROVE  Fresh(f, h, j)'
  <2>0. Peer(f) \in Ends  BY PeerIs
  <2>1. h \in DOMAIN conns[f] /\ j \in DOMAIN conns[Peer(f)]  BY <1>1, <2>0
  <2>2. CASE ~Quiet(f, h, j)'  BY <2>2 DEF Fresh
  <2>3. CASE Quiet(f, h, j)' /\ f = e /\ h = i  BY <1>10, <2>1, <2>3
  <2>4. CASE Quiet(f, h, j)' /\ f # e /\ j = i  BY <1>1, <1>11, <2>1, <2>4
  <2>5. CASE Quiet(f, h, j)' /\ ~(f = e /\ h = i) /\ ~(f # e /\ j = i)
    <3>1. ~(Peer(f) = e /\ j = i)  BY <2>5, PeerIs
    <3>2. conns'[f][h] = conns[f][h] /\ conns'[Peer(f)][j] = conns[Peer(f)][j]
      BY <1>1, <2>0, <2>1, <2>5, <3>1
    <3>3. conns[f][h].sock = conns[Peer(f)][j].sock /\ conns[f][h].sock # 0
      <4>1. conns[f][h].sta = "open" /\ conns[f][h].sock = conns[Peer(f)][j].sock  BY <2>5, <3>2 DEF Quiet
      <4> QED  BY <1>5, <2>1, <4>1
    <3>4. sock'[conns[f][h].sock] = sock[conns[f][h].sock]  BY <1>9, <2>1, <2>5, <3>1, <3>3
    <3>5. Quiet(f, h, j)  BY <2>5, <3>2, <3>4 DEF Quiet
    <3>6. Fresh(f, h, j)  BY <2>1 DEF Pace
    <3>7. (Done(Peer(f), j)' <=> Done(Peer(f), j)) /\ (Behind(Peer(f), j)' <=> Behind(Peer(f), j))
      BY <1>3, <2>0, <2>1, <3>1
    <3> QED  BY <3>2, <3>5, <3>6, <3>7 DEF Fresh
  <2> QED  BY <2>2, <2>3, <2>4, <2>5
<1>13. ASSUME NEW h \in DOMAIN conns'["cli"], NEW j \in DOMAIN conns'["srv"] PROVE Young(h, j)'
  <2>1. "cli" \in Ends /\ "srv" \in Ends /\ Peer("cli") = "srv" /\ Peer("srv") = "cli"
    BY DEF Ends, Peer
  <2>2. h \in DOMAIN conns["cli"] /\ j \in DOMAIN conns["srv"]  BY <1>1, <2>1
  <2>3. Young(h, j)  BY <2>2 DEF Pace
  <2> SUFFICES ASSUME conns'["cli"][h].sta = "init", conns'["srv"][j].sta = "open",
                      conns'["srv"][j].sock = conns'["cli"][h].sock, ~sock'[conns'["cli"][h].sock].cut
               PROVE  /\ sock'[conns'["cli"][h].sock].in["srv"] = << >>
                      /\ conns'["srv"][j].age =< 2
                      /\ Done("cli", h)' => conns'["srv"][j].age =< 1
                      /\ acking = conns'["cli"][h].sock \/ TwiceIn("cli", h)' => conns'["srv"][j].age = 0
    BY <1>2 DEF Young
  <2>4. CASE e = "cli" /\ h = i
    <3>1. conns'["srv"][j] = conns["srv"][j] /\ conns'["cli"][h] = d  BY <1>1, <2>1, <2>2, <2>4
    <3>2. conns["srv"][j].sta = "open" /\ d.sta = "init" /\ conns["srv"][j].sock = d.sock  BY <3>1
    <3>3. conns["srv"][j].sock # 0  BY <1>5, <2>1, <2>2, <3>2
    <3>4. d.sock = s  BY <3>2, <3>3 DEF Shift
    <3>5. "srv" \in sock'[s].up /\ sock'[s].at # "tmp"
      <4>1. HasSock("srv", conns'["srv"][j], sock'[s], acking')
        <5>1. conns'["srv"][j].sock = s /\ s # 0  BY <3>1, <3>2, <3>3, <3>4
        <5> QED  BY <2>1, <5>1, StructConn
      <4> QED  BY <4>1 DEF HasSock
    <3>6. c.sta = "init" /\ c.sock = s /\ acking = s /\ ~sock[s].cut /\ sock'[s].in["srv"] = sock[s].in["srv"]
      BY <3>1, <3>2, <3>4, <3>5 DEF ShiftConn
    <3>7. conns["srv"][j].age = 0 /\ sock[s].in["srv"] = << >>
      BY <2>3, <2>4, <3>2, <3>4, <3>6 DEF Young
    <3> QED  BY <3>1, <3>4, <3>6, <3>7
  <2>5. CASE e = "srv" /\ j = i
    <3>1. conns'["cli"][h] = conns["cli"][h] /\ conns'["srv"][j] = d  BY <1>1, <2>1, <2>2, <2>5
    <3>2. /\ d.sta = "open" /\ c.sta = "open" /\ c.sock = s /\ d.sock = s /\ sock'[s].cut = sock[s].cut
          /\ d.age = c.age \/ sock[s].in["srv"] # << >>
          /\ sock'[s].in["srv"] = sock[s].in["srv"] \/ sock'[s].in["srv"] = << >>
      BY <2>5, <3>1 DEF ShiftConn
    <3>3. /\ sock[s].in["srv"] = << >>
          /\ c.age =< 2
          /\ Done("cli", h) => c.age =< 1
          /\ acking = s \/ TwiceIn("cli", h) => c.age = 0
      BY <2>3, <2>5, <3>1, <3>2 DEF Young
    <3>4. (Done("cli", h)' <=> Done("cli", h)) /\ (TwiceIn("cli", h)' => TwiceIn("cli", h))
      BY <1>3, <2>1, <2>2, <2>5
    <3>5. conns'["cli"][h].sock = s  BY <3>1, <3>2
    <3> HIDE DEF c
    <3> QED  BY <3>1, <3>2, <3>3, <3>4, <3>5
  <2>6. CASE ~(e = "cli" /\ h = i) /\ ~(e = "srv" /\ j = i)
    <3>1. conns'["cli"][h] = conns["cli"][h] /\ conns'["srv"][j] = conns["srv"][j]
      BY <1>1, <2>1, <2>2, <2>6
    <3>2. conns["cli"][h].sock = conns["srv"][j].sock /\ conns["cli"][h].sock # 0
      BY <1>5, <2>1, <2>2, <3>1
    <3>3. sock'[conns["cli"][h].sock] = sock[conns["cli"][h].sock]
      BY <1>9, <2>1, <2>2, <2>6, <3>2
    <3>4. (Done("cli", h)' <=> Done("cli", h)) /\ (TwiceIn("cli", h)' => TwiceIn("cli", h))
      BY <1>3, <2>1, <2>2, <2>6
    <3> QED  BY <2>3, <3>1, <3>2, <3>3, <3>4 DEF Young
  <2> QED  BY <2>4, <2>5, <2>6
<1>14. Lagging'
  <2>1. Lagging /\ Catches  BY DEF Pace, ShiftPos
  <2> QED  BY <2>1, Lagged
<1> QED  BY <1>8, <1>12, <1>13, <1>14 DEF Pace

LEMMA ShiftTime ==
  ASSUME CntInv, CntInv', TimeInv, NEW e \in Ends, NEW i, NEW d, NEW s, ShiftAll(e, i, d, s)
  PROVE  TimeInv'
<1>1. late' = late  BY DEF ShiftAll, Shift
<1> QED  BY <1>1, ShiftOwnBack, ShiftAnswered, ShiftPace DEF TimeInv

-----------------------------------------------------------------------------
(* A pass over a connection, and what is sent before it, is such a change. *)

LEMMA ConnPassPos ==
  ASSUME LinkTypes, NEW e \in Ends, pos[e] \in DOMAIN conns[e], pos[e] > 0,
         pos[e] = Len(conns[e]) => Served(e),
         pos[e] # Len(conns[e]) => pos' = [pos EXCEPT ![e] = @ + 1] /\ UNCHANGED <<lag, served>>
  PROVE  ShiftPos(e, pos[e])
<1>1. pos \in [Ends -> Int] /\ lag \in [Ends -> Nat] /\ served \in SUBSET Ends  BY DEF LinkTypes
<1> DEFINE i == pos[e]
<1>2. ASSUME NEW f \in Ends, NEW h \in DOMAIN conns[f]
      PROVE  h \in 1 .. Len(conns[f]) /\ Len(conns[f]) \in Nat /\ h > 0 /\ h \in Nat
  <2>1. conns[f] \in Seq(Conn)  BY DEF LinkTypes
  <2> QED  BY <2>1
<1>3. CASE i = Len(conns[e])
  <2>1. /\ pos'[e] = 0 /\ lag'[e] = 0 /\ e \in served'
        /\ \A g \in Ends : g # e => pos'[g] = pos[g]
        /\ \A g \in Ends : g # e => lag'[g] = lag[g]
        /\ \A g \in Ends : g # e => (g \in served' <=> g \in served)
    <3>1. Served(e)  BY <1>3
    <3> QED  BY <1>1, <3>1, ServedIs
  <2>2. Catches
    <3> SUFFICES ASSUME NEW f \in Ends
                 PROVE  lag'[f] \in {0, lag[f]} /\ (f \in served' /\ f \notin served => lag'[f] = 0)
      BY DEF Catches
    <3>1. CASE f = e  BY <2>1, <3>1
    <3>2. CASE f # e  BY <2>1, <3>2
    <3> QED  BY <3>1, <3>2
  <2>3. ~TwiceIn(e, i)'
    <3>1. i > 0 /\ i \in Int  BY <1>1
    <3> DEFINE m == i
    <3>2. ~(m < 0)  BY <3>1
    <3> QED  BY <2>1, <3>2 DEF TwiceIn
  <2>4. ASSUME NEW f \in Ends, NEW h \in DOMAIN conns[f], ~(f = e /\ h = i) PROVE Alike(f, h)
    <3>1. CASE f = e
      <4>1. h < i /\ ~(h >= i) /\ ~(h < 0)  BY <1>2, <1>3, <2>4, <3>1
      <4> QED  BY <2>1, <3>1, <4>1 DEF Alike, Done, TwiceIn, Behind
    <3>2. CASE f # e  BY <2>1, <3>2 DEF Alike, Done, TwiceIn, Behind
    <3> QED  BY <3>1, <3>2
  <2> QED  BY <1>1, <2>2, <2>3, <2>4 DEF ShiftPos
<1>4. CASE i # Len(conns[e])
  <2>1. /\ pos'[e] = i + 1 /\ served' = served /\ lag' = lag
        /\ \A g \in Ends : g # e => pos'[g] = pos[g]
    BY <1>1, <1>4
  <2>2. Catches  BY <2>1 DEF Catches
  <2>3. TwiceIn(e, i)' => e \in served  BY <2>1 DEF TwiceIn
  <2>4. ASSUME NEW f \in Ends, NEW h \in DOMAIN conns[f], ~(f = e /\ h = i) PROVE Alike(f, h)
    <3>1. CASE f = e
      <4>1. (h < pos'[e] <=> h < i) /\ (h >= pos'[e] <=> h >= i)  BY <1>1, <1>2, <2>1, <2>4, <3>1
      <4> QED  BY <2>1, <3>1, <4>1 DEF Alike, Done, TwiceIn, Behind
    <3>2. CASE f # e  BY <2>1, <3>2 DEF Alike, Done, TwiceIn, Behind
    <3> QED  BY <3>1, <3>2
  <2> QED  BY <1>1, <2>2, <2>3, <2>4 DEF ShiftPos
<1> QED  BY <1>3, <1>4

LEMMA SndPassPos ==
  ASSUME LinkTypes, NEW e \in Ends, pos[e] = 0, pos' = [pos EXCEPT ![e] = ReadsTick],
         UNCHANGED <<lag, served>>
  PROVE  /\ Catches /\ lag[e] = 0
         /\ \A f \in Ends : \A h \in DOMAIN conns[f] : Alike(f, h)
         /\ \A h \in DOMAIN conns[e] : ~TwiceIn(e, h)'
<1>1. pos \in [Ends -> Int] /\ lag[e] = 0  BY DEF LinkTypes
<1>2. pos'[e] = -1 /\ \A f \in Ends : f # e => pos'[f] = pos[f]  BY <1>1 DEF ReadsTick
<1>3. ASSUME NEW h \in DOMAIN conns[e] PROVE ~(h < 0) /\ ~(h < -1)
  <2>1. conns[e] \in Seq(Conn)  BY DEF LinkTypes
  <2>2. h \in Nat  BY <2>1
  <2> QED  BY <2>2
<1>4. ASSUME NEW f \in Ends, NEW h \in DOMAIN conns[f] PROVE Alike(f, h)
  <2>1. CASE f = e  BY <1>1, <1>2, <1>3, <2>1 DEF Alike, Done, TwiceIn, Behind
  <2>2. CASE f # e  BY <1>2, <2>2 DEF Alike, Done, TwiceIn, Behind
  <2> QED  BY <2>1, <2>2
<1>5. Catches  BY DEF Catches
<1>6. \A h \in DOMAIN conns[e] : ~TwiceIn(e, h)'  BY <1>2, <1>3 DEF TwiceIn
<1> QED  BY <1>1, <1>4, <1>5, <1>6

LEMMA TickPassPos ==
  ASSUME LinkTypes, NEW e \in Ends, pos[e] = ReadsTick, conns[e] = << >> => Served(e),
         conns[e] # << >> => pos' = [pos EXCEPT ![e] = 1] /\ UNCHANGED <<lag, served>>
  PROVE  Catches /\ \A f \in Ends : \A h \in DOMAIN conns[f] : Alike(f, h)
<1>1. pos \in [Ends -> Int] /\ lag \in [Ends -> Nat] /\ served \in SUBSET Ends /\ pos[e] = -1
  BY DEF LinkTypes, ReadsTick
<1>2. lag[e] = 0  BY <1>1 DEF LinkTypes
<1>3. CASE conns[e] = << >>
  <2>1. /\ lag'[e] = 0
        /\ \A g \in Ends : g # e => pos'[g] = pos[g]
        /\ \A g \in Ends : g # e => lag'[g] = lag[g]
        /\ \A g \in Ends : g # e => (g \in served' <=> g \in served)
    <3>1. Served(e)  BY <1>3
    <3> QED  BY <1>1, <3>1, ServedIs
  <2>2. Catches
    <3> SUFFICES ASSUME NEW f \in Ends
                 PROVE  lag'[f] \in {0, lag[f]} /\ (f \in served' /\ f \notin served => lag'[f] = 0)
      BY DEF Catches
    <3>1. CASE f = e  BY <2>1, <3>1
    <3>2. CASE f # e  BY <2>1, <3>2
    <3> QED  BY <3>1, <3>2
  <2>3. ASSUME NEW f \in Ends, NEW h \in DOMAIN conns[f] PROVE Alike(f, h)
    <3>1. f # e  BY <1>3, <2>3
    <3> QED  BY <2>1, <3>1 DEF Alike, Done, TwiceIn, Behind
  <2> QED  BY <2>2, <2>3
<1>4. CASE conns[e] # << >>
  <2>1. /\ pos'[e] = 1 /\ served' = served /\ lag' = lag
        /\ \A g \in Ends : g # e => pos'[g] = pos[g]
    BY <1>1, <1>4
  <2>2. Catches  BY <2>1 DEF Catches
  <2>3. ASSUME NEW f \in Ends, NEW h \in DOMAIN conns[f] PROVE Alike(f, h)
    <3>1. CASE f = e
      <4>1. ~(h < 1) /\ ~(h < -1)
        <5>1. conns[e] \in Seq(Conn)  BY DEF LinkTypes
        <5>2. h \in Nat /\ h > 0  BY <2>3, <3>1, <5>1
        <5> QED  BY <5>2
      <4> QED  BY <1>1, <1>2, <2>1, <3>1, <4>1 DEF Alike, Done, TwiceIn, Behind
    <3>2. CASE f # e  BY <2>1, <3>2 DEF Alike, Done, TwiceIn, Behind
    <3> QED  BY <3>1, <3>2
  <2> QED  BY <2>2, <2>3
<1> QED  BY <1>3, <1>4

LEMMA TimeSame ==
  ASSUME CntInv, TimeInv, UNCHANGED <<conns, sock, acking, late>>,
         Catches, \A f \in Ends : \A h \in DOMAIN conns[f] : Alike(f, h)
  PROVE  TimeInv'
<1>1. OwnBack'  BY DEF OwnBack, TimeInv
<1>2. Answered'  BY DEF Answered, TimeInv
<1>3. ASSUME Pace PROVE Pace'
  <2>1. ASSUME NEW e \in Ends, NEW i \in DOMAIN conns[e] PROVE Beats(e, i)'
    <3>1. Beats(e, i)  BY <1>3 DEF Pace
    <3>2. (TwiceIn(e, i)' => TwiceIn(e, i)) /\ (Behind(e, i)' <=> Behind(e, i))  BY DEF Alike
    <3> QED  BY <3>1, <3>2 DEF Beats
  <2>2. ASSUME NEW e \in Ends, NEW i \in DOMAIN conns[e], NEW j \in DOMAIN conns[Peer(e)]
        PROVE  Fresh(e, i, j)'
    <3>1. Fresh(e, i, j)  BY <1>3 DEF Pace
    <3>2. Peer(e) \in Ends  BY PeerIs
    <3>3. (Done(Peer(e), j)' <=> Done(Peer(e), j)) /\ (Behind(Peer(e), j)' <=> Behind(Peer(e), j))
      BY <3>2 DEF Alike
    <3>4. Quiet(e, i, j)' <=> Quiet(e, i, j)  BY DEF Quiet
    <3> QED  BY <3>1, <3>3, <3>4 DEF Fresh
  <2>3. ASSUME NEW i \in DOMAIN conns["cli"], NEW j \in DOMAIN conns["srv"] PROVE Young(i, j)'
    <3>1. Young(i, j)  BY <1>3 DEF Pace
    <3>2. (Done("cli", i)' <=> Done("cli", i)) /\ (TwiceIn("cli", i)' => TwiceIn("cli", i))
      BY DEF Ends, Alike
    <3> QED  BY <3>1, <3>2 DEF Young
  <2>4. Lagging'  BY <1>3, Lagged DEF Pace, CntInv
  <2> QED  BY <2>1, <2>2, <2>3, <2>4 DEF Pace
<1> QED  BY <1>1, <1>2, <1>3 DEF TimeInv

(* The other connections of an end have other sockets. *)
LEMMA OthersApart ==
  ASSUME CntInv, NEW e \in Ends, NEW i \in DOMAIN conns[e], conns[e][i].sock # 0
  PROVE  \A h \in DOMAIN conns[e] : h # i => conns[e][h].sock # conns[e][i].sock
  BY DEF CntInv, Struct

LEMMA AckAdded ==
  ASSUME NEW x \in SockRec, NEW e \in Ends, NEW msgs \in Seq(Msg), AckIn(x)
  PROVE  AckIn(Added(x, e, msgs))
<1>1. x.in \in [Ends -> Seq(Msg)] /\ "cli" \in Ends  BY DEF SockRec, Ends
<1>2. CASE Added(x, e, msgs).in["cli"] = x.in["cli"]  BY <1>2 DEF AckIn
<1>3. CASE Added(x, e, msgs).in["cli"] = x.in["cli"] \o msgs
  <2>1. PICK j \in DOMAIN x.in["cli"] : x.in["cli"][j].code = "ack"  BY DEF AckIn
  <2> DEFINE in == x.in["cli"]
  <2>2. in \in Seq(Msg)  BY <1>1
  <2>3. j \in DOMAIN in /\ in[j].code = "ack"  BY <2>1
  <2> HIDE DEF in
  <2>4. j \in DOMAIN (in \o msgs) /\ (in \o msgs)[j] = in[j]  BY <2>2, <2>3
  <2> QED  BY <1>3, <2>3, <2>4 DEF AckIn, in
<1>4. \/ Added(x, e, msgs).in["cli"] = x.in["cli"]
      \/ Added(x, e, msgs).in["cli"] = x.in["cli"] \o msgs
  <2>1. CASE e = "cli"  BY <2>1, AddedIs
  <2>2. CASE e = "srv"
    <3>1. Peer(e) = "cli"  BY <2>2 DEF Peer
    <3>2. \/ Added(x, e, msgs) = x
          \/ Added(x, e, msgs).in[Peer(e)] = x.in[Peer(e)] \o msgs
      BY AddedIs
    <3> QED  BY <3>1, <3>2
  <2> QED  BY <2>1, <2>2 DEF Ends
<1> QED  BY <1>2, <1>3, <1>4

(* A connection that is closed gives up its socket. *)
LEMMA ShutShift ==
  ASSUME CntInv, NEW e \in Ends, NEW i \in DOMAIN conns[e], NEW d \in Conn, NEW s \in Socks,
         conns[e][i].sock = s, d.sock = 0, d.sta = "closed", conns' = Put(conns, e, i, d),
         NEW x \in SockRec, x = sock[s] \/ x = Emptied(sock[s], e),
         sock' = [sock EXCEPT ![s] = Shut(x, e)], UNCHANGED <<acking, late>>
  PROVE  Shift(e, i, d, s) /\ ShiftSock(e, i, d, s) /\ ShiftConn(e, i, d, s)
<1>1. sock \in Net /\ sock[s] \in SockRec /\ conns \in [Ends -> Seq(Conn)]
  BY DEF CntInv, LinkTypes, Net
<1>2. s # 0  BY LinkAssumption
<1>3. IsPut(conns', conns, e, i, d)  BY <1>1, PutIs
<1>4. \A t \in Socks : t # s => sock'[t] = sock[t]  BY <1>1 DEF Net
<1>5. Shift(e, i, d, s)
  <2>1. \A h \in DOMAIN conns[e] : h # i => conns[e][h].sock # s  BY <1>2, OthersApart
  <2> QED  BY <1>3, <1>4, <2>1 DEF Shift
<1> DEFINE y == Shut(x, e)
<1>6. sock'[s] = y  BY <1>1 DEF Net
<1>7. /\ x.up = sock[s].up /\ x.at = sock[s].at /\ x.cut = sock[s].cut
      /\ x.in[Peer(e)] = sock[s].in[Peer(e)]
  BY <1>1, EmptiedIs
<1>8. e \notin y.up
  <2>1. CASE x.up = {e}  BY <2>1, ShutIs, NoSockIs
  <2>2. CASE x.up # {e}  BY <2>2, ShutIs
  <2> QED  BY <2>1, <2>2
<1>9. y.up # {} => y.up = x.up \ {e} /\ y.at = x.at /\ y.cut = x.cut /\ y.in = x.in
  <2>1. CASE x.up = {e}  BY <2>1, ShutIs, NoSockIs
  <2>2. CASE x.up # {e}  BY <2>2, ShutIs
  <2> QED  BY <2>1, <2>2
<1> HIDE DEF y
<1>10. ShiftSock(e, i, d, s)
  <2>1. ASSUME Peer(e) \in y.up
        PROVE  /\ Peer(e) \in sock[s].up /\ y.at = sock[s].at /\ y.cut = sock[s].cut
               /\ e = "srv" /\ AckIn(sock[s]) => AckIn(y)
    <3>1. y.up = x.up \ {e} /\ y.at = x.at /\ y.cut = x.cut /\ y.in = x.in  BY <1>9, <2>1
    <3>2. ASSUME e = "srv" PROVE y.in["cli"] = sock[s].in["cli"]
      <4>1. Peer(e) = "cli"  BY <3>2 DEF Peer
      <4> QED  BY <1>7, <3>1, <4>1
    <3> QED  BY <1>7, <2>1, <3>1, <3>2 DEF AckIn
  <2> QED  BY <1>6, <1>8, <2>1 DEF ShiftSock
<1>11. ShiftConn(e, i, d, s)  BY DEF ShiftConn
<1> QED  BY <1>5, <1>10, <1>11

(* A connection that stays keeps its socket. *)
LEMMA KeepShift ==
  ASSUME CntInv, NEW e \in Ends, NEW i \in DOMAIN conns[e], NEW d \in Conn, NEW s \in Socks,
         conns[e][i].sock = s, d.sock = s, conns' = Put(conns, e, i, d),
         NEW y \in SockRec, y.up = sock[s].up, y.at = sock[s].at, y.cut = sock[s].cut,
         sock' = [sock EXCEPT ![s] = y], UNCHANGED <<acking, late>>
  PROVE  /\ Shift(e, i, d, s) /\ sock'[s] = y
         /\ e = "cli" => ShiftSock(e, i, d, s)
         /\ (AckIn(sock[s]) => AckIn(y)) => ShiftSock(e, i, d, s)
<1>1. sock \in Net /\ conns \in [Ends -> Seq(Conn)]  BY DEF CntInv, LinkTypes
<1>2. s # 0  BY LinkAssumption
<1>3. IsPut(conns', conns, e, i, d)  BY <1>1, PutIs
<1>4. sock'[s] = y /\ \A t \in Socks : t # s => sock'[t] = sock[t]  BY <1>1 DEF Net
<1>5. \A h \in DOMAIN conns[e] : h # i => conns[e][h].sock # s  BY <1>2, OthersApart
<1>6. Shift(e, i, d, s)  BY <1>3, <1>4, <1>5 DEF Shift
<1>7. e = "cli" => ShiftSock(e, i, d, s)  BY <1>4 DEF ShiftSock
<1>8. ASSUME AckIn(sock[s]) => AckIn(y) PROVE ShiftSock(e, i, d, s)
  BY <1>4, <1>8 DEF ShiftSock
<1> QED  BY <1>4, <1>6, <1>7, <1>8 DEF AckIn

(* Two operations on a socket, one after the other. *)
LEMMA TwoOnSock ==
  ASSUME NEW k \in Net, NEW s \in Socks, NEW e \in Ends, NEW msgs
  PROVE  /\ SockClose(SockTake(k, s, e), s, e) = [k EXCEPT ![s] = Shut(Emptied(k[s], e), e)]
         /\ SockWrite(SockTake(k, s, e), s, e, msgs) = [k EXCEPT ![s] = Added(Emptied(k[s], e), e, msgs)]
<1> DEFINE x == Emptied(k[s], e)  k2 == [k EXCEPT ![s] = x]
<1>1. SockTake(k, s, e) = k2  BY OneSock
<1>2. k[s] \in SockRec /\ x \in SockRec  BY EmptiedIs DEF Net
<1> HIDE DEF x
<1>3. k2 \in Net /\ k2[s] = x  BY <1>2 DEF Net
<1>4. \A y : [k2 EXCEPT ![s] = y] = [k EXCEPT ![s] = y]  BY DEF Net
<1> HIDE DEF k2
<1>5. SockClose(k2, s, e) = [k2 EXCEPT ![s] = Shut(x, e)]  BY <1>3, OneSock
<1>6. SockWrite(k2, s, e, msgs) = [k2 EXCEPT ![s] = Added(x, e, msgs)]  BY <1>3, OneSock
<1> QED  BY <1>1, <1>4, <1>5, <1>6 DEF x

(* A closed connection whose network does not change. *)
LEMMA IdleShift ==
  ASSUME CntInv, NEW e \in Ends, NEW i \in DOMAIN conns[e], NEW d \in Conn,
         conns[e][i].sock = 0, d.sock = 0, d.sta = "closed", conns' = Put(conns, e, i, d),
         UNCHANGED <<sock, acking, late>>
  PROVE  Shift(e, i, d, 0) /\ ShiftSock(e, i, d, 0) /\ ShiftConn(e, i, d, 0)
<1>1. conns \in [Ends -> Seq(Conn)]  BY DEF CntInv, LinkTypes
<1>2. IsPut(conns', conns, e, i, d)  BY <1>1, PutIs
<1>3. Shift(e, i, d, 0)  BY <1>2 DEF Shift
<1> QED  BY <1>3 DEF ShiftSock, ShiftConn

LEMMA DialShift ==
  ASSUME CntInv, NEW e \in Ends, NEW i \in DOMAIN conns[e], NEW d \in Conn, NEW s \in Socks,
         e # "srv", conns[e][i].sock = 0, d.sock = s, d.sta = "connected", conns' = Put(conns, e, i, d),
         sock[s].up = {}, sock' = [sock EXCEPT ![s] = newSock], UNCHANGED <<acking, late>>
  PROVE  Shift(e, i, d, s) /\ ShiftSock(e, i, d, s) /\ ShiftConn(e, i, d, s)
<1>1. sock \in Net /\ conns \in [Ends -> Seq(Conn)]  BY DEF CntInv, LinkTypes
<1>2. IsPut(conns', conns, e, i, d)  BY <1>1, PutIs
<1>3. sock'[s] = newSock /\ \A t \in Socks : t # s => sock'[t] = sock[t]  BY <1>1 DEF Net
<1>4. \A h \in DOMAIN conns[e] : conns[e][h].sock # s
  <2>1. ASSUME NEW h \in DOMAIN conns[e], conns[e][h].sock = s PROVE FALSE
    <3>1. HasSock(e, conns[e][h], sock[s], acking)  BY <2>1, StructConn, LinkAssumption DEF CntInv
    <3> QED  BY <3>1 DEF HasSock
  <2> QED  BY <2>1
<1>5. Shift(e, i, d, s)  BY <1>2, <1>3, <1>4 DEF Shift
<1>6. Peer(e) = "srv"  BY DEF Peer, Ends
<1>7. ShiftSock(e, i, d, s)  BY <1>3, <1>6, NoSockIs DEF ShiftSock
<1> QED  BY <1>5, <1>7 DEF ShiftConn

LEMMA AskShift ==
  ASSUME CntInv, NEW e \in Ends, NEW i \in DOMAIN conns[e], NEW d \in Conn, NEW s \in Socks, NEW n \in Nat,
         conns[e][i].sock = s, conns[e][i].sta = "connected", d.sock = s, d.sta = "init",
         conns' = Put(conns, e, i, d), sock' = SockWrite(sock, s, e, <<Req(n)>>), UNCHANGED <<acking, late>>
  PROVE  Shift(e, i, d, s) /\ ShiftSock(e, i, d, s) /\ ShiftConn(e, i, d, s)
<1> DEFINE x == sock[s]  ms == <<Req(n)>>
<1>1. sock \in Net /\ x \in SockRec  BY DEF CntInv, LinkTypes, Net
<1>2. ms \in Seq(Msg)
  <2>1. Req(n) \in Msg  BY DEF Req, Msg
  <2> QED  BY <2>1
<1>3. x.at = "tmp" /\ e # "srv"
  <2>1. HasSock(e, conns[e][i], x, acking) /\ ShapeOf(e, conns[e][i])
    BY StructConn, LinkAssumption DEF CntInv
  <2> QED  BY <2>1 DEF HasSock, ShapeOf, Ends
<1> HIDE DEF ms
<1> DEFINE y == Added(x, e, ms)
<1>4. sock' = [sock EXCEPT ![s] = y]  BY <1>1, OneSock DEF ms
<1> HIDE DEF x
<1>5. y \in SockRec /\ y.up = x.up /\ y.at = x.at /\ y.cut = x.cut  BY <1>1, <1>2, AddedIs
<1> HIDE DEF y
<1>6. Shift(e, i, d, s) /\ ShiftSock(e, i, d, s) /\ sock'[s] = y
  <2>1. e = "cli"  BY <1>3 DEF Ends
  <2>2. y \in SockRec /\ y.up = sock[s].up /\ y.at = sock[s].at /\ y.cut = sock[s].cut
    BY <1>5 DEF x
  <2>3. /\ Shift(e, i, d, s) /\ sock'[s] = y
        /\ e = "cli" => ShiftSock(e, i, d, s)
        /\ (AckIn(sock[s]) => AckIn(y)) => ShiftSock(e, i, d, s)
    BY <1>4, <2>2, KeepShift
  <2> QED  BY <2>1, <2>3
<1>7. ShiftConn(e, i, d, s)  BY <1>3, <1>5, <1>6 DEF ShiftConn
<1> QED  BY <1>6, <1>7

LEMMA Longer ==
  ASSUME NEW a \in Seq(Msg), NEW b \in Seq(Msg), b # << >>
  PROVE  a \o b # << >>
<1>1. Len(b) \in Nat /\ Len(b) # 0 /\ Len(a) \in Nat  OBVIOUS
<1>2. Len(a \o b) = Len(a) + Len(b)  OBVIOUS
<1>3. Len(a \o b) # 0  BY <1>1, <1>2
<1> QED  BY <1>3

LEMMA TakeIs ==
  ASSUME NEW k \in Net, NEW s \in Socks, NEW e \in Ends
  PROVE  SockTake(k, s, e) = [k EXCEPT ![s] = Emptied(k[s], e)]
  BY OneSock

LEMMA CloseIs ==
  ASSUME NEW k \in Net, NEW s \in Socks, NEW e \in Ends
  PROVE  SockClose(k, s, e) = [k EXCEPT ![s] = Shut(k[s], e)]
  BY OneSock

LEMMA TakeCloseIs ==
  ASSUME NEW k \in Net, NEW s \in Socks, NEW e \in Ends
  PROVE  SockClose(SockTake(k, s, e), s, e) = [k EXCEPT ![s] = Shut(Emptied(k[s], e), e)]
  BY TwoOnSock

LEMMA DropShift ==
  ASSUME CntInv, NEW e \in Ends, NEW i \in DOMAIN conns[e], NEW c, c = conns[e][i], NEW r, r.cn \in Conn,
         NEW full, Dropped(e, c, r, full), conns' = Put(conns, e, i, r.cn), sock' = r.k,
         UNCHANGED <<acking, late>>
  PROVE  \E s : Shift(e, i, r.cn, s) /\ ShiftSock(e, i, r.cn, s) /\ ShiftConn(e, i, r.cn, s)
<1> USE DEF CntInv
<1>1. /\ r.cn.sta = "closed" /\ r.cn.sock = 0
      /\ r.k = SockClose(IF Live4(c) THEN SockTake(sock, c.sock, e) ELSE sock, c.sock, e)
  BY DEF Dropped
<1>2. /\ c \in Conn /\ ShapeOf(e, c) /\ sock \in Net
      /\ c.sock # 0 => c.sock \in Socks /\ sock[c.sock] \in SockRec
  BY StructConn DEF LinkTypes
<1>3. CASE c.sock = 0
  <2>1. c.sta = "closed"  BY <1>2, <1>3 DEF ShapeOf
  <2>2. r.k = sock  BY <1>1, <1>3, <2>1 DEF Live4, SockClose
  <2>3. Shift(e, i, r.cn, 0) /\ ShiftSock(e, i, r.cn, 0) /\ ShiftConn(e, i, r.cn, 0)
    BY <1>1, <1>3, <2>2, IdleShift
  <2> QED  BY <2>3
<1>4. CASE c.sock # 0
  <2> DEFINE s == c.sock
             x == IF Live4(c) THEN Emptied(sock[s], e) ELSE sock[s]
  <2>1. s \in Socks /\ sock[s] \in SockRec  BY <1>2, <1>4
  <2>2. sock' = [sock EXCEPT ![s] = Shut(x, e)]
    <3>1. CASE Live4(c)
      <4>1. sock' = SockClose(SockTake(sock, s, e), s, e) /\ x = Emptied(sock[s], e)  BY <1>1, <3>1
      <4> QED  BY <1>2, <2>1, <4>1, TakeCloseIs
    <3>2. CASE ~Live4(c)
      <4>1. sock' = SockClose(sock, s, e) /\ x = sock[s]  BY <1>1, <3>2
      <4> QED  BY <1>2, <2>1, <4>1, CloseIs
    <3> QED  BY <3>1, <3>2
  <2>3. x \in SockRec /\ (x = sock[s] \/ x = Emptied(sock[s], e))  BY <2>1, EmptiedIs
  <2> HIDE DEF x
  <2>4. conns[e][i].sock = s  OBVIOUS
  <2> HIDE DEF s
  <2>5. Shift(e, i, r.cn, s) /\ ShiftSock(e, i, r.cn, s) /\ ShiftConn(e, i, r.cn, s)
    BY <1>1, <2>1, <2>2, <2>3, <2>4, ShutShift
  <2> QED  BY <2>5
<1> QED  BY <1>3, <1>4

(* A read of a socket that is cut finds nothing, and there is nothing. *)
LEMMA InIs ==
  ASSUME CntInv, NEW e \in Ends, NEW c, c.sock \in Socks
  PROVE  Came(e, c) = sock[c.sock].in[e]
<1>1. SockOK(c.sock, sock[c.sock], acking)  BY DEF CntInv, Struct
<1>2. sock[c.sock].cut => sock[c.sock].in[e] = << >>  BY <1>1 DEF SockOK, Ends
<1> QED  BY <1>2 DEF Came, SockRead

LEMMA KeptShift ==
  ASSUME CntInv, Answered, NEW e \in Ends, NEW i \in DOMAIN conns[e], NEW c, c = conns[e][i],
         NEW r, r.cn \in Conn, NEW full, Remains(e, c, r, full, lag[e]), conns' = Put(conns, e, i, r.cn), sock' = r.k,
         UNCHANGED <<acking, late>>
  PROVE  \E s : Shift(e, i, r.cn, s) /\ ShiftSock(e, i, r.cn, s) /\ ShiftConn(e, i, r.cn, s)
<1> USE DEF CntInv
<1> DEFINE d == r.cn  s == c.sock  x == sock[s]  p == Peer(e)  o == lag[e]
<1>1. /\ Live4(c) /\ ~Fails(c, sock, e) /\ ~Acked(Msgs(e, c))
      /\ d.sta = c.sta /\ d.sock = s
      /\ Came(e, c) = << >> => d.age = c.age
      /\ c.sta = "open" /\ Came(e, c) # << >> => d.age = o
      /\ \/ /\ c.due + o > 0 /\ d.due = c.due
            /\ r.k = SockTake(sock, s, e)
         \/ /\ c.due + o =< 0 /\ c.sta = "open" /\ d.due = HBeatSndTm - o
            /\ r.k = SockWrite(SockTake(sock, s, e), s, e, <<HBeat>>)
  BY DEF Remains
<1>2. c \in Conn /\ ShapeOf(e, c) /\ sock \in Net  BY StructConn DEF LinkTypes
<1>3. s # 0  BY <1>1, <1>2 DEF ShapeOf, Live4
<1>4. s \in Socks /\ HasSock(e, c, x, acking) /\ x \in SockRec /\ SockOK(s, x, acking)
  BY <1>3, StructConn
<1>5. Came(e, c) = x.in[e]  BY <1>4, InIs
<1>6. p \in Ends /\ x.in \in [Ends -> Seq(Msg)]  BY <1>4, PeerIs DEF SockRec
<1>7. c.due \in Int /\ c.due \in Int /\ HBeatSndTm \in Nat \ {0} /\ o \in Nat
  BY <1>2, LinkAssumption DEF Conn, LinkTypes
<1> DEFINE x1 == Emptied(x, e)
<1>8. x1 \in SockRec /\ x1.up = x.up /\ x1.at = x.at /\ x1.cut = x.cut /\ x1.in[p] = x.in[p]
      /\ (x1.in[e] = << >> \/ x1.in[e] = x.in[e])
  BY <1>4, EmptiedIs
<1>9. e = "srv" /\ AckIn(x) => AckIn(x1)
  <2>1. e = "srv" => p = "cli"  BY DEF Peer
  <2> QED  BY <1>8, <2>1 DEF AckIn
<1> HIDE DEF x1
<1>10. \E y \in SockRec :
         /\ y.up = x.up /\ y.at = x.at /\ y.cut = x.cut /\ (e = "srv" /\ AckIn(x) => AckIn(y))
         /\ sock' = [sock EXCEPT ![s] = y]
         /\ y.in[e] = x.in[e] \/ y.in[e] = << >>
         /\ \/ c.due + o > 0 /\ d.due = c.due /\ y.in[p] = x.in[p]
            \/ /\ c.due + o =< 0 /\ c.sta = "open" /\ d.due = HBeatSndTm - o
               /\ p \notin x.up \/ x.cut \/ y.in[p] # << >>
  <2>1. CASE c.due + o > 0 /\ d.due = c.due /\ r.k = SockTake(sock, s, e)
    <3>1. sock' = [sock EXCEPT ![s] = x1]  BY <1>2, <1>4, <2>1, OneSock DEF x1
    <3> QED  BY <1>8, <1>9, <2>1, <3>1
  <2>2. CASE /\ c.due + o =< 0 /\ c.sta = "open" /\ d.due = HBeatSndTm - o
             /\ r.k = SockWrite(SockTake(sock, s, e), s, e, <<HBeat>>)
    <3> DEFINE ms == <<HBeat>>  y == Added(x1, e, ms)
    <3>1. ms \in Seq(Msg) /\ ms # << >>
      <4>1. HBeat \in Msg  BY DEF HBeat, Msg
      <4> QED  BY <4>1
    <3> HIDE DEF ms
    <3>2. sock' = [sock EXCEPT ![s] = y]  BY <1>2, <1>4, <2>2, TwoOnSock DEF x1, ms
    <3>3. /\ y \in SockRec /\ y.up = x1.up /\ y.at = x1.at /\ y.cut = x1.cut /\ y.in[e] = x1.in[e]
          /\ p \in x1.up /\ ~x1.cut => y.in[p] = x1.in[p] \o ms
      BY <1>8, <3>1, AddedIs
    <3>4. AckIn(x1) => AckIn(y)  BY <1>8, <3>1, AckAdded
    <3> HIDE DEF y
    <3>5. p \notin x.up \/ x.cut \/ y.in[p] # << >>
      <4>1. x.in[p] \o ms # << >>
        <5>1. x.in[p] \in Seq(Msg)  BY <1>6
        <5> QED  BY <3>1, <5>1, Longer
      <4> QED  BY <1>8, <3>3, <4>1
    <3> QED  BY <1>8, <1>9, <2>2, <3>2, <3>3, <3>4, <3>5
  <2> QED  BY <1>1, <2>1, <2>2
<1>11. PICK y \in SockRec :
         /\ y.up = x.up /\ y.at = x.at /\ y.cut = x.cut /\ (e = "srv" /\ AckIn(x) => AckIn(y))
         /\ sock' = [sock EXCEPT ![s] = y]
         /\ y.in[e] = x.in[e] \/ y.in[e] = << >>
         /\ \/ c.due + o > 0 /\ d.due = c.due /\ y.in[p] = x.in[p]
            \/ /\ c.due + o =< 0 /\ c.sta = "open" /\ d.due = HBeatSndTm - o
               /\ p \notin x.up \/ x.cut \/ y.in[p] # << >>
  BY <1>10
<1>12. conns[e][i].sock = s /\ d \in Conn /\ conns' = Put(conns, e, i, d)  OBVIOUS
<1> HIDE DEF d, s
<1>13. Shift(e, i, d, s) /\ ShiftSock(e, i, d, s) /\ sock'[s] = y
  <2>1. /\ y.up = sock[s].up /\ y.at = sock[s].at /\ y.cut = sock[s].cut
        /\ e = "srv" => (AckIn(sock[s]) => AckIn(y))
        /\ sock' = [sock EXCEPT ![s] = y]
    BY <1>11 DEF x
  <2>2. d.sock = s /\ s \in Socks  BY <1>1, <1>4
  <2>3. /\ Shift(e, i, d, s) /\ sock'[s] = y
        /\ e = "cli" => ShiftSock(e, i, d, s)
        /\ (AckIn(sock[s]) => AckIn(y)) => ShiftSock(e, i, d, s)
    BY <1>12, <2>1, <2>2, KeepShift
  <2>4. e = "cli" \/ e = "srv"  BY DEF Ends
  <2>5. ShiftSock(e, i, d, s)
    <3>1. CASE e = "cli"  BY <2>3, <3>1
    <3>2. CASE e = "srv"  BY <2>1, <2>3, <3>2
    <3> QED  BY <2>4, <3>1, <3>2
  <2> QED  BY <2>3, <2>5
<1>14. ASSUME d.sta = "open"
       PROVE  /\ d.due + o > 0 /\ (d.due =< HBeatSndTm \/ (c.sta = "open" /\ d.due = c.due))
              /\ (d.age = o /\ x.in[e] # << >>) \/ (c.sta = "open" /\ d.age = c.age /\ x.in[e] = << >>)
              /\ \/ p \notin x.up \/ x.cut \/ y.in[p] # << >>
                 \/ c.sta = "open" /\ d.due = c.due /\ y.in[p] = x.in[p]
  <2>1. c.sta = "open"  BY <1>1, <1>14
  <2>2. \/ c.due + o > 0 /\ d.due = c.due /\ y.in[p] = x.in[p]
        \/ /\ c.due + o =< 0 /\ d.due = HBeatSndTm - o
           /\ p \notin x.up \/ x.cut \/ y.in[p] # << >>
    BY <1>11
  <2>3. (d.age = o /\ x.in[e] # << >>) \/ (d.age = c.age /\ x.in[e] = << >>)  BY <1>1, <1>5, <2>1
  <2> HIDE DEF o
  <2>4. CASE c.due + o > 0 /\ d.due = c.due /\ y.in[p] = x.in[p]  BY <2>1, <2>3, <2>4
  <2>5. CASE /\ c.due + o =< 0 /\ d.due = HBeatSndTm - o
             /\ p \notin x.up \/ x.cut \/ y.in[p] # << >>
    <3>1. d.due + o > 0 /\ d.due =< HBeatSndTm  BY <1>7, <2>5
    <3> QED  BY <2>1, <2>3, <2>5, <3>1
  <2> QED  BY <2>2, <2>4, <2>5
<1>15. ASSUME d.sta = "init", y.at # "tmp", ~y.cut, "srv" \in y.up
       PROVE  acking = s /\ y.in["srv"] = x.in["srv"]
  <2>1. e = "cli" /\ c.sta = "init"  BY <1>1, <1>2, <1>15 DEF ShapeOf, Ends
  <2>2. x.at = "conn"
    <3>1. x.at # "free" /\ x.at # "tmp"  BY <1>4, <1>11, <1>15 DEF HasSock, SockOK
    <3> QED  BY <1>4, <3>1 DEF SockRec
  <2>7. y.in["srv"] = x.in["srv"]
    <3>1. p = "srv"  BY <2>1 DEF Peer
    <3> QED  BY <1>11, <2>1, <3>1
  <2>3. SUFFICES ASSUME acking # s PROVE FALSE  BY <2>7
  <2>4. AckIn(x)  BY <1>11, <1>15, <2>1, <2>2, <2>3 DEF Answered, x, s
  <2>5. Msgs(e, c) = {Came(e, c)[j] : j \in DOMAIN Came(e, c)}
    BY <1>1, <1>2, <1>4, TakesAll DEF Msgs, Came, s
  <2>6. Acked(Msgs(e, c))
    <3>1. PICK j \in DOMAIN x.in["cli"] : x.in["cli"][j].code = "ack"  BY <2>4 DEF AckIn
    <3> QED  BY <1>5, <2>1, <2>5, <3>1 DEF Acked
  <2> QED  BY <1>1, <2>6
<1>16. ShiftConn(e, i, d, s)
  <2>1. d.age = o => d.age \in 0 .. lag[e]  BY <1>7
  <2>2. ASSUME d.sta = "open"
        PROVE  /\ c.sock = s /\ d.sock = s /\ sock'[s].cut = sock[s].cut
               /\ e = "srv" => c.sta = "open"
    BY <1>1, <1>11, <1>13, <2>2 DEF x, s
  <2>3. ASSUME d.sta = "init" PROVE c.sta = "init" /\ c.sock = s /\ sock'[s].cut = sock[s].cut
    BY <1>1, <1>11, <1>13, <2>3 DEF x, s
  <2>4. y.in[e] = << >> \/ y.in[e] = x.in[e]  BY <1>11
  <2> QED  BY <1>12, <1>13, <1>14, <1>15, <2>1, <2>2, <2>3, <2>4 DEF ShiftConn, x, p, o
<1> QED  BY <1>13, <1>16 DEF d

LEMMA OpenedShift ==
  ASSUME CntInv, NEW e \in Ends, NEW i \in DOMAIN conns[e], NEW c, c = conns[e][i],
         NEW r, r.cn \in Conn, NEW full, Opened(e, c, r, full, lag[e]), conns' = Put(conns, e, i, r.cn), sock' = r.k,
         UNCHANGED <<acking, late>>
  PROVE  \E s : Shift(e, i, r.cn, s) /\ ShiftSock(e, i, r.cn, s) /\ ShiftConn(e, i, r.cn, s)
<1> USE DEF CntInv
<1> DEFINE d == r.cn  s == c.sock  x == sock[s]  y == Emptied(x, e)
<1>0. lag[e] \in Nat /\ HBeatSndTm \in Nat \ {0}  BY LinkAssumption DEF LinkTypes
<1>1. /\ c.sta = "init" /\ d.sta = "open" /\ d.sock = s /\ d.due = HBeatSndTm /\ d.age = lag[e]
      /\ r.k = SockTake(sock, s, e)
  BY <1>0 DEF Opened
<1>2. c \in Conn /\ ShapeOf(e, c) /\ sock \in Net  BY StructConn DEF LinkTypes
<1>3. s # 0 /\ e = "cli"  BY <1>1, <1>2 DEF ShapeOf, Ends
<1>4. s \in Socks /\ x \in SockRec  BY <1>3, StructConn
<1>5. y \in SockRec /\ y.up = x.up /\ y.at = x.at /\ y.cut = x.cut  BY <1>4, EmptiedIs
<1>6. sock' = [sock EXCEPT ![s] = y]
  <2>1. sock' = SockTake(sock, s, e)  BY <1>1
  <2> QED  BY <1>2, <1>4, <2>1, TakeIs
<1> HIDE DEF y
<1>7. conns[e][i].sock = s /\ d \in Conn /\ conns' = Put(conns, e, i, d)  OBVIOUS
<1> HIDE DEF d, s
<1>8. Shift(e, i, d, s) /\ ShiftSock(e, i, d, s) /\ sock'[s] = y
  BY <1>1, <1>3, <1>4, <1>5, <1>6, <1>7, KeepShift DEF x
<1>9. ShiftConn(e, i, d, s)
  <2>1. d.due + lag[e] > 0 /\ d.due =< HBeatSndTm /\ d.age \in 0 .. lag[e]  BY <1>0, <1>1
  <2> QED  BY <1>1, <1>3, <1>5, <1>7, <1>8, <2>1 DEF ShiftConn, x
<1> QED  BY <1>8, <1>9 DEF d

LEMMA ConnPassTime ==
  ASSUME CntInv, CntInv', TimeInv, NEW e \in Ends, NEW wr \in BOOLEAN, NEW ok \in BOOLEAN,
         NEW full \in BOOLEAN, ConnPass(e, wr, ok, full)
  PROVE  TimeInv'
<1> DEFINE i == pos[e]  c == conns[e][i]
<1>1. /\ UNCHANGED <<acking, late>>
      /\ i > 0
      /\ i = Len(conns[e]) => Served(e)
      /\ i # Len(conns[e]) => pos' = [pos EXCEPT ![e] = @ + 1] /\ UNCHANGED <<lag, served>>
  BY PassFrame DEF CntInv
<1>2. i \in DOMAIN conns[e] /\ LinkTypes /\ Struct(conns, sock, acking)
  <2>1. pos[e] \in Int /\ pos[e] =< Len(conns[e]) /\ conns[e] \in Seq(Conn)
    BY DEF LinkTypes, CntInv
  <2> QED  BY <1>1, <2>1 DEF CntInv
<1>3. c \in Conn /\ ShapeOf(e, c)  BY <1>2, StructConn
<1>4. PICK r : /\ r.cn \in Conn
               /\ conns' = Put(conns, e, i, r.cn)
               /\ sock' = r.k
               /\ Outcome(e, c, r, full, lag[e])
  BY <1>2, <1>3, PassCases DEF Put
<1>5. ShiftPos(e, i)  BY <1>1, <1>2, ConnPassPos
<1> HIDE DEF c, i
<1>6. \E s : Shift(e, i, r.cn, s) /\ ShiftSock(e, i, r.cn, s) /\ ShiftConn(e, i, r.cn, s)
  <2>1. CASE Idled(e, c, r)
    <3>1. r.cn.sta = "closed" /\ r.cn.sock = 0 /\ c.sta = "closed" /\ r.k = sock  BY <2>1 DEF Idled
    <3>2. conns[e][i].sock = 0  BY <1>3, <3>1 DEF ShapeOf, c
    <3>3. Shift(e, i, r.cn, 0) /\ ShiftSock(e, i, r.cn, 0) /\ ShiftConn(e, i, r.cn, 0)
      BY <1>1, <1>2, <1>4, <3>1, <3>2, IdleShift
    <3> QED  BY <3>3
  <2>2. CASE Dialled(e, c, r)
    <3> DEFINE s == r.cn.sock
    <3>1. /\ c.sta = "closed" /\ c.evnt = "CONN" /\ r.cn.sta = "connected"
          /\ s \in FreeSocks(sock) /\ r.k = [sock EXCEPT ![s] = newSock]
      BY <2>2 DEF Dialled
    <3>2. conns[e][i].sock = 0 /\ e # "srv"  BY <1>3, <3>1 DEF ShapeOf, c
    <3>3. s \in Socks /\ sock[s].up = {} /\ r.cn.sock = s  BY <3>1 DEF FreeSocks
    <3> HIDE DEF s
    <3>4. Shift(e, i, r.cn, s) /\ ShiftSock(e, i, r.cn, s) /\ ShiftConn(e, i, r.cn, s)
      BY <1>1, <1>2, <1>4, <3>1, <3>2, <3>3, DialShift
    <3> QED  BY <3>4
  <2>3. CASE Asked(e, c, r)
    <3> DEFINE s == c.sock
    <3>1. /\ c.sta = "connected" /\ r.cn.sta = "init" /\ r.cn.sock = s
          /\ r.k = SockWrite(sock, s, e, <<Req(key[e])>>)
      BY <2>3 DEF Asked
    <3>2. s \in Socks /\ key[e] \in Nat
      BY <1>2, <1>3, <3>1 DEF ShapeOf, Conn, LinkTypes
    <3>3. conns[e][i].sock = s /\ conns[e][i].sta = "connected"  BY <3>1 DEF c
    <3> HIDE DEF s
    <3>4. Shift(e, i, r.cn, s) /\ ShiftSock(e, i, r.cn, s) /\ ShiftConn(e, i, r.cn, s)
      BY <1>1, <1>2, <1>4, <3>1, <3>2, <3>3, AskShift
    <3> QED  BY <3>4
  <2>4. CASE Dropped(e, c, r, full)  BY <1>1, <1>2, <1>4, <2>4, DropShift DEF c
  <2>5. CASE Remains(e, c, r, full, lag[e])  BY <1>1, <1>2, <1>4, <2>5, KeptShift DEF c, TimeInv
  <2>6. CASE Opened(e, c, r, full, lag[e])  BY <1>1, <1>2, <1>4, <2>6, OpenedShift DEF c
  <2> QED  BY <1>4, <2>1, <2>2, <2>3, <2>4, <2>5, <2>6 DEF Outcome
<1>7. PICK s : Shift(e, i, r.cn, s) /\ ShiftSock(e, i, r.cn, s) /\ ShiftConn(e, i, r.cn, s)
  BY <1>6
<1>8. ShiftAll(e, i, r.cn, s)  BY <1>5, <1>7 DEF ShiftAll
<1> QED  BY <1>8, ShiftTime

LEMMA SndPassTime ==
  ASSUME CntInv, CntInv', TimeInv, NEW e \in Ends, NEW wr \in BOOLEAN, SndPass(e, wr)
  PROVE  TimeInv'
<1>1. /\ pos[e] = 0 /\ UNCHANGED <<acking, late>> /\ UNCHANGED <<lag, served>>
      /\ pos' = [pos EXCEPT ![e] = ReadsTick]
      /\ \/ UNCHANGED <<conns, sock>>
         \/ sndTq[e] # << >> /\ \E i \in DOMAIN conns[e], d \in Conn : Carried(e, i, d)
  BY SndCases DEF CntInv
<1>2. /\ Catches /\ lag[e] = 0
      /\ \A f \in Ends : \A h \in DOMAIN conns[f] : Alike(f, h)
      /\ \A h \in DOMAIN conns[e] : ~TwiceIn(e, h)'
  BY <1>1, SndPassPos DEF CntInv
<1>3. CASE UNCHANGED <<conns, sock>>  BY <1>1, <1>2, <1>3, TimeSame
<1>4. CASE sndTq[e] # << >> /\ \E i \in DOMAIN conns[e], d \in Conn : Carried(e, i, d)
  <2>1. PICK i \in DOMAIN conns[e], d \in Conn : Carried(e, i, d)  BY <1>4
  <2> DEFINE c == conns[e][i]  s == c.sock  x == sock[s]  p == Peer(e)  ms == Queued(e)
  <2>2. /\ c.sta = "open" /\ conns' = Put(conns, e, i, d)
        /\ d.due = HBeatSndTm /\ d.age = c.age
        /\ \/ d.sta = "open" /\ d.sock = s /\ sock' = SockWrite(sock, s, e, ms)
           \/ d.sta = "closed" /\ d.sock = 0 /\ sock' = SockClose(sock, s, e)
    BY <2>1 DEF Carried
  <2>3. ShapeOf(e, c) /\ sock \in Net  BY StructConn DEF LinkTypes, CntInv
  <2>4. s # 0  BY <2>2, <2>3 DEF ShapeOf
  <2>5. s \in Socks /\ x \in SockRec  BY <2>4, StructConn DEF CntInv
  <2>6. ms \in Seq(Msg)  BY QueuedIs DEF CntInv
  <2>7. ms # << >>
    <3>1. sndTq[e] \in Seq(Nat)  BY DEF CntInv, LinkTypes
    <3>2. Len(ms) = Len(sndTq[e]) /\ Len(sndTq[e]) # 0  BY <1>4, <3>1 DEF Queued
    <3> HIDE DEF ms
    <3> QED  BY <3>2
  <2>8. ShiftPos(e, i)  BY <1>2 DEF ShiftPos
  <2>9. conns[e][i].sock = s  OBVIOUS
  <2> HIDE DEF ms, s
  <2>10. CASE d.sta = "open" /\ d.sock = s /\ sock' = SockWrite(sock, s, e, ms)
    <3> DEFINE y == Added(x, e, ms)
    <3>1. sock' = [sock EXCEPT ![s] = y]  BY <2>3, <2>5, <2>10, OneSock
    <3> HIDE DEF x
    <3>2. /\ y \in SockRec /\ y.up = x.up /\ y.at = x.at /\ y.cut = x.cut /\ y.in[e] = x.in[e]
          /\ p \in x.up /\ ~x.cut => y.in[p] = x.in[p] \o ms
      BY <2>5, <2>6, AddedIs
    <3>3. AckIn(x) => AckIn(y)  BY <2>5, <2>6, AckAdded
    <3>4. x.in[p] \o ms # << >>
      <4>1. x.in[p] \in Seq(Msg)  BY <2>5, PeerIs DEF SockRec
      <4> QED  BY <2>6, <2>7, <4>1, Longer
    <3> HIDE DEF y
    <3>5. Shift(e, i, d, s) /\ ShiftSock(e, i, d, s) /\ sock'[s] = y
      <4>1. /\ y.up = sock[s].up /\ y.at = sock[s].at /\ y.cut = sock[s].cut
            /\ y \in SockRec
        BY <3>2 DEF x
      <4>2. UNCHANGED <<acking, late>> /\ conns' = Put(conns, e, i, d)  BY <1>1, <2>2
      <4>3. d.sock = s /\ s \in Socks  BY <2>5, <2>10
      <4>4. /\ Shift(e, i, d, s) /\ sock'[s] = y
            /\ e = "cli" => ShiftSock(e, i, d, s)
            /\ (AckIn(sock[s]) => AckIn(y)) => ShiftSock(e, i, d, s)
        BY <2>9, <3>1, <4>1, <4>2, <4>3, KeepShift
      <4>5. AckIn(sock[s]) => AckIn(y)  BY <3>3 DEF x
      <4>6. ShiftSock(e, i, d, s)  BY <4>4, <4>5
      <4> QED  BY <4>4, <4>6
    <3>6. d.due + lag[e] > 0 /\ d.due =< HBeatSndTm  BY <1>2, <2>2, LinkAssumption
    <3>7. ShiftConn(e, i, d, s)
      BY <2>2, <2>9, <2>10, <3>2, <3>4, <3>5, <3>6 DEF ShiftConn, x
    <3>8. ShiftAll(e, i, d, s)  BY <2>8, <3>5, <3>7 DEF ShiftAll
    <3> QED  BY <3>8, ShiftTime
  <2>11. CASE d.sta = "closed" /\ d.sock = 0 /\ sock' = SockClose(sock, s, e)
    <3>1. sock' = [sock EXCEPT ![s] = Shut(x, e)]  BY <2>3, <2>5, <2>11, OneSock
    <3>2. Shift(e, i, d, s) /\ ShiftSock(e, i, d, s) /\ ShiftConn(e, i, d, s)
      BY <1>1, <2>2, <2>5, <2>9, <2>11, <3>1, ShutShift
    <3>3. ShiftAll(e, i, d, s)  BY <2>8, <3>2 DEF ShiftAll
    <3> QED  BY <3>3, ShiftTime
  <2> QED  BY <2>2, <2>10, <2>11 DEF s, ms
<1> QED  BY <1>1, <1>3, <1>4

LEMMA TickPassTime ==
  ASSUME CntInv, TimeInv, NEW e \in Ends, TickPass(e)
  PROVE  TimeInv'
<1>1. /\ pos[e] = ReadsTick
      /\ conns[e] = << >> => Served(e)
      /\ conns[e] # << >> => pos' = [pos EXCEPT ![e] = 1] /\ UNCHANGED <<lag, served>>
      /\ UNCHANGED <<conns, sock, acking, late>>
  BY DEF TickPass
<1>2. Catches /\ \A f \in Ends : \A h \in DOMAIN conns[f] : Alike(f, h)
  BY <1>1, TickPassPos DEF CntInv
<1> QED  BY <1>1, <1>2, TimeSame

-----------------------------------------------------------------------------
(* The other steps and time *)

(* The connections stay, and nothing but an answer comes to what they read. *)
LEMMA PaceSame ==
  ASSUME CntInv, Pace, conns' = conns, acking' \in {0, acking},
         Catches, \A f \in Ends : \A h \in DOMAIN conns[f] : Alike(f, h),
         \A f \in Ends : \A h \in DOMAIN conns[f] : conns[f][h].sock # 0 =>
           /\ ~sock'[conns[f][h].sock].cut => ~sock[conns[f][h].sock].cut
           /\ ~sock'[conns[f][h].sock].cut /\ sock'[conns[f][h].sock].in[f] = << >> =>
                sock[conns[f][h].sock].in[f] = << >>,
         \A h \in DOMAIN conns["cli"] : conns["cli"][h].sock # 0 =>
           sock'[conns["cli"][h].sock].cut
             \/ sock'[conns["cli"][h].sock].in["srv"] = sock[conns["cli"][h].sock].in["srv"]
  PROVE  Pace'
<1>0. \A f \in Ends : \A h \in DOMAIN conns[f] : conns[f][h].sta # "closed" => conns[f][h].sock # 0
  <2>1. \A f \in Ends : \A h \in DOMAIN conns[f] : ShapeOf(f, conns[f][h])  BY StructConn DEF CntInv
  <2> QED  BY <2>1 DEF ShapeOf
<1>1. ASSUME NEW e \in Ends, NEW i \in DOMAIN conns[e] PROVE Beats(e, i)'
  <2>1. Beats(e, i)  BY DEF Pace
  <2>2. (TwiceIn(e, i)' => TwiceIn(e, i)) /\ (Behind(e, i)' <=> Behind(e, i))  BY DEF Alike
  <2> QED  BY <2>1, <2>2 DEF Beats
<1>2. ASSUME NEW e \in Ends, NEW i \in DOMAIN conns[e], NEW j \in DOMAIN conns[Peer(e)]
      PROVE  Fresh(e, i, j)'
  <2>1. Fresh(e, i, j)  BY DEF Pace
  <2>2. Peer(e) \in Ends  BY PeerIs
  <2>3. (Done(Peer(e), j)' <=> Done(Peer(e), j)) /\ (Behind(Peer(e), j)' <=> Behind(Peer(e), j))
    BY <2>2 DEF Alike
  <2>4. Quiet(e, i, j)' => Quiet(e, i, j)
    <3>1. SUFFICES ASSUME Quiet(e, i, j)' PROVE Quiet(e, i, j)  OBVIOUS
    <3>2. conns[e][i].sock # 0  BY <1>0, <3>1 DEF Quiet
    <3> QED  BY <3>1, <3>2 DEF Quiet
  <2> QED  BY <2>1, <2>3, <2>4 DEF Fresh
<1>3. ASSUME NEW i \in DOMAIN conns["cli"], NEW j \in DOMAIN conns["srv"] PROVE Young(i, j)'
  <2>1. Young(i, j)  BY DEF Pace
  <2>2. "cli" \in Ends  BY DEF Ends
  <2>3. (Done("cli", i)' <=> Done("cli", i)) /\ (TwiceIn("cli", i)' => TwiceIn("cli", i))
    BY <2>2 DEF Alike
  <2>4. ASSUME conns["cli"][i].sta = "init"
        PROVE  /\ acking' = conns["cli"][i].sock => acking = conns["cli"][i].sock
               /\ ~sock'[conns["cli"][i].sock].cut => ~sock[conns["cli"][i].sock].cut
               /\ sock'[conns["cli"][i].sock].cut
                    \/ sock'[conns["cli"][i].sock].in["srv"] = sock[conns["cli"][i].sock].in["srv"]
    <3>1. conns["cli"][i].sock # 0  BY <1>0, <2>2, <2>4
    <3> QED  BY <2>2, <3>1
  <2> QED  BY <2>1, <2>3, <2>4 DEF Young
<1>4. Lagging'  BY Lagged DEF Pace, CntInv
<1> QED  BY <1>1, <1>2, <1>3, <1>4 DEF Pace

LEMMA SameDone ==
  ASSUME UNCHANGED <<pos, lag, served>>
  PROVE  Catches /\ \A f, h : Alike(f, h)
<1>1. Catches  BY DEF Catches
<1>2. \A f, h : Alike(f, h)  BY DEF Alike, Done, TwiceIn, Behind
<1> QED  BY <1>1, <1>2

LEMMA SendTime ==
  ASSUME CntInv, TimeInv, NEW e \in Ends, Send(e)
  PROVE  TimeInv'
<1>1. UNCHANGED <<conns, sock, acking, late>> /\ UNCHANGED <<pos, lag, served>>  BY DEF Send
<1> QED  BY <1>1, SameDone, TimeSame

(* One socket changes, and what its ends do with it stays. *)
LEMMA OneSockTime ==
  ASSUME CntInv, TimeInv, NEW s \in Socks, NEW y, sock' = [sock EXCEPT ![s] = y],
         y.up = {} \/ (y.up = sock[s].up /\ y.at = sock[s].at),
         y.up = {} => \A f \in Ends : \A h \in DOMAIN conns[f] : conns[f][h].sock # s,
         UNCHANGED <<conns, pos, lag, served, late>>, acking' \in {0, acking},
         y.cut \/ (/\ y.cut = sock[s].cut /\ \A f \in Ends : y.in[f] = << >> => sock[s].in[f] = << >>
                   /\ y.in["srv"] = sock[s].in["srv"]),
         y.up # {} =>
           \A i \in DOMAIN conns["cli"] :
             LET c == conns["cli"][i] IN
             c.sock = s /\ c.sta = "init" /\ y.at = "conn" /\ acking' # s /\ "srv" \in y.up /\ ~y.cut => AckIn(y),
         acking' = acking \/ acking = s
  PROVE  TimeInv'
<1>1. sock \in Net /\ 0 \notin Socks  BY LinkAssumption DEF CntInv, LinkTypes
<1>2. sock'[s] = y /\ \A t \in Socks : t # s => sock'[t] = sock[t]  BY <1>1 DEF Net
<1>3. OwnBack'
  <2>1. ASSUME NEW t \in Socks, NEW f \in sock'[t].up
        PROVE  (\E i \in DOMAIN conns'[f] : conns'[f][i].sock = t) \/ (f = "srv" /\ sock'[t].at = "tmp")
    <3>1. f \in sock[t].up /\ sock'[t].at = sock[t].at  BY <1>2, <2>1
    <3>2. (\E i \in DOMAIN conns[f] : conns[f][i].sock = t) \/ (f = "srv" /\ sock[t].at = "tmp")
      BY <3>1 DEF TimeInv, OwnBack
    <3> QED  BY <3>1, <3>2
  <2> QED  BY <2>1 DEF OwnBack
<1>4. Answered'
  <2>1. ASSUME NEW i \in DOMAIN conns["cli"], NEW c, c = conns["cli"][i], NEW t, t = c.sock,
               c.sta = "init", sock'[t].at = "conn", acking' # t, "srv" \in sock'[t].up, ~sock'[t].cut
        PROVE  AckIn(sock'[t])
    <3>1. t \in Socks
      <4>1. ShapeOf("cli", c) /\ c \in Conn  BY <2>1, StructConn DEF CntInv, Ends
      <4> QED  BY <2>1, <4>1 DEF ShapeOf, Conn
    <3>2. CASE t = s  BY <1>2, <2>1, <3>2
    <3>3. CASE t # s
      <4>1. sock'[t] = sock[t] /\ acking # t  BY <1>2, <2>1, <3>1, <3>3
      <4> QED  BY <2>1, <4>1 DEF TimeInv, Answered
    <3> QED  BY <3>2, <3>3
  <2> QED  BY <2>1 DEF Answered
<1>5. ASSUME Pace PROVE Pace'
  <2>1. Catches /\ \A f \in Ends : \A h \in DOMAIN conns[f] : Alike(f, h)
    <3>1. Catches /\ \A f, h : Alike(f, h)  BY SameDone
    <3> QED  BY <3>1
  <2>2. \A f \in Ends : \A h \in DOMAIN conns[f] : conns[f][h].sock # 0 =>
           /\ ~sock'[conns[f][h].sock].cut => ~sock[conns[f][h].sock].cut
           /\ ~sock'[conns[f][h].sock].cut /\ sock'[conns[f][h].sock].in[f] = << >> =>
                sock[conns[f][h].sock].in[f] = << >>
    <3>1. ASSUME NEW f \in Ends, NEW h \in DOMAIN conns[f], NEW t, t = conns[f][h].sock, t # 0, ~sock'[t].cut
          PROVE  ~sock[t].cut /\ (sock'[t].in[f] = << >> => sock[t].in[f] = << >>)
      <4>1. t \in Socks  BY <3>1, StructConn DEF CntInv
      <4> QED  BY <1>2, <3>1, <4>1
    <3> QED  BY <3>1
  <2>3. \A h \in DOMAIN conns["cli"] : conns["cli"][h].sock # 0 =>
           sock'[conns["cli"][h].sock].cut
             \/ sock'[conns["cli"][h].sock].in["srv"] = sock[conns["cli"][h].sock].in["srv"]
    <3>1. ASSUME NEW h \in DOMAIN conns["cli"], NEW t, t = conns["cli"][h].sock, t # 0
          PROVE  sock'[t].cut \/ sock'[t].in["srv"] = sock[t].in["srv"]
      <4>1. t \in Socks  BY <3>1, StructConn DEF CntInv, Ends
      <4> QED  BY <1>2, <3>1, <4>1
    <3> QED  BY <3>1
  <2> QED  BY <1>5, <2>1, <2>2, <2>3, PaceSame
<1> QED  BY <1>3, <1>4, <1>5 DEF TimeInv

LEMMA AcptEndTime ==
  ASSUME CntInv, TimeInv, NEW s \in Socks, AcptEnd(s)
  PROVE  TimeInv'
<1> USE DEF CntInv
<1> DEFINE x == sock[s]
<1>1. /\ acking = 0 /\ x.at = "tmp" /\ SockEnd(sock, s, "srv") /\ sock' = SockClose(sock, s, "srv")
      /\ UNCHANGED <<conns, pos, lag, acking, served, late>>
  BY DEF AcptEnd
<1>2. "srv" \in Ends /\ sock \in Net  BY DEF Ends, LinkTypes
<1>3. x \in SockRec /\ SockOK(s, x, acking)  BY DEF Struct, Net
<1>4. x.up = {"srv"}
  <2>1. "srv" \in x.up  BY <1>1, <1>3 DEF SockOK
  <2>2. "cli" \notin x.up  BY <1>1 DEF SockEnd, Peer
  <2>3. x.up \subseteq {"cli", "srv"}  BY <1>3 DEF SockRec, Ends
  <2> QED  BY <2>1, <2>2, <2>3
<1>5. Shut(x, "srv") = noSock  BY <1>2, <1>3, <1>4, ShutIs
<1>6. sock' = [sock EXCEPT ![s] = noSock]
  <2>1. sock' = [sock EXCEPT ![s] = Shut(x, "srv")]  BY <1>1, <1>2, CloseIs
  <2> QED  BY <1>5, <2>1
<1>7. \A f \in Ends : \A h \in DOMAIN conns[f] : conns[f][h].sock # s
  <2>1. ASSUME NEW f \in Ends, NEW j \in DOMAIN conns[f], conns[f][j].sock = s PROVE FALSE
    <3>1. HasSock(f, conns[f][j], x, acking)  BY <2>1, StructConn, LinkAssumption
    <3> QED  BY <1>1, <1>4, <3>1 DEF HasSock
  <2> QED  BY <2>1
<1>8. noSock.up = {} /\ ~noSock.cut  BY NoSockIs
<1>9. ~x.cut /\ \A f \in Ends : x.in[f] = << >>
  <2>1. ~x.cut /\ x.in["srv"] = << >>  BY <1>1 DEF SockEnd
  <2> QED  BY <1>1, <1>3, <2>1 DEF SockOK, Ends
<1> DEFINE y == noSock
<1>10. /\ y.up = {}
       /\ y.cut \/ (/\ y.cut = x.cut /\ \A f \in Ends : y.in[f] = << >> => x.in[f] = << >>
                    /\ y.in["srv"] = x.in["srv"])
  BY <1>3, <1>8, <1>9, NoSockIs DEF SockRec
<1>11. sock' = [sock EXCEPT ![s] = y]  BY <1>6
<1> HIDE DEF y
<1> QED  BY <1>1, <1>7, <1>10, <1>11, OneSockTime

(* The answer of the server in a socket. *)
LEMMA AckSent ==
  ASSUME NEW x \in SockRec
  PROVE  LET y == Added(x, "srv", <<Ack>>) IN
         /\ y.up = x.up /\ y.at = x.at /\ y.cut = x.cut /\ y.in["srv"] = x.in["srv"]
         /\ \/ y = x /\ ("cli" \notin x.up \/ x.cut)
            \/ y.in["cli"] = x.in["cli"] \o <<Ack>>
<1> DEFINE ms == <<Ack>>  e == "srv"  y == Added(x, e, ms)
<1>1. Ack \in Msg  BY DEF Ack, Msg
<1>2. ms \in Seq(Msg)  BY <1>1
<1>3. e \in Ends /\ Peer(e) = "cli"  BY DEF Ends, Peer
<1> SUFFICES /\ y.up = x.up /\ y.at = x.at /\ y.cut = x.cut /\ y.in[e] = x.in[e]
             /\ \/ y = x /\ (Peer(e) \notin x.up \/ x.cut)
                \/ y.in[Peer(e)] = x.in[Peer(e)] \o ms
  BY <1>3
<1> HIDE DEF ms, e
<1>4. y.up = x.up /\ y.at = x.at /\ y.cut = x.cut /\ y.in[e] = x.in[e]  BY <1>2, <1>3, AddedIs
<1>5. CASE Peer(e) \notin x.up \/ x.cut
  <2>1. y = x  BY <1>5 DEF Added
  <2> QED  BY <1>4, <1>5, <2>1
<1>6. CASE Peer(e) \in x.up /\ ~x.cut
  <2>1. y.in[Peer(e)] = x.in[Peer(e)] \o ms  BY <1>2, <1>3, <1>6, AddedIs
  <2> HIDE DEF y
  <2> QED  BY <1>4, <2>1
<1> QED  BY <1>5, <1>6

LEMMA AcptAckTime ==
  ASSUME CntInv, TimeInv, AcptAck
  PROVE  TimeInv'
<1> USE DEF CntInv
<1> DEFINE s == acking  x == sock[s]
           y == IF "srv" \in x.up THEN Added(x, "srv", <<Ack>>) ELSE x
<1>1. /\ s # 0 /\ acking' = 0
      /\ sock' = IF "srv" \in x.up THEN SockWrite(sock, s, "srv", <<Ack>>) ELSE sock
      /\ UNCHANGED <<conns, pos, lag, served, late>>
  BY DEF AcptAck
<1>2. "srv" \in Ends /\ sock \in Net /\ s \in Socks  BY <1>1 DEF Ends, LinkTypes
<1>3. x \in SockRec /\ x.in \in [Ends -> Seq(Msg)]  BY <1>2 DEF Net, SockRec
<1>4. <<Ack>> \in Seq(Msg) /\ Ack.code = "ack"  BY DEF Ack, Msg
<1>5. sock' = [sock EXCEPT ![s] = y]
  <2>1. CASE "srv" \in x.up  BY <1>1, <1>2, <2>1, OneSock
  <2>2. CASE "srv" \notin x.up
    <3>1. sock = [sock EXCEPT ![s] = sock[s]]  BY <1>2 DEF Net
    <3> QED  BY <1>1, <2>2, <3>1
  <2> QED  BY <2>1, <2>2
<1> HIDE DEF x, s
<1>6. y.up = x.up /\ y.at = x.at /\ y.cut = x.cut /\ y.in["srv"] = x.in["srv"]
      /\ \/ y = x /\ ("srv" \notin x.up \/ "cli" \notin x.up \/ x.cut)
         \/ y.in["cli"] = x.in["cli"] \o <<Ack>>
  <2>1. CASE "srv" \in x.up
    <3>1. y = Added(x, "srv", <<Ack>>)  BY <2>1
    <3> HIDE DEF y
    <3>2. /\ y.up = x.up /\ y.at = x.at /\ y.cut = x.cut /\ y.in["srv"] = x.in["srv"]
          /\ \/ y = x /\ ("cli" \notin x.up \/ x.cut)
             \/ y.in["cli"] = x.in["cli"] \o <<Ack>>
      BY <1>3, <3>1, AckSent
    <3> QED  BY <3>2
  <2>2. CASE "srv" \notin x.up  BY <1>3, <2>2
  <2> QED  BY <2>1, <2>2
<1> HIDE DEF y
<1> DEFINE in == x.in["cli"]
<1>7. in \in Seq(Msg)  BY <1>3 DEF Ends
<1> HIDE DEF in
<1>8. /\ in \o <<Ack>> # << >>
      /\ \E j \in DOMAIN (in \o <<Ack>>) : (in \o <<Ack>>)[j].code = "ack"
  <2> DEFINE m == Len(in) + 1
  <2>1. m \in DOMAIN (in \o <<Ack>>) /\ (in \o <<Ack>>)[m] = Ack  BY <1>7
  <2>2. in \o <<Ack>> # << >>  BY <1>7, <2>1
  <2> QED  BY <1>4, <2>1, <2>2
<1>9. \A f \in Ends : y.in[f] = << >> => x.in[f] = << >>
  <2>1. y.in["cli"] = << >> => x.in["cli"] = << >>  BY <1>6, <1>8 DEF in
  <2> QED  BY <1>6, <2>1 DEF Ends
<1>10. ASSUME NEW i \in DOMAIN conns["cli"], conns["cli"][i].sock = s, "srv" \in y.up, ~y.cut
       PROVE  AckIn(y)
  <2>1. HasSock("cli", conns["cli"][i], x, acking)
    BY <1>1, <1>10, StructConn DEF Ends, x, s
  <2>2. "cli" \in x.up  BY <2>1 DEF HasSock
  <2>3. y.in["cli"] = in \o <<Ack>>  BY <1>6, <1>10, <2>2 DEF in
  <2> QED  BY <1>8, <2>3 DEF AckIn
<1>11. y.up = {} => \A f \in Ends : \A h \in DOMAIN conns[f] : conns[f][h].sock # s
  <2>1. ASSUME NEW f \in Ends, NEW h \in DOMAIN conns[f], conns[f][h].sock = s PROVE y.up # {}
    <3>1. HasSock(f, conns[f][h], x, acking)  BY <1>1, <2>1, StructConn DEF x, s
    <3> QED  BY <1>6, <3>1 DEF HasSock
  <2> QED  BY <2>1
<1>12. /\ y.up = sock[s].up /\ y.at = sock[s].at
       /\ y.cut = sock[s].cut /\ \A f \in Ends : y.in[f] = << >> => sock[s].in[f] = << >>
       /\ y.in["srv"] = sock[s].in["srv"]
  BY <1>6, <1>9 DEF x
<1>13. acking = s  BY DEF s
<1> QED  BY <1>1, <1>2, <1>5, <1>10, <1>11, <1>12, <1>13, OneSockTime

LEMMA CutTime ==
  ASSUME CntInv, TimeInv, NEW s \in Socks, Cut(s)
  PROVE  TimeInv'
<1> DEFINE x == sock[s]  y == [x EXCEPT !.cut = TRUE, !.in = [e \in Ends |-> << >>]]
<1>1. x.up # {} /\ sock' = [sock EXCEPT ![s] = y] /\ UNCHANGED <<conns, pos, lag, served, acking, late>>
  BY DEF Cut
<1>2. x \in SockRec  BY DEF CntInv, LinkTypes, Net
<1> HIDE DEF x
<1>3. y.up = x.up /\ y.at = x.at  BY <1>2 DEF SockRec
<1>4. y.cut  BY <1>2 DEF SockRec
<1> HIDE DEF y
<1>5. y.up # {} /\ y.up = sock[s].up /\ y.at = sock[s].at  BY <1>1, <1>3 DEF x
<1> QED  BY <1>1, <1>4, <1>5, OneSockTime

LEMMA ShutUp ==
  ASSUME NEW x \in SockRec, NEW e \in Ends
  PROVE  Shut(x, e).up = x.up \ {e}
<1>1. CASE x.up = {e}
  <2>1. Shut(x, e).up = {}  BY <1>1, ShutIs, NoSockIs
  <2> QED  BY <1>1, <2>1
<1>2. CASE x.up # {e}  BY <1>2, ShutIs
<1> QED  BY <1>1, <1>2

(* What the request leaves of the network and of the connections. *)
LEMMA AttachedIs ==
  ASSUME CntInv, NEW s \in Socks, AcptReq(s)
  PROVE  \E m \in Nat \ {0} :
           /\ DOMAIN conns'["srv"] = 1 .. m /\ conns'["srv"][m] = AcptConn(s)
           /\ \A j \in 1 .. m : j # m => /\ j \in DOMAIN conns["srv"] /\ conns'["srv"][j] = conns["srv"][j]
                                         /\ \A t \in Socks : t # s => sock'[t] = sock[t]
           /\ sock[s].up = sock'[s].up /\ sock'[s].at = "conn" /\ sock'[s].in["srv"] = << >>
           /\ conns'["cli"] = conns["cli"]
           /\ \A j \in DOMAIN conns["srv"] : conns["srv"][j].sock # s
           /\ \A t \in Socks : t # s =>
                \/ /\ sock'[t] = sock[t]
                   /\ \A i \in DOMAIN conns["srv"] : conns["srv"][i].sock = t =>
                        \E j \in DOMAIN conns'["srv"] : conns'["srv"][j].sock = t
                \/ sock'[t] = Shut(sock[t], "srv")
<1> USE DEF CntInv
<1>0. PICK cns \in Seq(Conn), k \in Net, y \in SockRec : Attached(s, cns, k, y)
  BY AcptReqIs
<1>1. /\ y = [sock[s] EXCEPT !.in["srv"] = Tail(@), !.at = "conn"]
      /\ conns' = [conns EXCEPT !["srv"] = Append(cns, AcptConn(s))]
      /\ sock' = [k EXCEPT ![s] = y] /\ k[s] = sock[s]
      /\ \/ cns = conns["srv"] /\ k = sock
         \/ cns = << >> /\ k = CloseAll(sock, conns["srv"], "srv")
  BY <1>0 DEF Attached
<1>2. "srv" \in Ends /\ conns \in [Ends -> Seq(Conn)] /\ sock \in Net /\ sock[s] \in SockRec
  BY DEF Ends, LinkTypes, Net
<1>3. acking = 0 /\ sock[s].at = "tmp"  BY DEF AcptReq
<1>4. AcptConn(s) \in Conn  BY LinkAssumption DEF AcptConn, Conn
<1> DEFINE q == Append(cns, AcptConn(s))  m == Len(cns) + 1
<1>5. /\ q[m] = AcptConn(s) /\ DOMAIN q = 1 .. m /\ m \in Nat \ {0}
      /\ DOMAIN cns = 1 .. Len(cns) /\ Len(cns) \in Nat
      /\ \A j \in DOMAIN cns : q[j] = cns[j]
  BY <1>4
<1>6. conns'["srv"] = q /\ conns'["cli"] = conns["cli"]  BY <1>1, <1>2 DEF Ends
<1> HIDE DEF q
<1>7. \A j \in 1 .. m : j # m => j \in DOMAIN cns  BY <1>5
<1>8. y.up = sock[s].up /\ y.at = "conn" /\ y.in["srv"] = << >>
  <2>1. y.up = sock[s].up  BY <1>1, <1>2 DEF SockRec
  <2>2. y.at = "conn"  BY <1>1, <1>2 DEF SockRec
  <2> DEFINE in == sock[s].in["srv"]
  <2>3. in \in Seq(Msg) /\ in # << >> /\ \A j \in DOMAIN in : j = 1
    <3>1. SockOK(s, sock[s], acking)  BY DEF Struct
    <3>2. in # << >>  BY DEF AcptReq
    <3> QED  BY <1>2, <1>3, <3>1, <3>2 DEF SockOK, SockRec
  <2>4. y.in["srv"] = Tail(in)  BY <1>1, <1>2 DEF SockRec
  <2> HIDE DEF in
  <2>5. Tail(in) = << >>
    <3>1. Len(in) \in Nat /\ DOMAIN in = 1 .. Len(in) /\ Len(in) # 0  BY <2>3
    <3>2. Len(in) \in DOMAIN in  BY <3>1
    <3>3. Len(in) = 1  BY <2>3, <3>2
    <3> DEFINE tail == Tail(in)
    <3>4. tail \in Seq(Msg) /\ Len(tail) = 0  BY <2>3, <3>3
    <3> HIDE DEF tail
    <3>5. tail = << >>  BY <3>4
    <3> QED  BY <3>5 DEF tail
  <2> QED  BY <2>1, <2>2, <2>4, <2>5
<1>9. sock'[s] = y /\ \A t \in Socks : t # s => sock'[t] = k[t]  BY <1>1 DEF Net
<1>10. \A j \in DOMAIN conns["srv"] : conns["srv"][j].sock # s
  <2>1. ASSUME NEW i \in DOMAIN conns["srv"], conns["srv"][i].sock = s PROVE FALSE
    <3>1. HasSock("srv", conns["srv"][i], sock[s], acking)
      BY <1>2, <2>1, StructConn, LinkAssumption
    <3> QED  BY <1>3, <3>1 DEF HasSock
  <2> QED  BY <2>1
<1>11. ASSUME NEW t \in Socks, t # s
       PROVE  \/ /\ sock'[t] = sock[t]
                 /\ \A i \in DOMAIN conns["srv"] : conns["srv"][i].sock = t =>
                      \E j \in DOMAIN conns'["srv"] : conns'["srv"][j].sock = t
              \/ sock'[t] = Shut(sock[t], "srv")
  <2>1. sock'[t] = k[t]  BY <1>9, <1>11
  <2>2. CASE cns = conns["srv"] /\ k = sock
    <3>1. \A i \in DOMAIN cns : i \in DOMAIN q /\ q[i] = cns[i]  BY <1>5
    <3> QED  BY <1>6, <2>1, <2>2, <3>1
  <2>3. CASE k = CloseAll(sock, conns["srv"], "srv")
    <3>1. /\ (\E i \in DOMAIN conns["srv"] : conns["srv"][i].sock = t) => k[t] = Shut(sock[t], "srv")
          /\ ~(\E i \in DOMAIN conns["srv"] : conns["srv"][i].sock = t) => k[t] = sock[t]
      BY <1>2, <2>3, CloseAllIs
    <3> QED  BY <2>1, <3>1
  <2> QED  BY <1>1, <2>2, <2>3
<1>12. \A j \in 1 .. m : j # m => /\ j \in DOMAIN conns["srv"] /\ conns'["srv"][j] = conns["srv"][j]
                                  /\ \A t \in Socks : t # s => sock'[t] = sock[t]
  <2>1. ASSUME NEW j \in 1 .. m, j # m
        PROVE  /\ j \in DOMAIN conns["srv"] /\ conns'["srv"][j] = conns["srv"][j]
               /\ \A t \in Socks : t # s => sock'[t] = sock[t]
    <3>1. j \in DOMAIN cns /\ q[j] = cns[j]  BY <1>5, <1>7, <2>1
    <3>2. cns # << >>  BY <3>1
    <3>3. cns = conns["srv"] /\ k = sock  BY <1>1, <3>2
    <3> QED  BY <1>6, <1>9, <3>1, <3>3
  <2> QED  BY <2>1
<1> m \in Nat \ {0}  BY <1>5
<1> HIDE DEF m
<1> WITNESS m \in Nat \ {0}
<1> QED  BY <1>5, <1>6, <1>8, <1>9, <1>10, <1>11, <1>12

LEMMA AcptReqTime ==
  ASSUME CntInv, CntInv', TimeInv, NEW s \in Socks, AcptReq(s)
  PROVE  TimeInv'
<1>1. PICK m \in Nat \ {0} :
           /\ DOMAIN conns'["srv"] = 1 .. m /\ conns'["srv"][m] = AcptConn(s)
           /\ \A j \in 1 .. m : j # m => /\ j \in DOMAIN conns["srv"] /\ conns'["srv"][j] = conns["srv"][j]
                                         /\ \A t \in Socks : t # s => sock'[t] = sock[t]
           /\ sock[s].up = sock'[s].up /\ sock'[s].at = "conn" /\ sock'[s].in["srv"] = << >>
           /\ conns'["cli"] = conns["cli"]
           /\ \A j \in DOMAIN conns["srv"] : conns["srv"][j].sock # s
           /\ \A t \in Socks : t # s =>
                \/ /\ sock'[t] = sock[t]
                   /\ \A i \in DOMAIN conns["srv"] : conns["srv"][i].sock = t =>
                        \E j \in DOMAIN conns'["srv"] : conns'["srv"][j].sock = t
                \/ sock'[t] = Shut(sock[t], "srv")
  BY AttachedIs
<1>2. /\ acking = 0 /\ acking' = s /\ pos["srv"] = 0 /\ UNCHANGED <<pos, lag, served, late>>
  BY DEF AcptReq
<1>3. m \in 1 .. m /\ AcptConn(s).sock = s /\ AcptConn(s).sta = "open"
      /\ AcptConn(s).age = 0 /\ AcptConn(s).due = HBeatSndTm
  BY DEF AcptConn
<1>4. s # 0 /\ HBeatSndTm \in Nat  BY LinkAssumption
<1>5. "cli" \in Ends /\ "srv" \in Ends /\ Peer("cli") = "srv" /\ Peer("srv") = "cli"
  BY DEF Ends, Peer
<1>6. Catches /\ \A f, h : /\ Done(f, h)' <=> Done(f, h)
                           /\ TwiceIn(f, h)' => TwiceIn(f, h)
                           /\ Behind(f, h)' <=> Behind(f, h)
  <2>1. Catches /\ \A f, h : Alike(f, h)  BY <1>2, SameDone
  <2> QED  BY <2>1 DEF Alike
(* A socket that the accept thread has not got. *)
<1>7. ASSUME NEW t \in Socks, t # s, "srv" \in sock'[t].up
      PROVE  /\ sock'[t] = sock[t]
             /\ \A i \in DOMAIN conns["srv"] : conns["srv"][i].sock = t =>
                  \E j \in DOMAIN conns'["srv"] : conns'["srv"][j].sock = t
  <2>1. sock[t] \in SockRec  BY DEF CntInv, LinkTypes, Net
  <2>2. "srv" \notin Shut(sock[t], "srv").up  BY <1>5, <2>1, ShutUp
  <2> QED  BY <1>1, <1>7, <2>2
<1>8. OwnBack'
  <2>1. ASSUME NEW t \in Socks, NEW f \in sock'[t].up
        PROVE  (\E i \in DOMAIN conns'[f] : conns'[f][i].sock = t) \/ (f = "srv" /\ sock'[t].at = "tmp")
    <3>0. f \in Ends /\ sock[t] \in SockRec  BY DEF CntInv, LinkTypes, Net, SockRec
    <3>1. CASE f = "cli"
      <4>1. f \in sock[t].up
        <5>1. CASE t = s  BY <1>1, <2>1, <5>1
        <5>2. CASE t # s
          <6>1. CASE sock'[t] = sock[t]  BY <2>1, <6>1
          <6>2. CASE sock'[t] = Shut(sock[t], "srv")
            <7>1. Shut(sock[t], "srv").up \subseteq sock[t].up  BY <1>5, <3>0, ShutUp
            <7> QED  BY <2>1, <6>2, <7>1
          <6> QED  BY <1>1, <5>2, <6>1, <6>2
        <5> QED  BY <5>1, <5>2
      <4>2. \E i \in DOMAIN conns["cli"] : conns["cli"][i].sock = t  BY <3>1, <4>1 DEF TimeInv, OwnBack
      <4> QED  BY <1>1, <3>1, <4>2
    <3>2. CASE f = "srv" /\ t = s  BY <1>1, <1>3, <3>2
    <3>3. CASE f = "srv" /\ t # s
      <4>1. /\ sock'[t] = sock[t]
            /\ \A i \in DOMAIN conns["srv"] : conns["srv"][i].sock = t =>
                 \E j \in DOMAIN conns'["srv"] : conns'["srv"][j].sock = t
        BY <1>7, <2>1, <3>3
      <4>2. (\E i \in DOMAIN conns["srv"] : conns["srv"][i].sock = t) \/ sock[t].at = "tmp"
        BY <2>1, <3>3, <4>1 DEF TimeInv, OwnBack
      <4> QED  BY <3>3, <4>1, <4>2
    <3> QED  BY <3>0, <3>1, <3>2, <3>3 DEF Ends
  <2> QED  BY <2>1 DEF OwnBack
<1>9. Answered'
  <2>1. ASSUME NEW i \in DOMAIN conns'["cli"], NEW c, c = conns'["cli"][i], NEW t, t = c.sock,
               c.sta = "init", sock'[t].at = "conn", acking' # t, "srv" \in sock'[t].up, ~sock'[t].cut
        PROVE  AckIn(sock'[t])
    <3>1. t \in Socks
      <4>1. ShapeOf("cli", c) /\ c \in Conn  BY <1>5, <2>1, StructConn DEF CntInv
      <4> QED  BY <2>1, <4>1 DEF ShapeOf, Conn
    <3>2. t # s /\ sock'[t] = sock[t]  BY <1>2, <1>7, <2>1, <3>1
    <3>3. acking # t  BY <1>2, <3>1, LinkAssumption
    <3> QED  BY <1>1, <2>1, <3>2, <3>3 DEF TimeInv, Answered
  <2> QED  BY <2>1 DEF Answered
(* The client of the new connection waits for the answer. *)
<1>10. ASSUME NEW i \in DOMAIN conns'["cli"], conns'["cli"][i].sock = s PROVE conns'["cli"][i].sta # "open"
  <2>1. HasSock("cli", conns'["cli"][i], sock'[s], acking')
    BY <1>4, <1>5, <1>10, StructConn DEF CntInv
  <2> QED  BY <1>2, <1>10, <2>1 DEF HasSock
<1>11. ASSUME Pace PROVE Pace'
  <2>1. ASSUME NEW e \in Ends, NEW i \in DOMAIN conns'[e] PROVE Beats(e, i)'
    <3>1. CASE e = "srv" /\ i = m
      <4>1. ~TwiceIn(e, i)'
        <5>1. ~(m < 0)  OBVIOUS
        <5> QED  BY <1>2, <3>1, <5>1 DEF TwiceIn
      <4> QED  BY <1>1, <1>3, <1>4, <3>1, <4>1 DEF Beats
    <3>2. CASE ~(e = "srv" /\ i = m)
      <4>1. i \in DOMAIN conns[e] /\ conns'[e][i] = conns[e][i]  BY <1>1, <3>2 DEF Ends
      <4>2. Beats(e, i)  BY <1>11, <4>1 DEF Pace
      <4> QED  BY <1>6, <4>1, <4>2 DEF Beats
    <3> QED  BY <3>1, <3>2
  <2>2. ASSUME NEW i \in DOMAIN conns'["cli"], NEW j \in DOMAIN conns'["srv"], j # m
        PROVE  /\ i \in DOMAIN conns["cli"] /\ conns'["cli"][i] = conns["cli"][i]
               /\ j \in DOMAIN conns["srv"] /\ conns'["srv"][j] = conns["srv"][j]
               /\ conns["srv"][j].sock \in Socks => /\ sock'[conns["srv"][j].sock] = sock[conns["srv"][j].sock]
                                                    /\ conns["srv"][j].sock # s
    BY <1>1, <2>2
  <2>3. \A f \in Ends : \A h \in DOMAIN conns[f] : conns[f][h].sta = "open" => conns[f][h].sock \in Socks
    <3>1. ASSUME NEW f \in Ends, NEW h \in DOMAIN conns[f], conns[f][h].sta = "open"
          PROVE  conns[f][h].sock \in Socks
      <4>1. ShapeOf(f, conns[f][h]) /\ conns[f][h] \in Conn  BY StructConn DEF CntInv
      <4> QED  BY <3>1, <4>1 DEF ShapeOf, Conn
    <3> QED  BY <3>1
  <2>4. ASSUME NEW i \in DOMAIN conns'["cli"], NEW j \in DOMAIN conns'["srv"]
        PROVE  Fresh("cli", i, j)' /\ Fresh("srv", j, i)'
    <3>1. CASE j = m
      <4>1. ~(conns'["cli"][i].sta = "open" /\ conns'["cli"][i].sock = conns'["srv"][j].sock)
        BY <1>1, <1>3, <1>10, <3>1
      <4> QED  BY <1>5, <4>1 DEF Fresh, Quiet
    <3>2. CASE j # m
      <4>1. /\ i \in DOMAIN conns["cli"] /\ conns'["cli"][i] = conns["cli"][i]
            /\ j \in DOMAIN conns["srv"] /\ conns'["srv"][j] = conns["srv"][j]
        BY <2>2, <3>2
      <4>2. conns["srv"][j].sta = "open" => sock'[conns["srv"][j].sock] = sock[conns["srv"][j].sock]
        BY <1>5, <2>2, <2>3, <3>2, <4>1
      <4>3. Fresh("cli", i, j) /\ Fresh("srv", j, i)  BY <1>5, <1>11, <4>1 DEF Pace
      <4>4. (Quiet("cli", i, j)' => Quiet("cli", i, j)) /\ (Quiet("srv", j, i)' => Quiet("srv", j, i))
        BY <1>5, <4>1, <4>2 DEF Quiet
      <4>5. /\ (Done("srv", j)' <=> Done("srv", j)) /\ (Done("cli", i)' <=> Done("cli", i))
            /\ (Behind("srv", j)' <=> Behind("srv", j)) /\ (Behind("cli", i)' <=> Behind("cli", i))
        BY <1>6
      <4>6. Fresh("cli", i, j)'  BY <1>5, <4>1, <4>3, <4>4, <4>5 DEF Fresh
      <4>7. Fresh("srv", j, i)'  BY <1>5, <4>1, <4>3, <4>4, <4>5 DEF Fresh
      <4> QED  BY <4>6, <4>7
    <3> QED  BY <3>1, <3>2
  <2>5. ASSUME NEW i \in DOMAIN conns'["cli"], NEW j \in DOMAIN conns'["srv"] PROVE Young(i, j)'
    <3>1. CASE j = m  BY <1>1, <1>3, <3>1 DEF Young
    <3>2. CASE j # m
      <4>1. /\ i \in DOMAIN conns["cli"] /\ conns'["cli"][i] = conns["cli"][i]
            /\ j \in DOMAIN conns["srv"] /\ conns'["srv"][j] = conns["srv"][j]
        BY <2>2, <3>2
      <4>2. conns["srv"][j].sta = "open" =>
              sock'[conns["srv"][j].sock] = sock[conns["srv"][j].sock] /\ conns["srv"][j].sock # s
        BY <1>5, <2>2, <2>3, <3>2, <4>1
      <4>3. Young(i, j)  BY <1>11, <4>1 DEF Pace
      <4>4. (Done("cli", i)' <=> Done("cli", i)) /\ (TwiceIn("cli", i)' => TwiceIn("cli", i))  BY <1>6
      <4> QED  BY <1>2, <4>1, <4>2, <4>3, <4>4 DEF Young
    <3> QED  BY <3>1, <3>2
  <2>6. ASSUME NEW e \in Ends, NEW i \in DOMAIN conns'[e], NEW j \in DOMAIN conns'[Peer(e)]
        PROVE  Fresh(e, i, j)'
    BY <1>5, <2>4, <2>6 DEF Ends
  <2>7. Lagging'  BY <1>6, <1>11, Lagged DEF Pace, CntInv
  <2> QED  BY <2>1, <2>5, <2>6, <2>7 DEF Pace
<1> QED  BY <1>2, <1>8, <1>9, <1>11 DEF TimeInv

LEMMA RestartTime ==
  ASSUME CntInv, CntInv', TimeInv, Restart
  PROVE  TimeInv'
<1>1. /\ sock' = CloseAll(sock, conns["cli"], "cli")
      /\ conns' = [conns EXCEPT !["cli"] = OwnConns]
      /\ pos' = [pos EXCEPT !["cli"] = 0] /\ lag' = [lag EXCEPT !["cli"] = 0]
      /\ UNCHANGED <<acking, served, late>>
  BY DEF Restart
<1>2. /\ "cli" \in Ends /\ "srv" \in Ends /\ Peer("cli") = "srv" /\ Peer("srv") = "cli"
      /\ conns \in [Ends -> Seq(Conn)] /\ sock \in Net /\ pos \in [Ends -> Int] /\ lag \in [Ends -> Nat]
  BY DEF Ends, Peer, CntInv, LinkTypes
<1>3. conns'["srv"] = conns["srv"] /\ pos'["srv"] = pos["srv"] /\ lag'["srv"] = lag["srv"] /\ lag'["cli"] = 0
  BY <1>1, <1>2
<1>4. \A i \in DOMAIN conns'["cli"] : conns'["cli"][i].sta = "closed"
  BY <1>1, <1>2 DEF OwnConns, OwnConn
<1>5. OwnBack'
  <2>1. ASSUME NEW t \in Socks, NEW f \in sock'[t].up
        PROVE  (\E i \in DOMAIN conns'[f] : conns'[f][i].sock = t) \/ (f = "srv" /\ sock'[t].at = "tmp")
    <3>1. f \in Ends /\ sock[t] \in SockRec  BY DEF CntInv, LinkTypes, Net, SockRec
    <3>2. /\ (\E i \in DOMAIN conns["cli"] : conns["cli"][i].sock = t) => sock'[t] = Shut(sock[t], "cli")
          /\ ~(\E i \in DOMAIN conns["cli"] : conns["cli"][i].sock = t) => sock'[t] = sock[t]
      <4> DEFINE cns == conns["cli"]
      <4>1. /\ (\E i \in DOMAIN cns : cns[i].sock = t) => CloseAll(sock, cns, "cli")[t] = Shut(sock[t], "cli")
            /\ ~(\E i \in DOMAIN cns : cns[i].sock = t) => CloseAll(sock, cns, "cli")[t] = sock[t]
        <5> HIDE DEF cns
        <5> QED  BY <1>2, CloseAllIs
      <4> QED  BY <1>1, <4>1
    <3>3. Shut(sock[t], "cli").up = sock[t].up \ {"cli"}  BY <1>2, <3>1, ShutUp
    <3>4. f \in sock[t].up  BY <2>1, <3>2, <3>3
    <3>5. f = "srv"
      <4>1. SUFFICES ASSUME f = "cli" PROVE FALSE  BY <3>1 DEF Ends
      <4>2. \E i \in DOMAIN conns["cli"] : conns["cli"][i].sock = t
        BY <3>4, <4>1 DEF TimeInv, OwnBack
      <4> QED  BY <2>1, <3>2, <3>3, <4>1, <4>2
    <3>6. sock'[t].at = sock[t].at
      <4>1. CASE sock'[t] = sock[t]  BY <4>1
      <4>2. CASE sock'[t] = Shut(sock[t], "cli")
        <5>1. sock[t].up # {"cli"}  BY <3>4, <3>5
        <5>2. Shut(sock[t], "cli").at = sock[t].at  BY <1>2, <3>1, <5>1, ShutIs
        <5> QED  BY <4>2, <5>2
      <4> QED  BY <3>2, <4>1, <4>2
    <3>7. (\E i \in DOMAIN conns["srv"] : conns["srv"][i].sock = t) \/ sock[t].at = "tmp"
      BY <3>4, <3>5 DEF TimeInv, OwnBack
    <3> QED  BY <1>3, <3>5, <3>6, <3>7
  <2> QED  BY <2>1 DEF OwnBack
<1>6. Answered'  BY <1>4 DEF Answered
<1>7. ASSUME Pace PROVE Pace'
  <2>1. ASSUME NEW e \in Ends, NEW i \in DOMAIN conns'[e] PROVE Beats(e, i)'
    <3>1. CASE e = "cli"  BY <1>4, <3>1 DEF Beats
    <3>2. CASE e = "srv"
      <4>1. Beats(e, i) /\ conns'[e][i] = conns[e][i]  BY <1>3, <1>7, <3>2 DEF Pace
      <4>2. (TwiceIn(e, i)' <=> TwiceIn(e, i)) /\ (Behind(e, i)' <=> Behind(e, i))
        BY <1>1, <1>3, <3>2 DEF TwiceIn, Behind
      <4> QED  BY <4>1, <4>2 DEF Beats
    <3> QED  BY <3>1, <3>2 DEF Ends
  <2>2. ASSUME NEW e \in Ends, NEW i \in DOMAIN conns'[e], NEW j \in DOMAIN conns'[Peer(e)]
        PROVE  Fresh(e, i, j)'
    <3>1. e = "cli" \/ Peer(e) = "cli"  BY <1>2 DEF Ends
    <3>2. ~Quiet(e, i, j)'  BY <1>4, <3>1 DEF Quiet
    <3> QED  BY <3>2 DEF Fresh
  <2>3. ASSUME NEW i \in DOMAIN conns'["cli"], NEW j \in DOMAIN conns'["srv"] PROVE Young(i, j)'
    BY <1>4 DEF Young
  <2>4. Lagging'
    <3>1. Catches
      <4>1. \A f \in Ends : lag'[f] = lag[f] \/ lag'[f] = 0  BY <1>2, <1>3 DEF Ends
      <4> QED  BY <1>1, <4>1 DEF Catches
    <3> QED  BY <1>7, <3>1, Lagged DEF Pace, CntInv
  <2> QED  BY <2>1, <2>2, <2>3, <2>4 DEF Pace
<1> QED  BY <1>1, <1>5, <1>6, <1>7 DEF TimeInv

(* A tick: both ends have made a pass since the last one, unless it comes late. *)
LEMMA TickTime ==
  ASSUME CntInv, CntInv', TimeInv, NEW lateFlg \in BOOLEAN, LinkTick(lateFlg)
  PROVE  TimeInv'
<1>1. /\ UNCHANGED <<pos, sock, acking>> /\ served' = {} /\ late' = (late \/ lateFlg)
      /\ ~lateFlg => served = Ends /\ acking = 0
  BY DEF LinkTick, Waiting
<1>2. /\ \A e \in Ends : DOMAIN conns'[e] = DOMAIN conns[e]
      /\ \A e \in Ends : \A i \in DOMAIN conns[e] : conns'[e][i] = OneTick(conns[e][i], Lag(e))
      /\ \A e \in Ends : /\ lag'[e] = Lag(e) /\ Lag(e) \in Nat
                          /\ Lag(e) = IF pos[e] > 0 THEN lag[e] + 1 ELSE 0
  BY TickIs DEF CntInv
<1>3. \A e \in Ends : \A i \in DOMAIN conns[e] :
        LET c == conns[e][i]  d == conns'[e][i] IN
        /\ c \in Conn /\ d \in Conn
        /\ d.sta = c.sta /\ d.sock = c.sock
        /\ d.due = IF c.due + lag'[e] > 0 THEN c.due - 1 ELSE c.due
        /\ d.age = IF c.sta = "open" /\ c.age - lag'[e] < HBeatTm THEN c.age + 1 ELSE c.age
  <2>1. ASSUME NEW e \in Ends, NEW i \in DOMAIN conns[e], NEW c, c = conns[e][i], NEW d, d = conns'[e][i]
        PROVE  /\ c \in Conn /\ d \in Conn
               /\ d.sta = c.sta /\ d.sock = c.sock
               /\ d.due = IF c.due + lag'[e] > 0 THEN c.due - 1 ELSE c.due
               /\ d.age = IF c.sta = "open" /\ c.age - lag'[e] < HBeatTm THEN c.age + 1 ELSE c.age
    <3> DEFINE o == lag'[e]
    <3>1. c \in Conn /\ d = OneTick(c, o) /\ o \in Nat  BY <1>2, <2>1, StructConn DEF CntInv
    <3> HIDE DEF o
    <3>2. /\ d \in Conn /\ d.sta = c.sta /\ d.sock = c.sock
          /\ d.due = IF c.due + o > 0 THEN c.due - 1 ELSE c.due
          /\ d.age = IF c.sta = "open" /\ c.age - o < HBeatTm THEN c.age + 1 ELSE c.age
      BY <3>1, OneTickIs
    <3> QED  BY <3>1, <3>2 DEF o
  <2> QED  BY <2>1
<1>4. "cli" \in Ends /\ "srv" \in Ends /\ HBeatSndTm \in Nat /\ HBeatTm \in Nat
  BY LinkAssumption DEF Ends
<1>5. OwnBack'
  <2>1. ASSUME NEW t \in Socks, NEW f \in sock[t].up
        PROVE  (\E i \in DOMAIN conns'[f] : conns'[f][i].sock = t) \/ (f = "srv" /\ sock[t].at = "tmp")
    <3>1. f \in Ends  BY DEF CntInv, LinkTypes, Net, SockRec
    <3>2. (\E i \in DOMAIN conns[f] : conns[f][i].sock = t) \/ (f = "srv" /\ sock[t].at = "tmp")
      BY DEF TimeInv, OwnBack
    <3> QED  BY <1>2, <1>3, <3>1, <3>2
  <2> QED  BY <1>1, <2>1 DEF OwnBack
<1>6. Answered'
  <2>1. ASSUME NEW i \in DOMAIN conns'["cli"]
        PROVE  /\ i \in DOMAIN conns["cli"]
               /\ conns'["cli"][i].sta = conns["cli"][i].sta /\ conns'["cli"][i].sock = conns["cli"][i].sock
    BY <1>2, <1>3, <1>4
  <2> QED  BY <1>1, <2>1 DEF Answered, TimeInv
<1>7. ASSUME Pace, ~lateFlg PROVE Pace'
  <2>1. served = Ends /\ acking = 0 /\ \A e, i : ~TwiceIn(e, i)'  BY <1>1, <1>7 DEF TwiceIn
  <2>2. \A e \in Ends : \A i : Done(e, i) /\ (Done(e, i)' <=> TwiceIn(e, i))  BY <1>1, <2>1 DEF Done, TwiceIn
  <2>0. \A e \in Ends : lag[e] = 0 /\ lag'[e] = (IF pos[e] > 0 THEN 1 ELSE 0) /\ pos[e] \in Int
    <3>1. ASSUME NEW e \in Ends PROVE lag[e] = 0 /\ pos[e] \in Int
      <4>1. lag[e] \in Nat /\ pos[e] \in Int  BY DEF CntInv, LinkTypes
      <4> QED  BY <1>7, <2>1, <4>1 DEF Pace, Lagging
    <3> QED  BY <1>2, <3>1
  <2>7. Lagging'  BY <1>1, <2>0 DEF Lagging
  (* Whom the pass has not come to is behind, if the tick fell into it. *)
  <2>8. ASSUME NEW e \in Ends, NEW i \in DOMAIN conns[e]
        PROVE  /\ ~Behind(e, i)
               /\ lag'[e] = 1 => Behind(e, i)' \/ TwiceIn(e, i)
               /\ Behind(e, i)' => lag'[e] = 1
    <3>1. conns[e] \in Seq(Conn)  BY DEF CntInv, LinkTypes
    <3>2. i \in Nat /\ lag[e] = 0 /\ lag'[e] \in {0, 1} /\ pos[e] \in Int /\ pos'[e] = pos[e] /\ e \in served
      BY <1>1, <2>0, <2>1, <3>1
    <3>3. i >= pos[e] \/ i < pos[e]  BY <3>2
    <3> QED  BY <3>2, <3>3 DEF Behind, TwiceIn
  <2>3. ASSUME NEW e \in Ends, NEW i \in DOMAIN conns'[e] PROVE Beats(e, i)'
    <3> DEFINE c == conns[e][i]  d == conns'[e][i]  o == lag'[e]  behind == Behind(e, i)'
               twice == TwiceIn(e, i)
    <3>1. /\ Beats(e, i) /\ c \in Conn /\ d \in Conn /\ d.sta = c.sta /\ i \in DOMAIN conns[e]
          /\ d.due = IF c.due + o > 0 THEN c.due - 1 ELSE c.due
      BY <1>2, <1>3, <1>7 DEF Pace
    <3>2. /\ ~Behind(e, i)
          /\ o = 1 => behind \/ twice
          /\ o \in {0, 1}
      BY <2>0, <2>8, <3>1
    <3>3. /\ c.due \in Int
          /\ c.sta = "open" => c.due =< HBeatSndTm /\ c.due >= 0 /\ (twice => c.due > 0)
      BY <3>1, <3>2 DEF Conn, Beats
    <3> HIDE DEF c, o, behind, twice
    <3>4. d.sta = "open" => d.due =< HBeatSndTm /\ (d.due >= 0 \/ (behind /\ d.due >= -1))
      <4> SUFFICES ASSUME d.sta = "open"
                   PROVE  d.due =< HBeatSndTm /\ (d.due >= 0 \/ (behind /\ d.due >= -1))
        OBVIOUS
      <4> DEFINE n == c.due  m == d.due
      <4>1. n \in Int /\ n =< HBeatSndTm /\ n >= 0 /\ (twice => n > 0) /\ m = IF n + o > 0 THEN n - 1 ELSE n
        BY <3>1, <3>3
      <4> HIDE DEF n, m
      <4>2. m =< HBeatSndTm /\ (m >= 0 \/ (behind /\ m >= -1))  BY <1>4, <3>2, <4>1
      <4> QED  BY <4>2 DEF m
    <3> QED  BY <2>1, <3>4 DEF Beats, behind
  <2>4. ASSUME NEW e \in Ends, NEW i \in DOMAIN conns'[e], NEW j \in DOMAIN conns'[Peer(e)]
        PROVE  Fresh(e, i, j)'
    <3>0. Peer(e) \in Ends  BY PeerIs
    <3> DEFINE c == conns[e][i]  c2 == conns'[e][i]  d == conns[Peer(e)][j]  d2 == conns'[Peer(e)][j]
               o == lag'[Peer(e)]  behind == Behind(Peer(e), j)'
    <3>1. /\ i \in DOMAIN conns[e] /\ j \in DOMAIN conns[Peer(e)]
          /\ c \in Conn /\ d \in Conn
          /\ c2.sta = c.sta /\ c2.sock = c.sock /\ d2.sta = d.sta /\ d2.sock = d.sock
          /\ c2.age = IF c.sta = "open" /\ c.age - lag'[e] < HBeatTm THEN c.age + 1 ELSE c.age
          /\ d2.due = IF d.due + o > 0 THEN d.due - 1 ELSE d.due
          /\ lag'[e] \in Int
      BY <1>2, <1>3, <3>0
    <3>2. SUFFICES ASSUME Quiet(e, i, j)'
                   PROVE  /\ c2.age + d2.due =< HBeatSndTm + 3
                          /\ d2.due # 0 \/ Done(Peer(e), j)' \/ behind => c2.age + d2.due =< HBeatSndTm + 2
      BY DEF Fresh
    <3>3. Quiet(e, i, j)  BY <1>1, <3>1, <3>2 DEF Quiet
    <3>4. c.age + d.due =< HBeatSndTm + 2
      <4>1. Fresh(e, i, j)  BY <1>7, <3>1 DEF Pace
      <4> QED  BY <2>2, <3>0, <3>3, <4>1 DEF Fresh
    <3>5. (Done(Peer(e), j)' => d.due > 0) /\ d.due >= 0
      <4>1. Beats(Peer(e), j)  BY <1>7, <3>0, <3>1 DEF Pace
      <4>2. d.sta = "open"  BY <3>3 DEF Quiet
      <4>3. ~Behind(Peer(e), j)  BY <2>8, <3>0, <3>1
      <4> QED  BY <2>2, <3>0, <4>1, <4>2, <4>3 DEF Beats
    <3>6. c.age \in Int /\ d.due \in Int /\ o \in {0, 1} /\ (behind => o = 1)
      BY <2>0, <2>8, <3>0, <3>1 DEF Conn
    <3> DEFINE done == Done(Peer(e), j)'
    <3> HIDE DEF c, c2, d, d2, done, o, behind
    <3>7. (done => d.due > 0) /\ d.due >= 0  BY <3>5 DEF done
    <3>8. c2.age \in Int /\ c2.age =< c.age + 1  BY <1>4, <3>1, <3>6
    <3>9. /\ c2.age + d2.due =< HBeatSndTm + 3
          /\ d2.due # 0 \/ done \/ behind => c2.age + d2.due =< HBeatSndTm + 2
      <4>1. CASE d.due + o > 0
        <5>1. d2.due = d.due - 1  BY <3>1, <4>1
        <5> QED  BY <1>4, <3>4, <3>6, <3>8, <4>1, <5>1
      <4>2. CASE d.due = 0 /\ o = 0
        <5>1. d2.due = 0 /\ ~done /\ ~behind  BY <3>1, <3>6, <3>7, <4>2
        <5> QED  BY <1>4, <3>4, <3>6, <3>8, <4>2, <5>1
      <4> QED  BY <3>6, <3>7, <4>1, <4>2
    <3> QED  BY <3>9 DEF done
  <2>5. ASSUME NEW i \in DOMAIN conns'["cli"], NEW j \in DOMAIN conns'["srv"] PROVE Young(i, j)'
    <3> DEFINE c == conns["cli"][i]  c2 == conns'["cli"][i]  d == conns["srv"][j]  d2 == conns'["srv"][j]
    <3>1. /\ i \in DOMAIN conns["cli"] /\ j \in DOMAIN conns["srv"]
          /\ c \in Conn /\ d \in Conn
          /\ c2.sta = c.sta /\ c2.sock = c.sock /\ d2.sta = d.sta /\ d2.sock = d.sock
          /\ d2.age = IF d.sta = "open" /\ d.age - lag'["srv"] < HBeatTm THEN d.age + 1 ELSE d.age
          /\ lag'["srv"] \in Int
      BY <1>2, <1>3, <1>4
    <3>2. Young(i, j)  BY <1>7, <3>1 DEF Pace
    <3>3. SUFFICES ASSUME c2.sta = "init", d2.sta = "open", d2.sock = c2.sock, ~sock[c2.sock].cut
                   PROVE  /\ sock[c2.sock].in["srv"] = << >>
                          /\ d2.age =< 2
                          /\ Done("cli", i)' => d2.age =< 1
                          /\ acking # c2.sock
      BY <1>1, <2>1 DEF Young
    <3>4. /\ sock[c.sock].in["srv"] = << >>
          /\ d.age =< 1
          /\ TwiceIn("cli", i) => d.age = 0
      BY <1>4, <2>2, <3>1, <3>2, <3>3 DEF Young
    <3>5. acking # c.sock
      <4>1. ShapeOf("cli", c)  BY <1>4, <3>1, StructConn DEF CntInv
      <4> QED  BY <2>1, <3>1, <3>3, <4>1 DEF ShapeOf
    <3>6. d.age \in Int  BY <3>1 DEF Conn
    <3> DEFINE done == Done("cli", i)'
    <3>7. done => d.age = 0  BY <1>4, <2>2, <3>4
    <3> HIDE DEF c, c2, d, d2, done
    <3>8. d2.age =< d.age + 1  BY <1>4, <3>1, <3>6
    <3>9. d2.age \in Int  BY <1>4, <3>1, <3>6
    <3>10. d2.age =< 2 /\ (done => d2.age =< 1)  BY <3>4, <3>6, <3>7, <3>8, <3>9
    <3> QED  BY <3>1, <3>4, <3>5, <3>10 DEF done
  <2> QED  BY <2>3, <2>4, <2>5, <2>7 DEF Pace
<1> QED  BY <1>1, <1>5, <1>6, <1>7 DEF TimeInv

LEMMA InitTime ==
  ASSUME LinkInit
  PROVE  TimeInv
<1>1. /\ \A s \in Socks : sock[s].up = {}
      /\ conns["cli"] = OwnConns /\ conns["srv"] = << >>
      /\ \A e \in Ends : lag[e] = 0
  BY NoSockIs DEF LinkInit, Ends
<1>2. \A i \in DOMAIN OwnConns : OwnConns[i].sta = "closed"  BY DEF OwnConns, OwnConn
<1>3. OwnBack  BY <1>1 DEF OwnBack
<1>4. Answered  BY <1>1, <1>2 DEF Answered
<1>5. \A e \in Ends : \A i \in DOMAIN conns[e] : conns[e][i].sta = "closed"  BY <1>1, <1>2 DEF Ends
<1>6. Pace
  <2>1. \A e \in Ends : \A i \in DOMAIN conns[e] : Beats(e, i)  BY <1>5 DEF Beats
  <2>2. \A e \in Ends : \A i \in DOMAIN conns[e], j \in DOMAIN conns[Peer(e)] : Fresh(e, i, j)
    BY <1>5 DEF Fresh, Quiet
  <2>3. \A i \in DOMAIN conns["cli"], j \in DOMAIN conns["srv"] : Young(i, j)  BY <1>1 DEF Young
  <2>4. Lagging  BY <1>1 DEF Lagging
  <2> QED  BY <2>1, <2>2, <2>3, <2>4 DEF Pace
<1> QED  BY <1>3, <1>4, <1>6 DEF TimeInv

LEMMA TimeStep ==
  ASSUME CntInv, CntInv', TimeInv, LinkNext
  PROVE  TimeInv'
<1>1. ASSUME NEW e \in Ends, HostPass(e) PROVE TimeInv'
  <2>1. CASE \E wr \in BOOLEAN : SndPass(e, wr)  BY <2>1, SndPassTime
  <2>2. CASE \E wr, ok, full \in BOOLEAN : ConnPass(e, wr, ok, full)  BY <2>2, ConnPassTime
  <2>3. CASE TickPass(e)  BY <2>3, TickPassTime
  <2> QED  BY <1>1, <2>1, <2>2, <2>3 DEF HostPass
<1>2. ASSUME NEW e \in Ends, Send(e) PROVE TimeInv'  BY <1>2, SendTime
<1>3. CASE Accept  BY <1>3, AcptAckTime, AcptReqTime, AcptEndTime DEF Accept
<1>4. ASSUME NEW lateFlg \in BOOLEAN, LinkTick(lateFlg) PROVE TimeInv'  BY <1>4, TickTime
<1>5. ASSUME NEW s \in Socks, Cut(s) PROVE TimeInv'  BY <1>5, CutTime
<1>6. CASE Restart  BY <1>6, RestartTime
<1> QED  BY <1>1, <1>2, <1>3, <1>4, <1>5, <1>6 DEF LinkNext

-----------------------------------------------------------------------------
(* No false alarm *)

(* The inductive invariant of time: no socket is without an owner, who     *)
(* waits for an answer will read it, and the age of a connection and the   *)
(* timer at its other end are in step unless a tick came late (Pace).      *)
THEOREM TimeInductive == LinkSpec => []TimeInv
<1>1. LinkInit => TimeInv  BY InitTime
<1>2. CntInv /\ CntInv' /\ TimeInv /\ [LinkNext]_linkVars => TimeInv'
  <2>1. ASSUME CntInv, TimeInv, UNCHANGED linkVars PROVE TimeInv'
    <3>1. UNCHANGED <<conns, sock, acking, late>> /\ UNCHANGED <<pos, lag, served>>
      BY <2>1 DEF linkVars
    <3> QED  BY <2>1, <3>1, SameDone, TimeSame
  <2> QED  BY <2>1, TimeStep
<1> QED  BY <1>1, <1>2, CntInductive, PTL DEF LinkSpec

(* A heartbeat comes in time: an open connection on which nothing came for *)
(* long has lost its peer, or a tick came late.                            *)
LEMMA HeardFrom ==
  ASSUME CntInv, TimeInv, ~late, HBeatTm >= HBeatSndTm + 4,
         NEW e \in Ends, NEW i \in DOMAIN conns[e]
  PROVE  ~Deaf(e, conns[e][i], lag[e])
<1> DEFINE c == conns[e][i]  s == c.sock  x == sock[s]  p == Peer(e)
<1> SUFFICES ASSUME Deaf(e, c, lag[e]) PROVE FALSE  OBVIOUS
<1>1. c.sta = "open" /\ Came(e, c) = << >> /\ c.age - lag[e] >= HBeatTm /\ ~x.cut /\ ~SockEnd(sock, s, e)
  BY DEF Deaf
<1>2. /\ c \in Conn /\ s \in Socks /\ HasSock(e, c, x, acking) /\ SockOK(s, x, acking) /\ x \in SockRec
  <2>1. c \in Conn /\ ShapeOf(e, c)  BY StructConn DEF CntInv
  <2>2. s # 0  BY <1>1, <2>1 DEF ShapeOf
  <2> QED  BY <2>1, <2>2, StructConn DEF CntInv
<1>3. x.in[e] = << >>  BY <1>1, <1>2, InIs
<1>4. p \in x.up  BY <1>1, <1>3 DEF SockEnd
<1>5. p \in Ends /\ HBeatSndTm \in Nat /\ HBeatTm \in Nat  BY PeerIs, LinkAssumption
<1>6. c.age > HBeatSndTm + 3 /\ c.age \in Int
  <2>1. c.age \in Int /\ lag[e] \in Nat  BY <1>2 DEF Conn, CntInv, LinkTypes
  <2> HIDE DEF c
  <2> QED  BY <1>1, <1>5, <2>1
<1>7. x.at = "conn"  BY <1>1, <1>2 DEF HasSock, Ends
<1>8. PICK j \in DOMAIN conns[p] : conns[p][j].sock = s
  BY <1>2, <1>4, <1>7 DEF TimeInv, OwnBack
<1> DEFINE d == conns[p][j]
<1>9. d \in Conn /\ ShapeOf(p, d) /\ HasSock(p, d, x, acking)
  <2>1. s # 0  BY <1>2, LinkAssumption
  <2> QED  BY <1>5, <1>8, <2>1, StructConn DEF CntInv
<1>10. d.sta # "closed" /\ d.sta # "connected"
  <2>1. s # 0  BY <1>2, LinkAssumption
  <2>2. d.sta # "closed"  BY <1>8, <1>9, <2>1 DEF ShapeOf
  <2>3. d.sta # "connected"
    <3>1. CASE p = "srv"  BY <1>9, <3>1 DEF ShapeOf
    <3>2. CASE p = "cli"  BY <1>7, <1>9, <3>2 DEF HasSock
    <3> QED  BY <1>5, <3>1, <3>2 DEF Ends
  <2> QED  BY <2>2, <2>3
<1>11. d.sta # "open"
  <2>1. SUFFICES ASSUME d.sta = "open" PROVE FALSE  OBVIOUS
  <2>2. Fresh(e, i, j)  BY <1>8 DEF TimeInv, Pace
  <2>3. Quiet(e, i, j)  BY <1>1, <1>3, <1>8, <2>1 DEF Quiet
  <2>4. /\ c.age + d.due =< HBeatSndTm + 3
        /\ Behind(p, j) => c.age + d.due =< HBeatSndTm + 2
    BY <2>2, <2>3 DEF Fresh
  <2>5. d.due \in Int  BY <1>9 DEF Conn
  <2>6. d.due >= 0 \/ (Behind(p, j) /\ d.due >= -1)
    <3>1. Beats(p, j)  BY <1>5, <1>8 DEF TimeInv, Pace
    <3> QED  BY <2>1, <3>1 DEF Beats
  <2> HIDE DEF c, d, p
  <2> QED  BY <1>5, <1>6, <2>4, <2>5, <2>6
<1>12. d.sta = "init"  BY <1>9, <1>10, <1>11 DEF Conn
<1>13. p = "cli" /\ e = "srv"
  <2>1. p # "srv"  BY <1>9, <1>12 DEF ShapeOf
  <2> QED  BY <1>5, <2>1 DEF Ends, Peer
<1>14. Young(j, i)  BY <1>8, <1>13 DEF TimeInv, Pace
<1>15. c.age =< 2  BY <1>1, <1>8, <1>12, <1>13, <1>14 DEF Young
<1> HIDE DEF c
<1> QED  BY <1>5, <1>6, <1>15

LEMMA AlarmStep ==
  ASSUME CntInv, TimeInv, NoFalseAlarm, HBeatTm >= HBeatSndTm + 4, [LinkNext]_linkVars
  PROVE  NoFalseAlarm'
<1>1. ASSUME NEW e \in Ends, NEW wr \in BOOLEAN, NEW ok \in BOOLEAN, NEW full \in BOOLEAN,
             ConnPass(e, wr, ok, full)
      PROVE  NoFalseAlarm'
  <2> DEFINE c == conns[e][pos[e]]
  <2>1. late' = late  BY <1>1 DEF ConnPass
  <2>2. pos[e] \in DOMAIN conns[e]
    <3>1. pos[e] > 0  BY <1>1 DEF ConnPass
    <3>2. pos[e] \in Int /\ pos[e] =< Len(conns[e]) /\ conns[e] \in Seq(Conn)
      BY DEF LinkTypes, CntInv
    <3> QED  BY <3>1, <3>2
  <2>3. ShapeOf(e, c)  BY <2>2, StructConn DEF CntInv
  <2>4. tooOld' => tooOld \/ ahead' \/ Deaf(e, c, lag[e])
    <3>1. LinkTypes  BY DEF CntInv
    <3> HIDE DEF c
    <3>2. c = conns[e][pos[e]]  BY DEF c
    <3> QED  BY <1>1, <2>3, <3>1, <3>2, PassCases
  <2>5. ~late => ~Deaf(e, c, lag[e])  BY <2>2, HeardFrom
  <2>6. ahead => ahead'  BY <1>1 DEF ConnPass
  <2> QED  BY <2>1, <2>4, <2>5, <2>6 DEF NoFalseAlarm
<1>2. ASSUME NEW e \in Ends, NEW wr \in BOOLEAN, SndPass(e, wr) PROVE NoFalseAlarm'
  BY <1>2 DEF SndPass, NoFalseAlarm
<1>3. ASSUME NEW e \in Ends, Send(e) PROVE NoFalseAlarm'  BY <1>3 DEF Send, NoFalseAlarm
<1>4. CASE Accept  BY <1>4 DEF Accept, AcptAck, AcptReq, AcptEnd, NoFalseAlarm
<1>5. ASSUME NEW lateFlg \in BOOLEAN, LinkTick(lateFlg) PROVE NoFalseAlarm'
  BY <1>5 DEF LinkTick, NoFalseAlarm
<1>6. ASSUME NEW s \in Socks, Cut(s) PROVE NoFalseAlarm'  BY <1>6 DEF Cut, NoFalseAlarm
<1>7. CASE Restart  BY <1>7 DEF Restart, NoFalseAlarm
<1>9. ASSUME NEW e \in Ends, TickPass(e) PROVE NoFalseAlarm'  BY <1>9 DEF TickPass, NoFalseAlarm
<1>8. CASE UNCHANGED linkVars  BY <1>8 DEF linkVars, NoFalseAlarm
<1> QED  BY <1>1, <1>2, <1>3, <1>4, <1>5, <1>6, <1>7, <1>8, <1>9 DEF LinkNext, HostPass

(* As long as no tick comes late and no pass finds a heartbeat that came   *)
(* after the tick that it read, no connection is closed as silent that the *)
(* network has not cut: for every number of connections and of ticks that  *)
(* fall into a pass, and every pair of times that are four ticks apart.    *)
THEOREM NeverFalseAlarm ==
  ASSUME HBeatTm >= HBeatSndTm + 4
  PROVE  LinkSpec => []NoFalseAlarm
<1>1. LinkInit => NoFalseAlarm  BY DEF LinkInit, NoFalseAlarm
<1>2. CntInv /\ TimeInv /\ NoFalseAlarm /\ [LinkNext]_linkVars => NoFalseAlarm'  BY AlarmStep
<1> QED  BY <1>1, <1>2, CntInductive, TimeInductive, PTL DEF LinkSpec
=============================================================================
