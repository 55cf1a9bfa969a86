------------------------------- MODULE ThrPool -------------------------------
(***************************************************************************)
(* The thread pool of thrlib (src/libsrc/thrlib/thrlib_pool.c): jobs are   *)
(* registered in the queue of a stream and taken by worker threads, of     *)
(* which there are at least wkrMinCnt and, while jobs wait and all are     *)
(* busy, up to wkrMaxCnt.  A worker that finds no job a few times waits on *)
(* a condition, and an additional one ends when it waited too long.        *)
(*                                                                         *)
(* The mutex of the pool and those of the streams are separate steps where *)
(* someone can find them taken.  A worker that timed out no longer waits   *)
(* but has not got the mutex back (pc "tmout"): a signal does not reach    *)
(* it.  After thrlib_poolDstry nothing of the pool may be used.            *)
(***************************************************************************)
EXTENDS Integers, FiniteSets, SequencesExt

CONSTANTS
  Regs,        \* threads that register jobs
  Wkrs,        \* bound: worker control blocks, at least wkrMaxCnt
  MinWkr,      \* wkrMinCnt
  MaxWkr,      \* wkrMaxCnt
  StrmCnt,     \* strmMaxCnt
  JobMax,      \* jobMaxCnt, 0 for no limit
  Sleepless,   \* THR_POOL_COND_SLEEP_ST_CNT
  MaxJob       \* bound: jobs offered

ASSUME PoolAssumption ==
  /\ MinWkr \in Nat /\ MaxWkr \in Nat /\ MinWkr =< MaxWkr
  /\ IsFiniteSet(Wkrs) /\ Cardinality(Wkrs) >= MaxWkr
  /\ StrmCnt \in Nat \ {0} /\ JobMax \in Nat /\ Sleepless \in Nat

VARIABLES
  cnt,       \* wkrCnt, busyWkrCnt, nxtStrmId
  phase,     \* "run", "term" (termFlg) or "done" (destroyed)
  mutx,      \* who holds the mutex of the pool
  jobMutx,   \* who holds the mutex of each stream
  regJob,    \* the queue of each stream
  wkr,       \* the workers
  reg,       \* the calls of thrlib_poolRegJob
  offered,   \* jobs offered
  accepted,  \* history: jobs accepted by each stream
  started,   \* history: jobs of each stream that were taken
  missed     \* history: a job was signalled that no worker waited for, or a
             \* worker went to sleep past a stream that was busy when it looked

poolVars == <<cnt, phase, mutx, jobMutx, regJob, wkr, reg, offered, accepted, started, missed>>

Strms == 0 .. StrmCnt - 1
NoOne == "none"
NextStrm(s) == (s + 1) % StrmCnt

noWkr == [pc |-> "none", timed |-> FALSE, idx |-> 0, left |-> 0, sleepCnt |-> 0, job |-> 0]
noReg == [pc |-> "idle", strm |-> 0, job |-> 0]
NewWkr(timed) == [noWkr EXCEPT !.pc = "start", !.timed = timed]

(* thrlib_poolInit creates the workers that never end. *)
PoolInit ==
  /\ cnt = [wkr |-> MinWkr, busy |-> 0, nxtStrm |-> 0]
  /\ phase = "run"
  /\ mutx = NoOne
  /\ jobMutx = [s \in Strms |-> NoOne]
  /\ regJob = [s \in Strms |-> << >>]
  /\ \E first \in SUBSET Wkrs :
       /\ Cardinality(first) = MinWkr
       /\ wkr = [w \in Wkrs |-> IF w \in first THEN NewWkr(FALSE) ELSE noWkr]
  /\ reg = [r \in Regs |-> noReg]
  /\ offered = 0
  /\ accepted = [s \in Strms |-> << >>]
  /\ started = [s \in Strms |-> << >>]
  /\ missed = FALSE

-----------------------------------------------------------------------------
(* thrlib_poolRegJob *)

(* A stream that is asked for by a number, or 0 for the next one. *)
RegLock(r, ask) ==
  /\ reg[r].pc = "idle"
  /\ phase # "done"
  /\ offered < MaxJob
  /\ mutx = NoOne
  /\ IF phase = "term"
       THEN UNCHANGED <<mutx, reg, cnt, offered>>
       ELSE /\ mutx' = r
            /\ offered' = offered + 1
            /\ reg' = [reg EXCEPT ![r] = [pc |-> "try", job |-> offered + 1,
                         strm |-> IF ask = 0 THEN cnt.nxtStrm ELSE ask]]
            /\ cnt' = IF ask = 0 THEN [cnt EXCEPT !.nxtStrm = NextStrm(@)] ELSE cnt
  /\ UNCHANGED <<phase, jobMutx, regJob, wkr, accepted, started, missed>>

(* The mutex of the stream is taken, or the next stream is tried, whatever *)
(* stream was asked for.                                                   *)
RegTry(r) ==
  /\ reg[r].pc = "try"
  /\ LET s == reg[r].strm
     IN IF jobMutx[s] = NoOne
          THEN /\ jobMutx' = [jobMutx EXCEPT ![s] = r]
               /\ reg' = [reg EXCEPT ![r].pc = "put"]
               /\ UNCHANGED cnt
          ELSE /\ cnt' = [cnt EXCEPT !.nxtStrm = NextStrm(@)]
               /\ reg' = [reg EXCEPT ![r].strm = NextStrm(cnt.nxtStrm)]
               /\ UNCHANGED jobMutx
  /\ UNCHANGED <<phase, mutx, regJob, wkr, offered, accepted, started, missed>>

(* A worker is added when jobs wait and all workers are busy. *)
Crowded(s) == regJob[s] # << >> /\ cnt.busy = cnt.wkr /\ cnt.wkr < MaxWkr

IsFull(s) == JobMax # 0 /\ Len(regJob[s]) = JobMax

(* Fault: no worker is woken. *)
Signalled_None(ws) == {ws}

(* The workers after the signal: one that waits is woken. *)
Signalled(ws) ==
  LET waiting == {w \in Wkrs : ws[w].pc = "wait"}
  IN IF waiting = {} THEN {ws} ELSE {[ws EXCEPT ![w].pc = "woken"] : w \in waiting}

(* Fault: the new job goes first. *)
Queued_First(q, job) == <<job>> \o q

Queued(q, job) == Append(q, job)

RegPut(r) ==
  /\ reg[r].pc = "put"
  /\ LET s == reg[r].strm
         free == {w \in Wkrs : wkr[w].pc = "none"}
     IN \E ws \in IF Crowded(s) THEN {[wkr EXCEPT ![w] = NewWkr(TRUE)] : w \in free} ELSE {wkr} :
          /\ cnt' = IF Crowded(s) THEN [cnt EXCEPT !.wkr = @ + 1] ELSE cnt
          /\ IF IsFull(s)
               THEN wkr' = ws /\ UNCHANGED <<regJob, accepted, missed>>
               ELSE /\ regJob' = [regJob EXCEPT ![s] = Queued(@, reg[r].job)]
                    /\ accepted' = [accepted EXCEPT ![s] = Append(@, reg[r].job)]
                    /\ wkr' \in Signalled(ws)
                    /\ missed' = (missed \/ \A w \in Wkrs : wkr[w].pc # "wait")
          /\ jobMutx' = [jobMutx EXCEPT ![s] = NoOne]
  /\ mutx' = NoOne
  /\ reg' = [reg EXCEPT ![r] = noReg]
  /\ UNCHANGED <<phase, offered, started>>

-----------------------------------------------------------------------------
(* pool_wkrThrd *)

WkrStart(w) ==
  /\ wkr[w].pc = "start"
  /\ mutx = NoOne
  /\ cnt' = [cnt EXCEPT !.busy = @ + 1]
  /\ wkr' = [wkr EXCEPT ![w].pc = "top"]
  /\ UNCHANGED <<phase, mutx, jobMutx, regJob, reg, offered, accepted, started, missed>>

(* The top of the loop: the worker ends, or looks at every stream once. *)
WkrTop(w) ==
  /\ wkr[w].pc = "top"
  /\ wkr' = [wkr EXCEPT ![w].pc = IF phase = "term" THEN "end" ELSE "scan", ![w].left = StrmCnt]
  /\ UNCHANGED <<cnt, phase, mutx, jobMutx, regJob, reg, offered, accepted, started, missed>>

(* No job was found in any stream. *)
WkrNone(w) ==
  /\ wkr[w].pc = "scan"
  /\ wkr[w].left = 0
  /\ wkr' = [wkr EXCEPT
       ![w].pc = IF wkr[w].sleepCnt >= Sleepless THEN "sleep" ELSE "top",
       ![w].sleepCnt = IF @ < Sleepless THEN @ + 1 ELSE @]
  /\ missed' = (missed \/ (wkr[w].sleepCnt >= Sleepless /\ \E s \in Strms : regJob[s] # << >>))
  /\ UNCHANGED <<cnt, phase, mutx, jobMutx, regJob, reg, offered, accepted, started>>

WkrTry(w) ==
  /\ wkr[w].pc = "scan"
  /\ wkr[w].left > 0
  /\ LET s == wkr[w].idx
     IN IF jobMutx[s] = NoOne
          THEN /\ jobMutx' = [jobMutx EXCEPT ![s] = w]
               /\ wkr' = [wkr EXCEPT ![w].pc = "get"]
          ELSE /\ wkr' = [wkr EXCEPT ![w].idx = NextStrm(@), ![w].left = @ - 1]
               /\ UNCHANGED jobMutx
  /\ UNCHANGED <<cnt, phase, mutx, regJob, reg, offered, accepted, started, missed>>

(* The first job of the stream, at which the next look will begin. *)
WkrGet(w) ==
  /\ wkr[w].pc = "get"
  /\ LET s == wkr[w].idx
     IN /\ IF regJob[s] = << >>
             THEN /\ wkr' = [wkr EXCEPT ![w].pc = "scan", ![w].idx = NextStrm(@), ![w].left = @ - 1]
                  /\ UNCHANGED <<regJob, started>>
             ELSE /\ wkr' = [wkr EXCEPT ![w].pc = "run", ![w].job = Head(regJob[s]), ![w].sleepCnt = 0]
                  /\ regJob' = [regJob EXCEPT ![s] = Tail(@)]
                  /\ started' = [started EXCEPT ![s] = Append(@, Head(regJob[s]))]
        /\ jobMutx' = [jobMutx EXCEPT ![s] = NoOne]
  /\ UNCHANGED <<cnt, phase, mutx, reg, offered, accepted, missed>>

(* The job has run; its block goes to the idle list of the stream. *)
WkrRan(w) ==
  /\ wkr[w].pc = "run"
  /\ jobMutx[wkr[w].idx] = NoOne
  /\ jobMutx' = [jobMutx EXCEPT ![wkr[w].idx] = w]
  /\ wkr' = [wkr EXCEPT ![w].pc = "idle", ![w].job = 0]
  /\ UNCHANGED <<cnt, phase, mutx, regJob, reg, offered, accepted, started, missed>>

WkrIdle(w) ==
  /\ wkr[w].pc = "idle"
  /\ jobMutx' = [jobMutx EXCEPT ![wkr[w].idx] = NoOne]
  /\ wkr' = [wkr EXCEPT ![w].pc = "top"]
  /\ UNCHANGED <<cnt, phase, mutx, regJob, reg, offered, accepted, started, missed>>

WkrSleep(w) ==
  /\ wkr[w].pc = "sleep"
  /\ mutx = NoOne
  /\ cnt' = [cnt EXCEPT !.busy = @ - 1]
  /\ wkr' = [wkr EXCEPT ![w].pc = "wait"]
  /\ UNCHANGED <<phase, mutx, jobMutx, regJob, reg, offered, accepted, started, missed>>

WkrTmOut(w) ==
  /\ wkr[w].pc = "wait"
  /\ wkr' = [wkr EXCEPT ![w].pc = "tmout"]
  /\ UNCHANGED <<cnt, phase, mutx, jobMutx, regJob, reg, offered, accepted, started, missed>>

(* A worker that is not needed any more ends; another one waits again,     *)
(* without another look at the queues, unless the pool ends.               *)
WkrAgain(w, over) ==
  /\ wkr[w].pc = "tmout"
  /\ mutx = NoOne
  /\ over => wkr[w].timed
  /\ wkr' = [wkr EXCEPT ![w].pc =
       IF phase = "term" \/ (over /\ cnt.wkr > MinWkr) THEN "end" ELSE "wait"]
  /\ UNCHANGED <<cnt, phase, mutx, jobMutx, regJob, reg, offered, accepted, started, missed>>

Woken(c) == [c EXCEPT !.busy = @ + 1]

WkrWoken(w) ==
  /\ wkr[w].pc = "woken"
  /\ mutx = NoOne
  /\ cnt' = Woken(cnt)
  /\ wkr' = [wkr EXCEPT ![w].pc = "top", ![w].sleepCnt = 0]
  /\ UNCHANGED <<phase, mutx, jobMutx, regJob, reg, offered, accepted, started, missed>>

(* pool_clnWkr: the worker counts itself out, and then puts its block into *)
(* the list of free ones.                                                  *)
ClnCount(w) ==
  /\ wkr[w].pc = "end"
  /\ mutx = NoOne
  /\ mutx' = w
  /\ cnt' = [cnt EXCEPT !.wkr = @ - 1]
  /\ wkr' = [wkr EXCEPT ![w].pc = "out"]
  /\ UNCHANGED <<phase, jobMutx, regJob, reg, offered, accepted, started, missed>>

ClnFree(w) ==
  /\ wkr[w].pc = "out"
  /\ phase # "done"
  /\ mutx' = NoOne
  /\ wkr' = [wkr EXCEPT ![w] = noWkr]
  /\ UNCHANGED <<cnt, phase, jobMutx, regJob, reg, offered, accepted, started, missed>>

-----------------------------------------------------------------------------
(* thrlib_poolDstry *)

SetTerm ==
  /\ phase = "run"
  /\ phase' = "term"
  /\ UNCHANGED <<cnt, mutx, jobMutx, regJob, wkr, reg, offered, accepted, started, missed>>

(* wkrCnt is read without the mutex. *)
DstryPool ==
  /\ phase = "term"
  /\ cnt.wkr = 0
  /\ phase' = "done"
  /\ UNCHANGED <<cnt, mutx, jobMutx, regJob, wkr, reg, offered, accepted, started, missed>>

-----------------------------------------------------------------------------
Reg(r) == phase # "done" /\ (RegTry(r) \/ RegPut(r))

Wkr(w) ==
  /\ phase # "done"
  /\ \/ WkrStart(w) \/ WkrTop(w) \/ WkrNone(w) \/ WkrTry(w) \/ WkrGet(w) \/ WkrRan(w) \/ WkrIdle(w)
     \/ WkrSleep(w) \/ WkrTmOut(w) \/ WkrWoken(w)
     \/ \E over \in BOOLEAN : WkrAgain(w, over)
     \/ ClnCount(w) \/ ClnFree(w)

PoolNext ==
  \/ \E r \in Regs : Reg(r) \/ \E ask \in Strms : RegLock(r, ask)
  \/ \E w \in Wkrs : Wkr(w)
  \/ SetTerm \/ DstryPool

(* Every thread runs, and none is passed over for ever for a mutex. *)
PoolFairness ==
  /\ \A r \in Regs : WF_poolVars(Reg(r))
  /\ \A w \in Wkrs : SF_poolVars(Wkr(w))
  /\ WF_poolVars(DstryPool)

PoolSpec == PoolInit /\ [][PoolNext]_poolVars /\ PoolFairness

-----------------------------------------------------------------------------
(* Properties *)

Live == {w \in Wkrs : wkr[w].pc \notin {"none", "out"}}
Asleep == {w \in Wkrs : wkr[w].pc \in {"wait", "tmout", "woken"}}

(* What a stream accepted is taken once and in this order, whichever       *)
(* workers take it, and what was not taken is in the queue.                *)
JobsInOrder == \A s \in Strms : accepted[s] = started[s] \o regJob[s]

(* The counts by which the pool grows, shrinks and ends are those of its   *)
(* workers: it never has more than wkrMaxCnt, nor fewer than wkrMinCnt     *)
(* before it ends, and when it is destroyed the only worker that may be    *)
(* left is one that has counted itself out.                                *)
CountsExact ==
  /\ phase # "done" => cnt.wkr = Cardinality(Live)
  /\ phase = "run" =>
       /\ cnt.busy = Cardinality({w \in Live \ Asleep : wkr[w].pc \notin {"start", "end"}})
       /\ cnt.wkr \in MinWkr .. MaxWkr
  /\ phase = "done" => Live = {}

(* A job is left for good only if its signal found no worker waiting, or a *)
(* worker passed it over because its stream was busy, and all of them      *)
(* sleep now; and a pool that is to end does.                              *)
JobsEnd ==
  <>[](\/ phase = "done"
       \/ /\ phase = "run"
          /\ (\E s \in Strms : regJob[s] # << >>) => missed /\ Live \subseteq Asleep)

(* No job is lost, doubled or moved ahead of another of its stream, and    *)
(* the counts are the workers' (thrlib_pool.c).                            *)
PoolExact == JobsInOrder /\ CountsExact
=============================================================================
