---------------------------- MODULE ServerProof ----------------------------
(***************************************************************************)
(* Theorems about the HTTP server and the thread pool that runs its work:  *)
(* RsvServer and ThrPool, which have no variable in common, for any values *)
(* of their constants.                                                     *)
(***************************************************************************)
EXTENDS RsvServer, ThrPool, FiniteSetTheorems, SequenceTheorems, TLAPS

(***************************************************************************)
(* RsvServer.                                                              *)
(*                                                                         *)
(* Theorems about RsvServer, for any callers, requests and number of       *)
(* calls.                                                                  *)
(*                                                                         *)
(* As long as the server was not run while it ran, the flag, the handle,   *)
(* the daemon and the call that stops it agree (ServerAgrees), so that the *)
(* sessions are cleared only when the daemon holds no request any more,    *)
(* and what each request has follows from where it is (RequestsHave).      *)
(***************************************************************************)

(* The flag, the handle, the daemon and the calls.                         *)
ServerAgrees ==
  /\ ~runFlg => daemon = "none" /\ actv = {} /\ \A c \in Callers : call[c] = "idle"
  /\ daemon # "none" => dm = "valid"
  /\ daemon = "none" => \A r \in Reqs : ~Active(r)
  /\ \A c \in Callers : call[c] = "stopping" => daemon = "stopping"
  /\ \A c \in Callers : call[c] = "clear" => daemon = "none"
  /\ runFlg /\ dm = "stale" => badStart \/ \E c \in Callers : call[c] = "clear"

(* What a request has, by where it is.                                     *)
RequestHas(r) ==
  /\ pc[r] = "insert" => ses[r] = "live"
  /\ pc[r] = "doc" => r \in actv /\ ses[r] = "live"
  /\ pc[r] \in {"open", "func", "stream", "unlist"} => r \in actv /\ ses[r] = "live" /\ doc[r] = "set"
  /\ r \in actv => /\ pc[r] \in {"doc", "open", "func", "stream", "unlist", "dropped"}
                   /\ pc[r] = "dropped" => ses[r] = "live" /\ doc[r] = "set"

RequestsHave == \A r \in Reqs : RequestHas(r)

RsvInv ==
  /\ TypeOK
  /\ rerun \/ (ServerAgrees /\ RequestsHave)
  /\ MemorySafe

-----------------------------------------------------------------------------
LEMMA RsvInvInit == Init => RsvInv
<1> SUFFICES ASSUME Init PROVE RsvInv
  OBVIOUS
<1>1. TypeOK
  <2>1. runMutx \in Callers \cup {NULL} /\ (\A c \in Callers : call[c] = "idle") /\ calls = 0
    BY DEF Init
  <2>2. call \in [Callers -> {"idle", "stopping", "clear"}]
    BY DEF Init
  <2>3. /\ pc \in [Reqs -> {"none", "parse", "insert", "doc", "open", "func", "stream", "unlist",
                            "free", "done", "dropped"}]
        /\ ses \in [Reqs -> {"none", "live", "freed"}]
        /\ doc \in [Reqs -> {"unset", "set", "freed"}]
    BY DEF Init
  <2>4. type \in [Reqs -> Types]
    BY DEF Init, Types
  <2>5. rules \subseteq Types /\ actv \subseteq Reqs
    BY DEF Init
  <2>6. 0 \in 0 .. MaxCalls
    BY RsvAssumption DEF RsvAssumption
  <2>7. QED BY <2>1, <2>2, <2>3, <2>4, <2>5, <2>6 DEF Init, TypeOK
<1>2. ServerAgrees
  BY DEF Init, ServerAgrees, Active, InCallback, Between
<1>3. RequestsHave
  BY DEF Init, RequestsHave, RequestHas
<1>4. QED BY <1>1, <1>2, <1>3 DEF RsvInv, MemorySafe, Init

-----------------------------------------------------------------------------
(* Type correctness *)

LEMMA TypeProgram == ASSUME TypeOK, NEW c \in Callers, Program(c) PROVE TypeOK'
<1> USE RsvAssumption DEF TypeOK, RsvAssumption, Types, Enter, apiVars, reqVars, MemErr
<1>1. CASE SetRule(c)      BY <1>1 DEF SetRule
<1>2. CASE SetRuleStrm(c)  BY <1>2 DEF SetRuleStrm
<1>3. CASE RunBadKeys(c)   BY <1>3 DEF RunBadKeys
<1>4. CASE Run(c)          BY <1>4 DEF Run
<1>5. CASE StopIdle(c)     BY <1>5 DEF StopIdle
<1>6. CASE StopDaemon(c)   BY <1>6 DEF StopDaemon
<1>7. CASE StopStale(c)    BY <1>7 DEF StopStale
<1>8. QED BY <1>1, <1>2, <1>3, <1>4, <1>5, <1>6, <1>7 DEF Program

LEMMA TypeStop == ASSUME TypeOK, NEW c \in Callers, StopGoesOn(c) PROVE TypeOK'
<1> USE RsvAssumption DEF TypeOK, RsvAssumption, Types, apiVars, reqVars, MemErr
<1>1. CASE Stopped(c)      BY <1>1 DEF Stopped
<1>2. CASE Clear(c)
  <2>1. PICK r \in actv :
          \/ MemErr
          \/ /\ doc' = [doc EXCEPT ![r] = "freed"] /\ actv' = actv \ {r}
             /\ UNCHANGED <<apiVars, daemon, pc, type, ses, memErr>>
    BY <1>2 DEF Clear
  <2>2. doc' \in [Reqs -> {"unset", "set", "freed"}] /\ actv' \subseteq Reqs
    BY <2>1
  <2>3. UNCHANGED <<apiVars, daemon, pc, type, ses>> /\ memErr' \in BOOLEAN
    BY <2>1
  <2>4. QED BY <2>2, <2>3
<1>3. CASE StopEnd(c)      BY <1>3 DEF StopEnd
<1>4. QED BY <1>1, <1>2, <1>3 DEF StopGoesOn

(* The requests' variables, apart from the others.                         *)
TypeReqs ==
  /\ pc \in [Reqs -> {"none", "parse", "insert", "doc", "open", "func", "stream", "unlist",
                      "free", "done", "dropped"}]
  /\ type \in [Reqs -> Types]
  /\ ses \in [Reqs -> {"none", "live", "freed"}]
  /\ doc \in [Reqs -> {"unset", "set", "freed"}]
  /\ actv \subseteq Reqs

LEMMA TypeRequest == ASSUME TypeOK, NEW r \in Reqs, Callback(r) \/ Daemon(r) PROVE TypeOK'
<1> USE DEF TypeReqs, Goto, apiVars, reqVars, MemErr
<1>0. /\ UNCHANGED <<apiVars, daemon>> /\ memErr' \in BOOLEAN
      /\ TypeReqs /\ rules \subseteq Types
  BY DEF TypeOK, Callback, Daemon, Parse, NotFound, Insert, SetDoc, Answer, BeginStream, SesDstry,
         SesFree, Arrive, LastCall, StrmCallback, StrmEnd, Drop
<1> SUFFICES TypeReqs'
  BY <1>0 DEF TypeOK
<1> USE <1>0
<1>1. CASE Parse(r)        BY <1>1 DEF Parse
<1>2. CASE NotFound(r)     BY <1>2 DEF NotFound
<1>3. CASE Insert(r)       BY <1>3 DEF Insert
<1>4. CASE SetDoc(r)       BY <1>4 DEF SetDoc
<1>5. CASE Answer(r)       BY <1>5 DEF Answer
<1>6. CASE BeginStream(r)  BY <1>6 DEF BeginStream
<1>7. CASE SesDstry(r)     BY <1>7 DEF SesDstry
<1>8. CASE SesFree(r)      BY <1>8 DEF SesFree
<1>9. CASE Arrive(r)       BY <1>9 DEF Arrive
<1>10. CASE LastCall(r)    BY <1>10 DEF LastCall
<1>11. CASE StrmCallback(r) BY <1>11 DEF StrmCallback
<1>12. CASE StrmEnd(r)     BY <1>12 DEF StrmEnd
<1>13. CASE Drop(r)        BY <1>13 DEF Drop
<1>14. QED BY <1>1, <1>2, <1>3, <1>4, <1>5, <1>6, <1>7, <1>8, <1>9, <1>10, <1>11, <1>12, <1>13
           DEF Callback, Daemon

-----------------------------------------------------------------------------
(* The server *)

LEMMA AgreesProgram ==
  ASSUME TypeOK, ServerAgrees, RequestsHave, NEW c \in Callers, Program(c), ~rerun'
  PROVE  ServerAgrees' /\ RequestsHave' /\ (memErr' => memErr \/ badStart)
<1>0. call[c] = "idle" /\ runMutx = NULL /\ UNCHANGED reqVars
      /\ \A d \in Callers : call[d] = "idle"
  BY RsvAssumption
     DEF Program, SetRule, SetRuleStrm, RunBadKeys, Run, StopIdle, StopDaemon, StopStale, Enter,
         MemErr, TypeOK, RsvAssumption, reqVars
<1>a. RequestsHave' /\ \A r \in Reqs : Active(r)' = Active(r)
  BY <1>0 DEF RequestsHave, RequestHas, reqVars, Active, InCallback, Between
<1>1. CASE SetRule(c) \/ SetRuleStrm(c) \/ StopIdle(c)
  BY <1>0, <1>1, <1>a DEF SetRule, SetRuleStrm, StopIdle, ServerAgrees, reqVars
<1>2. CASE RunBadKeys(c)
  BY <1>0, <1>2, <1>a DEF RunBadKeys, ServerAgrees, reqVars
<1>3. CASE Run(c)
  <2>1. ~runFlg
    BY <1>3 DEF Run, TypeOK
  <2>2. QED BY <2>1, <1>0, <1>3, <1>a DEF Run, ServerAgrees, reqVars
<1>4. CASE StopDaemon(c)
  BY <1>0, <1>4, <1>a DEF StopDaemon, ServerAgrees, reqVars, TypeOK, Enter
<1>5. CASE StopStale(c)
  BY <1>0, <1>5, <1>a DEF StopStale, ServerAgrees, reqVars, MemErr, apiVars
<1>6. QED BY <1>1, <1>2, <1>3, <1>4, <1>5 DEF Program

LEMMA AgreesStop ==
  ASSUME TypeOK, ServerAgrees, RequestsHave, NEW c \in Callers, StopGoesOn(c)
  PROVE  ServerAgrees' /\ RequestsHave' /\ (memErr' => memErr)
<1>0. /\ call[c] # "idle" /\ runMutx = c /\ runFlg
      /\ \A d \in Callers : d # c => call[d] = "idle"
  BY DEF StopGoesOn, Stopped, Clear, StopEnd, TypeOK, ServerAgrees
<1>1. CASE Stopped(c)
  <2>1. UNCHANGED reqVars /\ \A r \in Reqs : Active(r)' = Active(r)
    BY <1>1 DEF Stopped, reqVars, Active, InCallback, Between
  <2>2. RequestsHave'
    BY <2>1 DEF RequestsHave, RequestHas, reqVars
  <2>3. /\ runFlg' = runFlg /\ daemon' = "none" /\ dm' = "stale" /\ memErr' = memErr
        /\ call'[c] = "clear" /\ \A d \in Callers : d # c => call'[d] = "idle"
        /\ \A r \in Reqs : ~Active(r)
    BY <1>0, <1>1 DEF Stopped, TypeOK
  <2>4. QED BY <1>0, <2>1, <2>2, <2>3 DEF ServerAgrees
<1>2. CASE Clear(c)
  <2>1. PICK r \in actv :
          IF ses[r] # "live" \/ doc[r] # "set" THEN MemErr
          ELSE /\ doc' = [doc EXCEPT ![r] = "freed"]
               /\ actv' = actv \ {r}
               /\ UNCHANGED <<apiVars, daemon, pc, type, ses, memErr>>
    BY <1>2 DEF Clear
  <2>2. r \in Reqs /\ pc[r] = "dropped" /\ ses[r] = "live" /\ doc[r] = "set"
    BY <1>2 DEF Clear, TypeOK, ServerAgrees, RequestsHave, RequestHas, Active, InCallback, Between
  <2>3. /\ doc' = [doc EXCEPT ![r] = "freed"] /\ actv' = actv \ {r}
        /\ UNCHANGED <<apiVars, daemon, pc, type, ses, memErr>>
    BY <2>1, <2>2
  <2>4. RequestsHave'
    BY <2>2, <2>3 DEF RequestsHave, RequestHas, TypeOK
  <2>5. ServerAgrees'
    BY <2>3 DEF ServerAgrees, Active, InCallback, Between, apiVars
  <2>6. QED BY <2>3, <2>4, <2>5
<1>3. CASE StopEnd(c)
  <2>1. UNCHANGED reqVars /\ \A r \in Reqs : Active(r)' = Active(r)
    BY <1>3 DEF StopEnd, reqVars, Active, InCallback, Between
  <2>2. RequestsHave'
    BY <2>1 DEF RequestsHave, RequestHas, reqVars
  <2>3. ServerAgrees'
    BY <1>0, <1>3, <2>1 DEF StopEnd, ServerAgrees, TypeOK, reqVars
  <2>4. QED BY <1>3, <2>2, <2>3 DEF StopEnd
<1>4. QED BY <1>1, <1>2, <1>3 DEF StopGoesOn

(* What a callback or a call of the daemon does to the other requests.     *)
OthersKeep(r) ==
  \A d \in Reqs \ {r} : /\ pc'[d] = pc[d] /\ ses'[d] = ses[d] /\ doc'[d] = doc[d]
                        /\ d \in actv' <=> d \in actv

LEMMA AgreesRequest ==
  ASSUME TypeOK, ServerAgrees, RequestsHave, NEW r \in Reqs, Callback(r) \/ Daemon(r)
  PROVE  ServerAgrees' /\ RequestsHave' /\ (memErr' => memErr)
<1>0. RequestHas(r) /\ (Active(r) => daemon # "none") /\ (daemon # "none" => runFlg)
  BY DEF RequestsHave, ServerAgrees
<1>1. UNCHANGED <<apiVars, daemon, memErr>> /\ (Active(r) \/ daemon # "none")
  BY <1>0 DEF Callback, Daemon, Parse, NotFound, Insert, SetDoc, Answer, BeginStream, SesDstry,
         SesFree, Arrive, LastCall, StrmCallback, StrmEnd, Drop, RequestHas,
         Active, InCallback, Between
<1>2. runFlg /\ daemon # "none"
  BY <1>0, <1>1
<1>3. OthersKeep(r) /\ RequestHas(r)'
  <2> USE DEF TypeOK, OthersKeep, RequestHas, Goto
  <2>1. CASE Parse(r)        BY <1>0, <2>1 DEF Parse
  <2>2. CASE NotFound(r)     BY <1>0, <2>2 DEF NotFound
  <2>3. CASE Insert(r)       BY <1>0, <2>3 DEF Insert
  <2>4. CASE SetDoc(r)       BY <1>0, <2>4 DEF SetDoc
  <2>5. CASE Answer(r)       BY <1>0, <2>5 DEF Answer
  <2>6. CASE BeginStream(r)  BY <1>0, <2>6 DEF BeginStream
  <2>7. CASE SesDstry(r)     BY <1>0, <2>7 DEF SesDstry
  <2>8. CASE SesFree(r)      BY <1>0, <2>8 DEF SesFree
  <2>9. CASE Arrive(r)       BY <1>0, <2>9 DEF Arrive
  <2>10. CASE LastCall(r)    BY <1>0, <2>10 DEF LastCall
  <2>11. CASE StrmCallback(r) BY <1>0, <2>11 DEF StrmCallback
  <2>12. CASE StrmEnd(r)     BY <1>0, <2>12 DEF StrmEnd
  <2>13. CASE Drop(r)        BY <1>0, <2>13 DEF Drop
  <2>14. QED BY <2>1, <2>2, <2>3, <2>4, <2>5, <2>6, <2>7, <2>8, <2>9, <2>10, <2>11, <2>12, <2>13
             DEF Callback, Daemon
<1>4. RequestsHave'
  BY <1>3 DEF RequestsHave, RequestHas, OthersKeep
<1>5. ServerAgrees'
  BY <1>1, <1>2 DEF ServerAgrees, apiVars
<1>6. QED BY <1>1, <1>4, <1>5

-----------------------------------------------------------------------------
(* The history variables only rise, and a step that is not a call keeps     *)
(* them.                                                                   *)
LEMMA HistoryStays ==
  ASSUME TypeOK, Next
  PROVE  (rerun => rerun') /\ (badStart => badStart')
<1>1. ASSUME NEW c \in Callers, Program(c) PROVE (rerun => rerun') /\ (badStart => badStart')
  <2>1. CASE RunBadKeys(c)  BY <2>1 DEF RunBadKeys, TypeOK
  <2>2. CASE Run(c)         BY <2>2 DEF Run, TypeOK
  <2>3. CASE SetRule(c) \/ SetRuleStrm(c) \/ StopIdle(c) \/ StopDaemon(c) \/ StopStale(c)
    BY <2>3 DEF SetRule, SetRuleStrm, StopIdle, StopDaemon, StopStale, MemErr, apiVars
  <2>4. QED BY <1>1, <2>1, <2>2, <2>3 DEF Program
<1>2. ASSUME NEW c \in Callers, StopGoesOn(c) PROVE (rerun => rerun') /\ (badStart => badStart')
  BY <1>2 DEF StopGoesOn, Stopped, Clear, StopEnd, MemErr, apiVars
<1>3. ASSUME NEW r \in Reqs, Callback(r) \/ Daemon(r)
      PROVE  (rerun => rerun') /\ (badStart => badStart')
  BY <1>3 DEF Callback, Daemon, Parse, NotFound, Insert, SetDoc, Answer, BeginStream, SesDstry,
         SesFree, Arrive, LastCall, StrmCallback, StrmEnd, Drop, MemErr, apiVars
<1>4. QED BY <1>1, <1>2, <1>3 DEF Next

LEMMA RsvInvNext == RsvInv /\ [Next]_vars => RsvInv'
<1> SUFFICES ASSUME RsvInv, [Next]_vars PROVE RsvInv'
  OBVIOUS
<1>1. CASE Next
  <2>1. TypeOK'
    BY <1>1, TypeProgram, TypeStop, TypeRequest DEF Next, RsvInv
  <2>2. ~memErr /\ (rerun => rerun') /\ (badStart => badStart')
    BY <1>1, HistoryStays DEF RsvInv, Next
  <2>3. CASE rerun'
    BY <2>1, <2>3 DEF RsvInv, MemorySafe
  <2>4. CASE ~rerun'
    <3>1. ServerAgrees /\ RequestsHave /\ TypeOK
      BY <2>2, <2>4 DEF RsvInv
    <3>2. ServerAgrees' /\ RequestsHave' /\ (memErr' => memErr \/ badStart)
      BY <1>1, <2>4, <3>1, AgreesProgram, AgreesStop, AgreesRequest DEF Next
    <3>3. MemorySafe'
      BY <2>2, <3>2 DEF MemorySafe
    <3>4. QED BY <2>1, <3>2, <3>3 DEF RsvInv
  <2>5. QED BY <2>3, <2>4
<1>2. CASE UNCHANGED vars
  BY <1>2 DEF RsvInv, TypeOK, ServerAgrees, RequestsHave, RequestHas, MemorySafe, Active,
         InCallback, Between, vars, apiVars, reqVars
<1>3. QED BY <1>1, <1>2

(* The invariant holds in every reachable state: the values have their     *)
(* types, the flag, the handle, the daemon and the stopping call agree     *)
(* unless rsvlib_apiRun was called on a running server, and memory is used *)
(* rightly unless a start failed.                                          *)
THEOREM RsvInductive == Spec => []RsvInv
<1>1. QED BY RsvInvInit, RsvInvNext, PTL DEF Spec

(* Sessions, documents and the handle of the daemon are there whenever     *)
(* svr_ansCon, the callbacks of a stream and rsvlib_apiStop use them, and   *)
(* a stopped server has neither requests nor listed sessions.              *)
THEOREM SessionsStaySafe == Spec => []SessionsSafe
<1>1. RsvInv => SessionsSafe
  <2> SUFFICES ASSUME RsvInv PROVE SessionsSafe
    OBVIOUS
  <2>1. ActiveListed
    BY DEF RsvInv, ActiveListed, RequestsHave, RequestHas
  <2>2. StoppedIsQuiet
    BY DEF RsvInv, StoppedIsQuiet, ServerAgrees
  <2>3. QED BY <2>1, <2>2 DEF RsvInv, SessionsSafe
<1>2. QED BY <1>1, RsvInductive, PTL

(* The rules stay as they are while a request looks its path up in them:   *)
(* rsvlib_apiSetRule and rsvlib_apiSetRuleStrm refuse while the flag is     *)
(* set, and without it no request is in svr_ansCon.                        *)
THEOREM RulesStayStable == Spec => RulesStable
<1>1. RsvInv /\ [Next]_vars => [rules' # rules => rerun \/ \A r \in Reqs : pc[r] # "parse"]_vars
  <2> SUFFICES ASSUME RsvInv, Next, rules' # rules, ~rerun, NEW r \in Reqs PROVE pc[r] # "parse"
    OBVIOUS
  <2>1. ~runFlg
    <3>1. ASSUME NEW c \in Callers, Program(c) PROVE ~runFlg
      BY <3>1 DEF Program, SetRule, SetRuleStrm, RunBadKeys, Run, StopIdle, StopDaemon, StopStale,
             MemErr, apiVars
    <3>2. ASSUME NEW c \in Callers, StopGoesOn(c) PROVE FALSE
      BY <3>2 DEF StopGoesOn, Stopped, Clear, StopEnd, MemErr, apiVars
    <3>3. ASSUME NEW d \in Reqs, Callback(d) \/ Daemon(d) PROVE FALSE
      BY <3>3 DEF Callback, Daemon, Parse, NotFound, Insert, SetDoc, Answer, BeginStream, SesDstry,
             SesFree, Arrive, LastCall, StrmCallback, StrmEnd, Drop, MemErr, apiVars
    <3>4. QED BY <3>1, <3>2, <3>3 DEF Next
  <2>2. daemon = "none" /\ ~Active(r)
    BY <2>1 DEF RsvInv, ServerAgrees
  <2>3. QED BY <2>2 DEF Active, InCallback
<1>2. QED BY <1>1, RsvInductive, PTL DEF Spec, RulesStable

-----------------------------------------------------------------------------
(***************************************************************************)
(* ThrPool.                                                                *)
(*                                                                         *)
(* Theorems about ThrPool, for any registering threads, any number of      *)
(* streams and any sizes of the pool.                                      *)
(*                                                                         *)
(* The counts of the pool are those of its workers because every step      *)
(* moves one worker, or two when a registration adds a worker and wakes    *)
(* another.  That the pool never falls below wkrMinCnt is not a matter of  *)
(* the test in WkrAgain, which two workers may pass at the same count: the *)
(* workers that thrlib_poolInit made are never timed, and only timed ones  *)
(* end while the pool runs (EndsTimed, FixedStay).                         *)
(***************************************************************************)

WkrPcs == {"none", "start", "top", "scan", "get", "run", "idle", "sleep", "wait", "tmout",
           "woken", "end", "out"}
CntRec == [wkr : Int, busy : Int, nxtStrm : Strms]
WkrRec == [pc : WkrPcs, timed : BOOLEAN, idx : Strms, left : Int, sleepCnt : Nat, job : Nat]
RegRec == [pc : {"idle", "try", "put"}, strm : Strms, job : Nat]

PoolType ==
  /\ cnt \in CntRec
  /\ phase \in {"run", "term", "done"}
  /\ regJob \in [Strms -> Seq(Nat)]
  /\ wkr \in [Wkrs -> WkrRec]
  /\ reg \in [Regs -> RegRec]
  /\ offered \in Nat
  /\ accepted \in [Strms -> Seq(Nat)] /\ started \in [Strms -> Seq(Nat)]

(* Live, the workers counted busy and those that never end, of the workers *)
(* ws.                                                                     *)
LiveOf(ws)  == {w \in Wkrs : ws[w].pc \notin {"none", "out"}}
BusyOf(ws)  == {w \in Wkrs : ws[w].pc \notin {"none", "out", "wait", "tmout", "woken", "start", "end"}}
FixedOf(ws) == {w \in Wkrs : ws[w].pc \notin {"none", "out"} /\ ~ws[w].timed}

Counts ==
  /\ phase # "done" => cnt.wkr = Cardinality(LiveOf(wkr))
  /\ phase = "run" => cnt.busy = Cardinality(BusyOf(wkr)) /\ cnt.wkr <= MaxWkr
  /\ phase = "done" => LiveOf(wkr) = {}

(* While the pool runs only workers that were added later end. *)
EndsTimed == phase = "run" => \A w \in Wkrs : wkr[w].pc = "end" => wkr[w].timed

FixedStay == phase = "run" => Cardinality(FixedOf(wkr)) = MinWkr

PoolInv == PoolType /\ JobsInOrder /\ Counts /\ EndsTimed /\ FixedStay

-----------------------------------------------------------------------------
(* Counting *)

(* A set that changes at one element only. *)
SameBut(w, S, T) == \A x : x # w => (x \in S <=> x \in T)

LEMMA CountOne ==
  ASSUME NEW S, IsFiniteSet(S), NEW T, NEW w, SameBut(w, S, T)
  PROVE  /\ IsFiniteSet(T) /\ Cardinality(S) \in Nat /\ Cardinality(T) \in Nat
         /\ Cardinality(T) = IF w \in T THEN IF w \in S THEN Cardinality(S) ELSE Cardinality(S) + 1
                             ELSE IF w \in S THEN Cardinality(S) - 1 ELSE Cardinality(S)
<1>0. Cardinality(S) \in Nat
  BY FS_CardinalityType
<1>1. CASE w \in T /\ w \notin S
  <2>1. T = S \cup {w}
    BY <1>1 DEF SameBut
  <2>2. QED BY <2>1, <1>0, <1>1, FS_AddElement
<1>2. CASE w \notin T /\ w \in S
  <2>1. T = S \ {w}
    BY <1>2 DEF SameBut
  <2>2. IsFiniteSet(T) /\ Cardinality(T) = Cardinality(S) - 1
    BY <2>1, <1>2, FS_RemoveElement
  <2>3. Cardinality(T) \in Nat
    BY <2>2, FS_CardinalityType
  <2>4. QED BY <2>2, <2>3, <1>0, <1>2
<1>3. CASE w \in T <=> w \in S
  <2>1. T = S
    BY <1>3 DEF SameBut
  <2>2. QED BY <2>1, <1>0, <1>3
<1>4. QED BY <1>1, <1>2, <1>3

LEMMA FiniteSubsets ==
  ASSUME NEW ws
  PROVE  IsFiniteSet(LiveOf(ws)) /\ IsFiniteSet(BusyOf(ws)) /\ IsFiniteSet(FixedOf(ws))
<1>1. LiveOf(ws) \in SUBSET Wkrs /\ BusyOf(ws) \in SUBSET Wkrs /\ FixedOf(ws) \in SUBSET Wkrs
  BY DEF LiveOf, BusyOf, FixedOf
<1>2. QED BY <1>1, FS_Subset, PoolAssumption DEF PoolAssumption

IsLive(v)  == v.pc \notin {"none", "out"}
IsBusy(v)  == v.pc \notin {"none", "out", "wait", "tmout", "woken", "start", "end"}
IsFixed(v) == IsLive(v) /\ ~v.timed

(* The worker w becomes v. *)
Moved(a, b, w, v) == a \in [Wkrs -> WkrRec] /\ v \in WkrRec /\ b = [a EXCEPT ![w] = v]

LEMMA OneMoves ==
  ASSUME NEW w \in Wkrs, NEW v, NEW a, NEW b, Moved(a, b, w, v)
  PROVE  /\ b \in [Wkrs -> WkrRec]
         /\ Cardinality(LiveOf(a)) \in Nat /\ Cardinality(BusyOf(a)) \in Nat
         /\ Cardinality(FixedOf(a)) \in Nat
         /\ Cardinality(LiveOf(b)) = Cardinality(LiveOf(a)) + (IF IsLive(v) THEN 1 ELSE 0)
                                                    - (IF IsLive(a[w]) THEN 1 ELSE 0)
         /\ Cardinality(BusyOf(b)) = Cardinality(BusyOf(a)) + (IF IsBusy(v) THEN 1 ELSE 0)
                                                    - (IF IsBusy(a[w]) THEN 1 ELSE 0)
         /\ Cardinality(FixedOf(b)) = Cardinality(FixedOf(a)) + (IF IsFixed(v) THEN 1 ELSE 0)
                                                              - (IF IsFixed(a[w]) THEN 1 ELSE 0)
<1>1. b \in [Wkrs -> WkrRec] /\ b[w] = v /\ \A x \in Wkrs : x # w => b[x] = a[x]
  BY DEF Moved
<1>2. /\ SameBut(w, LiveOf(a), LiveOf(b))
      /\ w \in LiveOf(a) <=> IsLive(a[w])
      /\ w \in LiveOf(b) <=> IsLive(v)
  BY <1>1 DEF SameBut, LiveOf, IsLive
<1>3. /\ SameBut(w, BusyOf(a), BusyOf(b))
      /\ w \in BusyOf(a) <=> IsBusy(a[w])
      /\ w \in BusyOf(b) <=> IsBusy(v)
  BY <1>1 DEF SameBut, BusyOf, IsBusy
<1>4. /\ SameBut(w, FixedOf(a), FixedOf(b))
      /\ w \in FixedOf(a) <=> IsFixed(a[w])
      /\ w \in FixedOf(b) <=> IsFixed(v)
  BY <1>1 DEF SameBut, FixedOf, IsFixed, IsLive
<1>5. /\ Cardinality(LiveOf(a)) \in Nat
      /\ Cardinality(LiveOf(b)) = Cardinality(LiveOf(a)) + (IF IsLive(v) THEN 1 ELSE 0)
                                                    - (IF IsLive(a[w]) THEN 1 ELSE 0)
  BY <1>2, CountOne, FiniteSubsets
<1>6. /\ Cardinality(BusyOf(a)) \in Nat
      /\ Cardinality(BusyOf(b)) = Cardinality(BusyOf(a)) + (IF IsBusy(v) THEN 1 ELSE 0)
                                                    - (IF IsBusy(a[w]) THEN 1 ELSE 0)
  BY <1>3, CountOne, FiniteSubsets
<1>7. /\ Cardinality(FixedOf(a)) \in Nat
      /\ Cardinality(FixedOf(b)) = Cardinality(FixedOf(a)) + (IF IsFixed(v) THEN 1 ELSE 0)
                                                           - (IF IsFixed(a[w]) THEN 1 ELSE 0)
  BY <1>4, CountOne, FiniteSubsets
<1>8. QED BY <1>1, <1>5, <1>6, <1>7

LEMMA NextIsStrm == ASSUME NEW s \in Strms PROVE NextStrm(s) \in Strms /\ 0 \in Strms
BY PoolAssumption DEF PoolAssumption, Strms, NextStrm

-----------------------------------------------------------------------------
(* Type correctness *)

LEMMA NewIsWkr == noWkr \in WkrRec /\ \A timed \in BOOLEAN : NewWkr(timed) \in WkrRec
<1>1. 0 \in Strms
  BY PoolAssumption DEF PoolAssumption, Strms
<1>2. noWkr \in WkrRec
  BY <1>1 DEF noWkr, WkrRec, WkrPcs
<1>3. ASSUME NEW timed \in BOOLEAN PROVE NewWkr(timed) \in WkrRec
  <2> HIDE DEF noWkr
  <2>1. "start" \in WkrPcs
    BY DEF WkrPcs
  <2>2. [noWkr EXCEPT !.pc = "start", !.timed = timed] \in WkrRec
    BY <1>2, <2>1 DEF WkrRec
  <2>3. QED BY <2>2 DEF NewWkr
<1>4. QED BY <1>2, <1>3

LEMMA TypeInit == PoolInit => PoolType
<1> SUFFICES ASSUME PoolInit PROVE PoolType
  OBVIOUS
<1>1. PICK first \in SUBSET Wkrs :
        wkr = [w \in Wkrs |-> IF w \in first THEN NewWkr(FALSE) ELSE noWkr]
  BY DEF PoolInit
<1>2. 0 \in Strms
  BY PoolAssumption DEF PoolAssumption, Strms
<1>3. noWkr \in WkrRec /\ NewWkr(FALSE) \in WkrRec
  BY NewIsWkr
<1>4. noReg \in RegRec
  BY <1>2 DEF noReg, RegRec
<1>5. cnt \in CntRec
  BY <1>2, PoolAssumption DEF PoolInit, PoolAssumption, CntRec
<1>6. wkr \in [Wkrs -> WkrRec]
  BY <1>1, <1>3
<1>7. /\ regJob \in [Strms -> Seq(Nat)]
      /\ accepted \in [Strms -> Seq(Nat)] /\ started \in [Strms -> Seq(Nat)]
  BY DEF PoolInit
<1>8. QED BY <1>4, <1>5, <1>6, <1>7 DEF PoolInit, PoolType

(* What a step may write. *)
LEMMA WkrFields ==
  ASSUME NEW w \in Wkrs, PoolType
  PROVE  wkr[w] \in WkrRec
BY DEF PoolType

LEMMA WkrChanged ==
  ASSUME NEW u \in WkrRec, NEW p \in WkrPcs
  PROVE  /\ [u EXCEPT !.pc = p] \in WkrRec
         /\ [u EXCEPT !.pc = p, !.sleepCnt = 0] \in WkrRec
         /\ [u EXCEPT !.pc = p, !.job = 0] \in WkrRec
         /\ \A n \in Nat : [u EXCEPT !.pc = p, !.sleepCnt = n] \in WkrRec
         /\ \A n \in Int : [u EXCEPT !.pc = p, !.left = n] \in WkrRec
         /\ \A i \in Strms, n \in Int : [u EXCEPT !.pc = p, !.idx = i, !.left = n] \in WkrRec
         /\ \A i \in Strms, n \in Int : [u EXCEPT !.idx = i, !.left = n] \in WkrRec
         /\ \A j \in Nat : [u EXCEPT !.pc = p, !.job = j, !.sleepCnt = 0] \in WkrRec
<1>1. /\ [u EXCEPT !.pc = p] \in WkrRec
      /\ [u EXCEPT !.pc = p, !.sleepCnt = 0] \in WkrRec
      /\ [u EXCEPT !.pc = p, !.job = 0] \in WkrRec
  BY Zenon DEF WkrRec
<1>2. \A n \in Nat : [u EXCEPT !.pc = p, !.sleepCnt = n] \in WkrRec
  BY Zenon DEF WkrRec
<1>3. \A n \in Int : [u EXCEPT !.pc = p, !.left = n] \in WkrRec
  BY Zenon DEF WkrRec
<1>4. \A i \in Strms, n \in Int : [u EXCEPT !.pc = p, !.idx = i, !.left = n] \in WkrRec
  BY Zenon DEF WkrRec
<1>5. \A i \in Strms, n \in Int : [u EXCEPT !.idx = i, !.left = n] \in WkrRec
  BY Zenon DEF WkrRec
<1>6. \A j \in Nat : [u EXCEPT !.pc = p, !.job = j, !.sleepCnt = 0] \in WkrRec
  BY Zenon DEF WkrRec
<1>7. QED BY <1>1, <1>2, <1>3, <1>4, <1>5, <1>6

LEMMA CntFields ==
  ASSUME PoolType
  PROVE  /\ cnt \in CntRec /\ cnt.wkr \in Int /\ cnt.busy \in Int
         /\ \A n \in Int : LET c == [cnt EXCEPT !.busy = n]
                          IN c \in CntRec /\ c.wkr = cnt.wkr /\ c.busy = n
         /\ \A n \in Int : LET c == [cnt EXCEPT !.wkr = n]
                          IN c \in CntRec /\ c.wkr = n /\ c.busy = cnt.busy
BY DEF PoolType, CntRec

LEMMA TypeRegLock ==
  ASSUME PoolType, NEW r \in Regs, NEW ask \in Strms, RegLock(r, ask)
  PROVE  PoolType'
<1>1. cnt' \in CntRec
  BY NextIsStrm DEF RegLock, PoolType, CntRec
<1>2. offered' \in Nat
  BY DEF RegLock, PoolType
<1>3. reg' \in [Regs -> RegRec]
  <2>1. cnt.nxtStrm \in Strms /\ offered + 1 \in Nat
    BY DEF PoolType, CntRec
  <2>2. [pc |-> "try", job |-> offered + 1, strm |-> IF ask = 0 THEN cnt.nxtStrm ELSE ask] \in RegRec
    BY <2>1 DEF RegRec
  <2>3. QED BY <2>2 DEF RegLock, PoolType
<1>4. QED BY <1>1, <1>2, <1>3 DEF RegLock, PoolType

LEMMA TypeRegTry == ASSUME PoolType, NEW r \in Regs, RegTry(r) PROVE PoolType'
<1>1. cnt' \in CntRec
  BY NextIsStrm DEF RegTry, PoolType, CntRec
<1>2. reg' \in [Regs -> RegRec]
  <2>1. cnt.nxtStrm \in Strms /\ NextStrm(cnt.nxtStrm) \in Strms /\ reg[r] \in RegRec
    BY NextIsStrm DEF PoolType, CntRec
  <2>2. /\ [reg[r] EXCEPT !.pc = "put"] \in RegRec
        /\ [reg[r] EXCEPT !.strm = NextStrm(cnt.nxtStrm)] \in RegRec
    BY <2>1 DEF RegRec
  <2>3. QED BY <2>2 DEF RegTry, PoolType
<1>3. QED BY <1>1, <1>2 DEF RegTry, PoolType

-----------------------------------------------------------------------------
(* The jobs of a stream *)

(* A job that is put at the end of the queue, and one that is taken from   *)
(* its head, keep the order.                                               *)
LEMMA PutInOrder ==
  ASSUME NEW a \in Seq(Nat), NEW q \in Seq(Nat), NEW j \in Nat
  PROVE  Append(a \o q, j) = a \o Append(q, j)
<1>1. /\ a \o q \in Seq(Nat) /\ Len(a \o q) = Len(a) + Len(q)
      /\ Append(q, j) \in Seq(Nat) /\ Len(Append(q, j)) = Len(q) + 1
  BY AppendProperties, ConcatProperties
<1>2. Append(a \o q, j) \in Seq(Nat) /\ a \o Append(q, j) \in Seq(Nat)
  BY <1>1, AppendProperties, ConcatProperties
<1>3. Len(Append(a \o q, j)) = Len(a \o Append(q, j))
  BY <1>1, AppendProperties, ConcatProperties
<1>4. \A i \in 1 .. Len(Append(a \o q, j)) : Append(a \o q, j)[i] = (a \o Append(q, j))[i]
  BY <1>1, <1>2, <1>3
<1>5. QED BY <1>2, <1>3, <1>4, SeqEqual

LEMMA TakeInOrder ==
  ASSUME NEW T, NEW a \in Seq(T), NEW q \in Seq(T), q # << >>
  PROVE  Append(a, Head(q)) \o Tail(q) = a \o q
<1>1. /\ Head(q) \in T /\ Tail(q) \in Seq(T) /\ Len(Tail(q)) = Len(q) - 1
      /\ Len(q) \in Nat /\ Len(q) > 0
      /\ \A i \in 1 .. Len(q) - 1 : Tail(q)[i] = q[i + 1]
      /\ Head(q) = q[1]
  BY HeadTailProperties, EmptySeq
<1>2. Append(a, Head(q)) \in Seq(T) /\ Len(Append(a, Head(q))) = Len(a) + 1
  BY <1>1, AppendProperties
<1>3. Append(a, Head(q)) \o Tail(q) \in Seq(T) /\ a \o q \in Seq(T)
  BY <1>1, <1>2, ConcatProperties
<1>4. Len(Append(a, Head(q)) \o Tail(q)) = Len(a \o q)
  BY <1>1, <1>2, ConcatProperties
<1>5. \A i \in 1 .. Len(a \o q) : (Append(a, Head(q)) \o Tail(q))[i] = (a \o q)[i]
  BY <1>1, <1>2, <1>3, <1>4
<1>6. QED BY <1>3, <1>4, <1>5, SeqEqual

LEMMA OrderKept ==
  ASSUME JobsInOrder, UNCHANGED <<accepted, started, regJob>>
  PROVE  JobsInOrder'
BY DEF JobsInOrder

-----------------------------------------------------------------------------
(* The counts of the workers *)

(* The pool is not destroyed, and counts what it should when the worker w  *)
(* has become v.                                                           *)
CountedMove(w, v, c) ==
  /\ phase # "done"
  /\ c.wkr = cnt.wkr + (IF IsLive(v) THEN 1 ELSE 0) - (IF IsLive(wkr[w]) THEN 1 ELSE 0)
  /\ phase = "run" =>
       /\ c.busy = cnt.busy + (IF IsBusy(v) THEN 1 ELSE 0) - (IF IsBusy(wkr[w]) THEN 1 ELSE 0)
       /\ c.wkr <= MaxWkr
       /\ v.pc = "end" => v.timed
       /\ IsFixed(v) <=> IsFixed(wkr[w])

CountsOf(ws, c) ==
  /\ ws \in [Wkrs -> WkrRec]
  /\ c.wkr = Cardinality(LiveOf(ws))
  /\ phase = "run" =>
       /\ c.busy = Cardinality(BusyOf(ws)) /\ c.wkr <= MaxWkr
       /\ \A w \in Wkrs : ws[w].pc = "end" => ws[w].timed
       /\ Cardinality(FixedOf(ws)) = MinWkr

LEMMA MoveCounted ==
  ASSUME PoolInv, NEW w \in Wkrs, NEW v \in WkrRec, NEW c, CountedMove(w, v, c)
  PROVE  CountsOf([wkr EXCEPT ![w] = v], c)
<1> DEFINE b == [wkr EXCEPT ![w] = v]
<1>1. /\ b \in [Wkrs -> WkrRec]
      /\ Cardinality(LiveOf(wkr)) \in Nat /\ Cardinality(BusyOf(wkr)) \in Nat
      /\ Cardinality(FixedOf(wkr)) \in Nat
      /\ Cardinality(LiveOf(b)) = Cardinality(LiveOf(wkr)) + (IF IsLive(v) THEN 1 ELSE 0)
                                                           - (IF IsLive(wkr[w]) THEN 1 ELSE 0)
      /\ Cardinality(BusyOf(b)) = Cardinality(BusyOf(wkr)) + (IF IsBusy(v) THEN 1 ELSE 0)
                                                           - (IF IsBusy(wkr[w]) THEN 1 ELSE 0)
      /\ Cardinality(FixedOf(b)) = Cardinality(FixedOf(wkr)) + (IF IsFixed(v) THEN 1 ELSE 0)
                                                             - (IF IsFixed(wkr[w]) THEN 1 ELSE 0)
  <2>1. wkr \in [Wkrs -> WkrRec]
    BY DEF PoolInv, PoolType
  <2> HIDE DEF b
  <2>2. Moved(wkr, b, w, v)
    BY <2>1 DEF b, Moved
  <2>3. QED BY <2>2, OneMoves
<1>2. \A x \in Wkrs : b[x] = IF x = w THEN v ELSE wkr[x]
  BY DEF PoolInv, PoolType
<1>3. c.wkr = Cardinality(LiveOf(b))
  BY <1>1 DEF PoolInv, Counts, CountedMove
<1>4. ASSUME phase = "run"
      PROVE  /\ c.busy = Cardinality(BusyOf(b)) /\ c.wkr <= MaxWkr
             /\ \A x \in Wkrs : b[x].pc = "end" => b[x].timed
             /\ Cardinality(FixedOf(b)) = MinWkr
  <2>1. c.busy = Cardinality(BusyOf(b)) /\ c.wkr <= MaxWkr
    BY <1>1, <1>4 DEF PoolInv, Counts, CountedMove
  <2>2. \A x \in Wkrs : b[x].pc = "end" => b[x].timed
    BY <1>2, <1>4 DEF PoolInv, EndsTimed, CountedMove
  <2>3. Cardinality(FixedOf(b)) = MinWkr
    BY <1>1, <1>4 DEF PoolInv, FixedStay, CountedMove
  <2>4. QED BY <2>1, <2>2, <2>3
<1>5. QED BY <1>1, <1>3, <1>4 DEF CountsOf

LEMMA CountsKept ==
  ASSUME CountsOf(wkr', cnt'), phase' = phase, phase # "done"
  PROVE  Counts' /\ EndsTimed' /\ FixedStay'
BY DEF CountsOf, Counts, EndsTimed, FixedStay

(* A step of a worker keeps the counts. *)
LEMMA WkrCounted ==
  ASSUME PoolInv, NEW w \in Wkrs, NEW v \in WkrRec, wkr' = [wkr EXCEPT ![w] = v],
         CountedMove(w, v, cnt'), phase' = phase
  PROVE  wkr' \in [Wkrs -> WkrRec] /\ Counts' /\ EndsTimed' /\ FixedStay'
<1>1. CountsOf(wkr', cnt')
  BY MoveCounted
<1>2. QED BY <1>1, CountsKept DEF CountsOf, CountedMove

(* A step that leaves the workers and their counts alone. *)
LEMMA CountsAlone ==
  ASSUME PoolInv, wkr' = wkr, phase' = phase, cnt'.wkr = cnt.wkr, cnt'.busy = cnt.busy
  PROVE  Counts' /\ EndsTimed' /\ FixedStay'
BY DEF PoolInv, Counts, EndsTimed, FixedStay

-----------------------------------------------------------------------------
(* The steps of a worker *)

(* What the lemmas above need of a step of the worker w. *)
WkrStep(w, v) ==
  /\ v \in WkrRec
  /\ wkr' = [wkr EXCEPT ![w] = v]
  /\ phase' = phase
  /\ CountedMove(w, v, cnt')
  /\ cnt' \in CntRec
  /\ UNCHANGED <<reg, offered, accepted>>

LEMMA WkrKeeps ==
  ASSUME PoolInv, NEW w \in Wkrs, NEW v, WkrStep(w, v), UNCHANGED <<regJob, started>>
  PROVE  PoolInv'
<1>1. wkr' \in [Wkrs -> WkrRec] /\ Counts' /\ EndsTimed' /\ FixedStay'
  BY WkrCounted DEF WkrStep
<1>2. PoolType'
  BY <1>1 DEF PoolInv, PoolType, WkrStep
<1>3. JobsInOrder'
  BY OrderKept DEF PoolInv, WkrStep
<1>4. QED BY <1>1, <1>2, <1>3 DEF PoolInv

LEMMA InvWkrStart ==
  ASSUME PoolInv, NEW w \in Wkrs, phase # "done", WkrStart(w)
  PROVE  PoolInv'
<1> DEFINE v == [wkr[w] EXCEPT !.pc = "top"]
<1>1. wkr[w] \in WkrRec
  BY WkrFields DEF PoolInv
<1>2. v \in WkrRec /\ wkr[w].pc = "start" /\ v.pc = "top" /\ (v.timed <=> wkr[w].timed)
  <2>0. "top" \in WkrPcs
    BY DEF WkrPcs
  <2>1. v \in WkrRec
    BY <1>1, <2>0, WkrChanged, Zenon
  <2>2. wkr[w].pc = "start" /\ v.pc = "top"
    BY <1>1 DEF WkrStart, WkrRec
  <2>3. v.timed <=> wkr[w].timed
    BY <1>1 DEF WkrRec
  <2>4. QED BY <2>1, <2>2, <2>3
<1>3. wkr' = [wkr EXCEPT ![w] = v] /\ UNCHANGED <<phase, regJob, reg, offered, accepted, started>>
  BY DEF WkrStart
<1>4. cnt' \in CntRec /\ cnt'.wkr = cnt.wkr /\ cnt'.busy = cnt.busy + 1
  BY CntFields DEF WkrStart, PoolInv
<1> HIDE DEF v
<1>5. IsLive(v) /\ IsLive(wkr[w]) /\ IsBusy(v) /\ ~IsBusy(wkr[w])
      /\ (IsFixed(v) <=> IsFixed(wkr[w]))
  BY <1>1, <1>2 DEF IsLive, IsBusy, IsFixed
<1>6. CountedMove(w, v, cnt')
  BY <1>2, <1>4, <1>5, CntFields DEF CountedMove, PoolInv, Counts
<1>7. QED BY <1>2, <1>3, <1>4, <1>6, WkrKeeps, Zenon DEF WkrStep

LEMMA InvWkrRan ==
  ASSUME PoolInv, NEW w \in Wkrs, phase # "done", WkrRan(w)
  PROVE  PoolInv'
<1> DEFINE v == [wkr[w] EXCEPT !.pc = "idle", !.job = 0]
<1>1. wkr[w] \in WkrRec
  BY WkrFields DEF PoolInv
<1>2. v \in WkrRec /\ wkr[w].pc = "run" /\ v.pc = "idle" /\ (v.timed <=> wkr[w].timed)
  <2>0. "idle" \in WkrPcs
    BY DEF WkrPcs
  <2>1. v \in WkrRec
    BY <1>1, <2>0, WkrChanged, Zenon
  <2>2. wkr[w].pc = "run" /\ v.pc = "idle"
    BY <1>1 DEF WkrRan, WkrRec
  <2>3. v.timed <=> wkr[w].timed
    BY <1>1 DEF WkrRec
  <2>4. QED BY <2>1, <2>2, <2>3
<1>3. wkr' = [wkr EXCEPT ![w] = v] /\ UNCHANGED <<phase, regJob, reg, offered, accepted, started>>
  BY DEF WkrRan
<1>4. cnt' \in CntRec /\ cnt'.wkr = cnt.wkr /\ cnt'.busy = cnt.busy
  BY CntFields DEF WkrRan, PoolInv
<1> HIDE DEF v
<1>5. IsLive(v) /\ IsLive(wkr[w]) /\ IsBusy(v) /\ IsBusy(wkr[w])
      /\ (IsFixed(v) <=> IsFixed(wkr[w]))
  BY <1>1, <1>2 DEF IsLive, IsBusy, IsFixed
<1>6. CountedMove(w, v, cnt')
  BY <1>2, <1>4, <1>5, CntFields DEF CountedMove, PoolInv, Counts
<1>7. QED BY <1>2, <1>3, <1>4, <1>6, WkrKeeps, Zenon DEF WkrStep

LEMMA InvWkrIdle ==
  ASSUME PoolInv, NEW w \in Wkrs, phase # "done", WkrIdle(w)
  PROVE  PoolInv'
<1> DEFINE v == [wkr[w] EXCEPT !.pc = "top"]
<1>1. wkr[w] \in WkrRec
  BY WkrFields DEF PoolInv
<1>2. v \in WkrRec /\ wkr[w].pc = "idle" /\ v.pc = "top" /\ (v.timed <=> wkr[w].timed)
  <2>0. "top" \in WkrPcs
    BY DEF WkrPcs
  <2>1. v \in WkrRec
    BY <1>1, <2>0, WkrChanged, Zenon
  <2>2. wkr[w].pc = "idle" /\ v.pc = "top"
    BY <1>1 DEF WkrIdle, WkrRec
  <2>3. v.timed <=> wkr[w].timed
    BY <1>1 DEF WkrRec
  <2>4. QED BY <2>1, <2>2, <2>3
<1>3. wkr' = [wkr EXCEPT ![w] = v] /\ UNCHANGED <<phase, regJob, reg, offered, accepted, started>>
  BY DEF WkrIdle
<1>4. cnt' \in CntRec /\ cnt'.wkr = cnt.wkr /\ cnt'.busy = cnt.busy
  BY CntFields DEF WkrIdle, PoolInv
<1> HIDE DEF v
<1>5. IsLive(v) /\ IsLive(wkr[w]) /\ IsBusy(v) /\ IsBusy(wkr[w])
      /\ (IsFixed(v) <=> IsFixed(wkr[w]))
  BY <1>1, <1>2 DEF IsLive, IsBusy, IsFixed
<1>6. CountedMove(w, v, cnt')
  BY <1>2, <1>4, <1>5, CntFields DEF CountedMove, PoolInv, Counts
<1>7. QED BY <1>2, <1>3, <1>4, <1>6, WkrKeeps, Zenon DEF WkrStep

LEMMA InvWkrSleep ==
  ASSUME PoolInv, NEW w \in Wkrs, phase # "done", WkrSleep(w)
  PROVE  PoolInv'
<1> DEFINE v == [wkr[w] EXCEPT !.pc = "wait"]
<1>1. wkr[w] \in WkrRec
  BY WkrFields DEF PoolInv
<1>2. v \in WkrRec /\ wkr[w].pc = "sleep" /\ v.pc = "wait" /\ (v.timed <=> wkr[w].timed)
  <2>0. "wait" \in WkrPcs
    BY DEF WkrPcs
  <2>1. v \in WkrRec
    BY <1>1, <2>0, WkrChanged, Zenon
  <2>2. wkr[w].pc = "sleep" /\ v.pc = "wait"
    BY <1>1 DEF WkrSleep, WkrRec
  <2>3. v.timed <=> wkr[w].timed
    BY <1>1 DEF WkrRec
  <2>4. QED BY <2>1, <2>2, <2>3
<1>3. wkr' = [wkr EXCEPT ![w] = v] /\ UNCHANGED <<phase, regJob, reg, offered, accepted, started>>
  BY DEF WkrSleep
<1>4. cnt' \in CntRec /\ cnt'.wkr = cnt.wkr /\ cnt'.busy = cnt.busy - 1
  BY CntFields DEF WkrSleep, PoolInv
<1> HIDE DEF v
<1>5. IsLive(v) /\ IsLive(wkr[w]) /\ ~IsBusy(v) /\ IsBusy(wkr[w])
      /\ (IsFixed(v) <=> IsFixed(wkr[w]))
  BY <1>1, <1>2 DEF IsLive, IsBusy, IsFixed
<1>6. CountedMove(w, v, cnt')
  BY <1>2, <1>4, <1>5, CntFields DEF CountedMove, PoolInv, Counts
<1>7. QED BY <1>2, <1>3, <1>4, <1>6, WkrKeeps, Zenon DEF WkrStep

LEMMA InvWkrTmOut ==
  ASSUME PoolInv, NEW w \in Wkrs, phase # "done", WkrTmOut(w)
  PROVE  PoolInv'
<1> DEFINE v == [wkr[w] EXCEPT !.pc = "tmout"]
<1>1. wkr[w] \in WkrRec
  BY WkrFields DEF PoolInv
<1>2. v \in WkrRec /\ wkr[w].pc = "wait" /\ v.pc = "tmout" /\ (v.timed <=> wkr[w].timed)
  <2>0. "tmout" \in WkrPcs
    BY DEF WkrPcs
  <2>1. v \in WkrRec
    BY <1>1, <2>0, WkrChanged, Zenon
  <2>2. wkr[w].pc = "wait" /\ v.pc = "tmout"
    BY <1>1 DEF WkrTmOut, WkrRec
  <2>3. v.timed <=> wkr[w].timed
    BY <1>1 DEF WkrRec
  <2>4. QED BY <2>1, <2>2, <2>3
<1>3. wkr' = [wkr EXCEPT ![w] = v] /\ UNCHANGED <<phase, regJob, reg, offered, accepted, started>>
  BY DEF WkrTmOut
<1>4. cnt' \in CntRec /\ cnt'.wkr = cnt.wkr /\ cnt'.busy = cnt.busy
  BY CntFields DEF WkrTmOut, PoolInv
<1> HIDE DEF v
<1>5. IsLive(v) /\ IsLive(wkr[w]) /\ ~IsBusy(v) /\ ~IsBusy(wkr[w])
      /\ (IsFixed(v) <=> IsFixed(wkr[w]))
  BY <1>1, <1>2 DEF IsLive, IsBusy, IsFixed
<1>6. CountedMove(w, v, cnt')
  BY <1>2, <1>4, <1>5, CntFields DEF CountedMove, PoolInv, Counts
<1>7. QED BY <1>2, <1>3, <1>4, <1>6, WkrKeeps, Zenon DEF WkrStep

LEMMA InvWkrWoken ==
  ASSUME PoolInv, NEW w \in Wkrs, phase # "done", WkrWoken(w)
  PROVE  PoolInv'
<1> DEFINE v == [wkr[w] EXCEPT !.pc = "top", !.sleepCnt = 0]
<1>1. wkr[w] \in WkrRec
  BY WkrFields DEF PoolInv
<1>2. v \in WkrRec /\ wkr[w].pc = "woken" /\ v.pc = "top" /\ (v.timed <=> wkr[w].timed)
  <2>0. "top" \in WkrPcs
    BY DEF WkrPcs
  <2>1. v \in WkrRec
    BY <1>1, <2>0, WkrChanged, Zenon
  <2>2. wkr[w].pc = "woken" /\ v.pc = "top"
    BY <1>1 DEF WkrWoken, WkrRec
  <2>3. v.timed <=> wkr[w].timed
    BY <1>1 DEF WkrRec
  <2>4. QED BY <2>1, <2>2, <2>3
<1>3. wkr' = [wkr EXCEPT ![w] = v] /\ UNCHANGED <<phase, regJob, reg, offered, accepted, started>>
  BY DEF WkrWoken
<1>4. cnt' \in CntRec /\ cnt'.wkr = cnt.wkr /\ cnt'.busy = cnt.busy + 1
  BY CntFields DEF WkrWoken, PoolInv, Woken
<1> HIDE DEF v
<1>5. IsLive(v) /\ IsLive(wkr[w]) /\ IsBusy(v) /\ ~IsBusy(wkr[w])
      /\ (IsFixed(v) <=> IsFixed(wkr[w]))
  BY <1>1, <1>2 DEF IsLive, IsBusy, IsFixed
<1>6. CountedMove(w, v, cnt')
  BY <1>2, <1>4, <1>5, CntFields DEF CountedMove, PoolInv, Counts
<1>7. QED BY <1>2, <1>3, <1>4, <1>6, WkrKeeps, Zenon DEF WkrStep

LEMMA InvWkrTop ==
  ASSUME PoolInv, NEW w \in Wkrs, phase # "done", WkrTop(w)
  PROVE  PoolInv'
<1> DEFINE p == IF phase = "term" THEN "end" ELSE "scan"
           v == [wkr[w] EXCEPT !.pc = p, !.left = StrmCnt]
<1>1. wkr[w] \in WkrRec /\ wkr[w].pc = "top"
  BY WkrFields DEF PoolInv, WkrTop
<1>2. p \in WkrPcs /\ (phase = "run" => p = "scan") /\ p \in {"end", "scan"}
  BY DEF WkrPcs
<1>3. wkr' = [wkr EXCEPT ![w] = v] /\ UNCHANGED <<cnt, phase, regJob, reg, offered, accepted, started>>
  BY DEF WkrTop
<1>4. cnt' \in CntRec /\ cnt.wkr \in Int /\ cnt.busy \in Int
  BY <1>3, CntFields DEF PoolInv
<1> HIDE DEF p
<1>5. v \in WkrRec /\ v.pc = p /\ (v.timed <=> wkr[w].timed)
  <2>1. StrmCnt \in Int
    BY PoolAssumption DEF PoolAssumption
  <2>2. v \in WkrRec
    BY <1>1, <1>2, <2>1, WkrChanged, Zenon
  <2>3. v.pc = p /\ (v.timed <=> wkr[w].timed)
    BY <1>1 DEF WkrRec
  <2>4. QED BY <2>2, <2>3
<1> HIDE DEF v
<1>6. /\ IsLive(v) /\ IsLive(wkr[w]) /\ (IsFixed(v) <=> IsFixed(wkr[w]))
      /\ phase = "run" => v.pc # "end" /\ IsBusy(v) /\ IsBusy(wkr[w])
  BY <1>1, <1>2, <1>5 DEF IsLive, IsBusy, IsFixed
<1>7. CountedMove(w, v, cnt')
  BY <1>3, <1>4, <1>6 DEF CountedMove, PoolInv, Counts
<1>8. QED BY <1>3, <1>4, <1>5, <1>7, WkrKeeps, Zenon DEF WkrStep

LEMMA InvWkrNone ==
  ASSUME PoolInv, NEW w \in Wkrs, phase # "done", WkrNone(w)
  PROVE  PoolInv'
<1> DEFINE p == IF wkr[w].sleepCnt >= Sleepless THEN "sleep" ELSE "top"
           n == IF wkr[w].sleepCnt < Sleepless THEN wkr[w].sleepCnt + 1 ELSE wkr[w].sleepCnt
           v == [wkr[w] EXCEPT !.pc = p, !.sleepCnt = n]
<1>1. wkr[w] \in WkrRec /\ wkr[w].pc = "scan"
  BY WkrFields DEF PoolInv, WkrNone
<1>2. p \in WkrPcs /\ p \in {"sleep", "top"} /\ n \in Nat
  BY <1>1 DEF WkrPcs, WkrRec
<1>3. wkr' = [wkr EXCEPT ![w] = v] /\ UNCHANGED <<cnt, phase, regJob, reg, offered, accepted, started>>
  BY DEF WkrNone
<1>4. cnt' \in CntRec /\ cnt.wkr \in Int /\ cnt.busy \in Int
  BY <1>3, CntFields DEF PoolInv
<1> HIDE DEF p, n
<1>5. v \in WkrRec /\ v.pc = p /\ (v.timed <=> wkr[w].timed)
  <2>1. v \in WkrRec
    BY <1>1, <1>2, WkrChanged, Zenon
  <2>2. v.pc = p /\ (v.timed <=> wkr[w].timed)
    BY <1>1 DEF WkrRec
  <2>3. QED BY <2>1, <2>2
<1> HIDE DEF v
<1>6. /\ IsLive(v) /\ IsLive(wkr[w]) /\ (IsFixed(v) <=> IsFixed(wkr[w]))
      /\ v.pc # "end" /\ IsBusy(v) /\ IsBusy(wkr[w])
  BY <1>1, <1>2, <1>5 DEF IsLive, IsBusy, IsFixed
<1>7. CountedMove(w, v, cnt')
  BY <1>3, <1>4, <1>6 DEF CountedMove, PoolInv, Counts
<1>8. QED BY <1>3, <1>4, <1>5, <1>7, WkrKeeps, Zenon DEF WkrStep

(* What WkrTry and WkrGet need of the worker that goes to the next stream. *)
LEMMA NextLook ==
  ASSUME PoolInv, NEW w \in Wkrs
  PROVE  /\ wkr[w].idx \in Strms /\ NextStrm(wkr[w].idx) \in Strms
         /\ wkr[w].left - 1 \in Int
BY WkrFields, NextIsStrm DEF PoolInv, WkrRec

LEMMA InvWkrTry ==
  ASSUME PoolInv, NEW w \in Wkrs, phase # "done", WkrTry(w)
  PROVE  PoolInv'
<1> DEFINE v == IF jobMutx[wkr[w].idx] = NoOne
                  THEN [wkr[w] EXCEPT !.pc = "get"]
                  ELSE [wkr[w] EXCEPT !.idx = NextStrm(wkr[w].idx), !.left = wkr[w].left - 1]
<1>1. wkr[w] \in WkrRec /\ wkr[w].pc = "scan"
  BY WkrFields DEF PoolInv, WkrTry
<1>2. /\ wkr' = [wkr EXCEPT ![w] = v]
      /\ UNCHANGED <<cnt, phase, regJob, reg, offered, accepted, started>>
  BY <1>1 DEF WkrTry, PoolInv, PoolType
<1>3. cnt' \in CntRec /\ cnt.wkr \in Int /\ cnt.busy \in Int
  BY <1>2, CntFields DEF PoolInv
<1>4. v \in WkrRec /\ v.pc \in {"get", "scan"} /\ (v.timed <=> wkr[w].timed)
  <2>1. "get" \in WkrPcs
    BY DEF WkrPcs
  <2>2. v \in WkrRec
    BY <1>1, <2>1, NextLook, WkrChanged, Zenon
  <2>3. v.pc \in {"get", "scan"} /\ (v.timed <=> wkr[w].timed)
    BY <1>1 DEF WkrRec
  <2>4. QED BY <2>2, <2>3
<1> HIDE DEF v
<1>5. /\ IsLive(v) /\ IsLive(wkr[w]) /\ (IsFixed(v) <=> IsFixed(wkr[w]))
      /\ v.pc # "end" /\ IsBusy(v) /\ IsBusy(wkr[w])
  BY <1>1, <1>4 DEF IsLive, IsBusy, IsFixed
<1>6. CountedMove(w, v, cnt')
  BY <1>2, <1>3, <1>5 DEF CountedMove, PoolInv, Counts
<1>7. QED BY <1>2, <1>3, <1>4, <1>6, WkrKeeps, Zenon DEF WkrStep

(* The job is at the head of its stream, and goes to the end of those that *)
(* were taken.                                                             *)
LEMMA InvWkrGet ==
  ASSUME PoolInv, NEW w \in Wkrs, phase # "done", WkrGet(w)
  PROVE  PoolInv'
<1> DEFINE s == wkr[w].idx
           q == regJob[s]
           v == IF q = << >>
                  THEN [wkr[w] EXCEPT !.pc = "scan", !.idx = NextStrm(s), !.left = wkr[w].left - 1]
                  ELSE [wkr[w] EXCEPT !.pc = "run", !.job = Head(q), !.sleepCnt = 0]
<1>1. wkr[w] \in WkrRec /\ wkr[w].pc = "get" /\ s \in Strms
  BY WkrFields, NextLook DEF PoolInv, WkrGet
<1>2. /\ wkr' = [wkr EXCEPT ![w] = v]
      /\ UNCHANGED <<cnt, phase, reg, offered, accepted>>
  BY <1>1 DEF WkrGet, PoolInv, PoolType
<1>3. cnt' \in CntRec /\ cnt.wkr \in Int /\ cnt.busy \in Int
  BY <1>2, CntFields DEF PoolInv
<1>q. q \in Seq(Nat) /\ started[s] \in Seq(Nat) /\ (q # << >> => Head(q) \in Nat /\ Tail(q) \in Seq(Nat))
  BY <1>1, HeadTailProperties DEF PoolInv, PoolType
<1>4. v \in WkrRec /\ v.pc \in {"run", "scan"} /\ (v.timed <=> wkr[w].timed)
  <2>1. "run" \in WkrPcs /\ "scan" \in WkrPcs
    BY DEF WkrPcs
  <2>2. v \in WkrRec
    <3> HIDE DEF q
    <3>1. CASE q = << >>
      BY <3>1, <1>1, <2>1, NextLook, WkrChanged, Zenon
    <3>2. CASE q # << >>
      BY <3>2, <1>1, <1>q, <2>1, WkrChanged, Zenon
    <3>3. QED BY <3>1, <3>2
  <2>3. v.pc \in {"run", "scan"} /\ (v.timed <=> wkr[w].timed)
    BY <1>1 DEF WkrRec
  <2>4. QED BY <2>2, <2>3
<1> HIDE DEF v
<1>5. /\ IsLive(v) /\ IsLive(wkr[w]) /\ (IsFixed(v) <=> IsFixed(wkr[w]))
      /\ v.pc # "end" /\ IsBusy(v) /\ IsBusy(wkr[w])
  BY <1>1, <1>4 DEF IsLive, IsBusy, IsFixed
<1>6. CountedMove(w, v, cnt')
  BY <1>2, <1>3, <1>5 DEF CountedMove, PoolInv, Counts
<1>7. wkr' \in [Wkrs -> WkrRec] /\ Counts' /\ EndsTimed' /\ FixedStay'
  BY <1>2, <1>4, <1>6, WkrCounted
<1>8. CASE q = << >>
  <2>1. UNCHANGED <<regJob, started>>
    BY <1>8 DEF WkrGet
  <2>2. QED BY <2>1, <1>2, <1>3, <1>4, <1>6, WkrKeeps, Zenon DEF WkrStep
<1>9. CASE q # << >>
  <2>1. /\ regJob' = [regJob EXCEPT ![s] = Tail(q)]
        /\ started' = [started EXCEPT ![s] = Append(started[s], Head(q))]
    BY <1>9 DEF WkrGet
  <2>2. /\ regJob' \in [Strms -> Seq(Nat)] /\ regJob'[s] = Tail(q)
        /\ \A t \in Strms : t # s => regJob'[t] = regJob[t]
    BY <2>1, <1>1, <1>q, <1>9 DEF PoolInv, PoolType
  <2>3. /\ started' \in [Strms -> Seq(Nat)] /\ started'[s] = Append(started[s], Head(q))
        /\ \A t \in Strms : t # s => started'[t] = started[t]
    BY <2>1, <1>1, <1>q, <1>9, AppendProperties DEF PoolInv, PoolType
  <2>4. PoolType'
    BY <2>2, <2>3, <1>2, <1>3, <1>7 DEF PoolInv, PoolType
  <2>5. Append(started[s], Head(q)) \o Tail(q) = started[s] \o q
    BY <1>q, <1>9, TakeInOrder
  <2> HIDE DEF q
  <2>6. ASSUME NEW t \in Strms PROVE accepted'[t] = started'[t] \o regJob'[t]
    <3>1. accepted'[t] = started[t] \o regJob[t]
      BY <1>2 DEF PoolInv, JobsInOrder
    <3>2. CASE t = s
      BY <3>1, <3>2, <2>2, <2>3, <2>5 DEF q
    <3>3. CASE t # s
      BY <3>1, <3>3, <2>2, <2>3
    <3>4. QED BY <3>2, <3>3
  <2>7. QED BY <2>4, <2>6, <1>7 DEF PoolInv, JobsInOrder
<1>10. QED BY <1>8, <1>9

(* In a pool that runs only a timed worker is over its time, and only one  *)
(* that is over its time ends.                                             *)
LEMMA InvWkrAgain ==
  ASSUME PoolInv, NEW w \in Wkrs, NEW over \in BOOLEAN, phase # "done", WkrAgain(w, over)
  PROVE  PoolInv'
<1> DEFINE p == IF phase = "term" \/ (over /\ cnt.wkr > MinWkr) THEN "end" ELSE "wait"
           v == [wkr[w] EXCEPT !.pc = p]
<1>1. wkr[w] \in WkrRec /\ wkr[w].pc = "tmout" /\ (over => wkr[w].timed)
  BY WkrFields DEF PoolInv, WkrAgain
<1>2. /\ p \in WkrPcs /\ p \in {"end", "wait"}
      /\ phase = "run" /\ p = "end" => wkr[w].timed
  BY <1>1 DEF WkrPcs
<1>3. wkr' = [wkr EXCEPT ![w] = v] /\ UNCHANGED <<cnt, phase, regJob, reg, offered, accepted, started>>
  BY DEF WkrAgain
<1>4. cnt' \in CntRec /\ cnt.wkr \in Int /\ cnt.busy \in Int
  BY <1>3, CntFields DEF PoolInv
<1> HIDE DEF p
<1>5. v \in WkrRec /\ v.pc = p /\ (v.timed <=> wkr[w].timed)
  <2>1. v \in WkrRec
    BY <1>1, <1>2, WkrChanged, Zenon
  <2>2. v.pc = p /\ (v.timed <=> wkr[w].timed)
    BY <1>1 DEF WkrRec
  <2>3. QED BY <2>1, <2>2
<1> HIDE DEF v
<1>6. /\ IsLive(v) /\ IsLive(wkr[w]) /\ (IsFixed(v) <=> IsFixed(wkr[w]))
      /\ phase = "run" /\ v.pc = "end" => v.timed
      /\ ~IsBusy(v) /\ ~IsBusy(wkr[w])
  BY <1>1, <1>2, <1>5 DEF IsLive, IsBusy, IsFixed
<1>7. CountedMove(w, v, cnt')
  BY <1>3, <1>4, <1>6 DEF CountedMove, PoolInv, Counts
<1>8. QED BY <1>3, <1>4, <1>5, <1>7, WkrKeeps, Zenon DEF WkrStep

LEMMA InvClnCount ==
  ASSUME PoolInv, NEW w \in Wkrs, phase # "done", ClnCount(w)
  PROVE  PoolInv'
<1> DEFINE v == [wkr[w] EXCEPT !.pc = "out"]
<1>1. /\ wkr[w] \in WkrRec /\ wkr[w].pc = "end"
      /\ phase = "run" => wkr[w].timed
  BY WkrFields DEF PoolInv, ClnCount, EndsTimed
<1>2. v \in WkrRec /\ v.pc = "out" /\ (v.timed <=> wkr[w].timed)
  <2>1. "out" \in WkrPcs
    BY DEF WkrPcs
  <2>2. v \in WkrRec
    BY <1>1, <2>1, WkrChanged, Zenon
  <2>3. v.pc = "out" /\ (v.timed <=> wkr[w].timed)
    BY <1>1 DEF WkrRec
  <2>4. QED BY <2>2, <2>3
<1>3. wkr' = [wkr EXCEPT ![w] = v] /\ UNCHANGED <<phase, regJob, reg, offered, accepted, started>>
  BY DEF ClnCount
<1>4. /\ cnt' \in CntRec /\ cnt'.wkr = cnt.wkr - 1 /\ cnt'.busy = cnt.busy
      /\ cnt.wkr \in Int /\ cnt.busy \in Int /\ MaxWkr \in Int
  BY CntFields, PoolAssumption DEF ClnCount, PoolInv, PoolAssumption
<1> HIDE DEF v
<1>5. /\ ~IsLive(v) /\ IsLive(wkr[w]) /\ ~IsBusy(v) /\ ~IsBusy(wkr[w])
      /\ phase = "run" => ~IsFixed(v) /\ ~IsFixed(wkr[w])
  BY <1>1, <1>2 DEF IsLive, IsBusy, IsFixed
<1>6. CountedMove(w, v, cnt')
  BY <1>2, <1>4, <1>5 DEF CountedMove, PoolInv, Counts
<1>7. QED BY <1>2, <1>3, <1>4, <1>6, WkrKeeps, Zenon DEF WkrStep

LEMMA InvClnFree ==
  ASSUME PoolInv, NEW w \in Wkrs, phase # "done", ClnFree(w)
  PROVE  PoolInv'
<1>1. wkr[w] \in WkrRec /\ wkr[w].pc = "out"
  BY WkrFields DEF PoolInv, ClnFree
<1>2. noWkr \in WkrRec /\ noWkr.pc = "none"
  BY NewIsWkr DEF noWkr
<1>3. /\ wkr' = [wkr EXCEPT ![w] = noWkr]
      /\ UNCHANGED <<cnt, phase, regJob, reg, offered, accepted, started>>
  BY DEF ClnFree
<1>4. cnt' \in CntRec /\ cnt.wkr \in Int /\ cnt.busy \in Int
  BY <1>3, CntFields DEF PoolInv
<1>5. /\ ~IsLive(noWkr) /\ ~IsLive(wkr[w]) /\ ~IsBusy(noWkr) /\ ~IsBusy(wkr[w])
      /\ ~IsFixed(noWkr) /\ ~IsFixed(wkr[w])
  BY <1>1, <1>2 DEF IsLive, IsBusy, IsFixed
<1>6. CountedMove(w, noWkr, cnt')
  BY <1>2, <1>3, <1>4, <1>5 DEF CountedMove, PoolInv, Counts
<1>7. QED BY <1>2, <1>3, <1>4, <1>6, WkrKeeps, Zenon DEF WkrStep

-----------------------------------------------------------------------------
(* The steps of a registration *)

LEMMA InvRegLock ==
  ASSUME PoolInv, NEW r \in Regs, NEW ask \in Strms, RegLock(r, ask)
  PROVE  PoolInv'
<1>1. PoolType'
  BY TypeRegLock DEF PoolInv
<1>2. cnt'.wkr = cnt.wkr /\ cnt'.busy = cnt.busy
  BY DEF RegLock, PoolInv, PoolType, CntRec
<1>3. Counts' /\ EndsTimed' /\ FixedStay'
  BY <1>2, CountsAlone DEF RegLock
<1>4. JobsInOrder'
  BY OrderKept DEF RegLock, PoolInv
<1>5. QED BY <1>1, <1>3, <1>4 DEF PoolInv

LEMMA InvRegTry == ASSUME PoolInv, NEW r \in Regs, RegTry(r) PROVE PoolInv'
<1>1. PoolType'
  BY TypeRegTry DEF PoolInv
<1>2. cnt'.wkr = cnt.wkr /\ cnt'.busy = cnt.busy
  BY DEF RegTry, PoolInv, PoolType, CntRec
<1>3. Counts' /\ EndsTimed' /\ FixedStay'
  BY <1>2, CountsAlone DEF RegTry
<1>4. JobsInOrder'
  BY OrderKept DEF RegTry, PoolInv
<1>5. QED BY <1>1, <1>3, <1>4 DEF PoolInv

(* A worker that is woken is as much alive, and as little busy, as before. *)
LEMMA SignalCounted ==
  ASSUME NEW a, NEW c, CountsOf(a, c), NEW b \in Signalled(a)
  PROVE  CountsOf(b, c)
<1>1. CASE b = a
  BY <1>1
<1>2. CASE b # a
  <2>1. PICK w \in Wkrs : a[w].pc = "wait" /\ b = [a EXCEPT ![w].pc = "woken"]
    BY <1>2 DEF Signalled
  <2> DEFINE v == [a[w] EXCEPT !.pc = "woken"]
  <2>2. a \in [Wkrs -> WkrRec] /\ a[w] \in WkrRec
    BY DEF CountsOf
  <2>3. v \in WkrRec /\ v.pc = "woken" /\ (v.timed <=> a[w].timed)
    <3>1. "woken" \in WkrPcs
      BY DEF WkrPcs
    <3>2. v \in WkrRec
      BY <2>2, <3>1, WkrChanged, Zenon
    <3>3. v.pc = "woken" /\ (v.timed <=> a[w].timed)
      BY <2>2 DEF WkrRec
    <3>4. QED BY <3>2, <3>3
  <2>4. b = [a EXCEPT ![w] = v]
    BY <2>1
  <2> HIDE DEF v
  <2>5. /\ IsLive(v) /\ IsLive(a[w]) /\ ~IsBusy(v) /\ ~IsBusy(a[w])
        /\ IsFixed(v) <=> IsFixed(a[w])
    BY <2>1, <2>3 DEF IsLive, IsBusy, IsFixed
  <2>6. /\ b \in [Wkrs -> WkrRec]
        /\ Cardinality(LiveOf(b)) = Cardinality(LiveOf(a))
        /\ Cardinality(BusyOf(b)) = Cardinality(BusyOf(a))
        /\ Cardinality(FixedOf(b)) = Cardinality(FixedOf(a))
    <3>1. Moved(a, b, w, v)
      BY <2>2, <2>3, <2>4 DEF Moved
    <3>2. QED BY <3>1, <2>5, OneMoves
  <2>7. \A x \in Wkrs : b[x] = IF x = w THEN v ELSE a[x]
    BY <2>2, <2>4
  <2>8. QED BY <2>3, <2>6, <2>7 DEF CountsOf
<1>3. QED BY <1>1, <1>2

(* The worker that a registration adds may end. *)
LEMMA AddCounted ==
  ASSUME PoolInv, NEW w \in Wkrs, phase # "done", wkr[w].pc = "none", cnt.wkr < MaxWkr
  PROVE  CountsOf([wkr EXCEPT ![w] = NewWkr(TRUE)], [cnt EXCEPT !.wkr = cnt.wkr + 1])
<1> DEFINE v == NewWkr(TRUE)
           c == [cnt EXCEPT !.wkr = cnt.wkr + 1]
<1>1. v \in WkrRec /\ v.pc = "start" /\ v.timed
  BY NewIsWkr DEF NewWkr, noWkr
<1>2. c.wkr = cnt.wkr + 1 /\ c.busy = cnt.busy /\ cnt.wkr \in Int /\ cnt.busy \in Int
  BY CntFields DEF PoolInv
<1> HIDE DEF v, c
<1>3. /\ IsLive(v) /\ ~IsLive(wkr[w]) /\ ~IsBusy(v) /\ ~IsBusy(wkr[w])
      /\ ~IsFixed(v) /\ ~IsFixed(wkr[w])
  BY <1>1 DEF IsLive, IsBusy, IsFixed
<1>4. CountedMove(w, v, c)
  BY <1>1, <1>2, <1>3, PoolAssumption DEF CountedMove, PoolInv, Counts, PoolAssumption
<1>5. CountsOf([wkr EXCEPT ![w] = v], c)
  BY <1>1, <1>4, MoveCounted
<1>6. QED BY <1>5 DEF v, c

LEMMA InvRegPut == ASSUME PoolInv, NEW r \in Regs, phase # "done", RegPut(r) PROVE PoolInv'
<1> DEFINE s == reg[r].strm
           j == reg[r].job
<1>1. s \in Strms /\ j \in Nat
  BY DEF PoolInv, PoolType, RegRec
<1>2. PICK ws \in IF Crowded(s)
                    THEN {[wkr EXCEPT ![w] = NewWkr(TRUE)] : w \in {x \in Wkrs : wkr[x].pc = "none"}}
                    ELSE {wkr} :
        /\ cnt' = IF Crowded(s) THEN [cnt EXCEPT !.wkr = cnt.wkr + 1] ELSE cnt
        /\ wkr' = ws \/ wkr' \in Signalled(ws)
  BY DEF RegPut
<1>3. CountsOf(ws, cnt') /\ cnt' \in CntRec
  <2>1. CASE Crowded(s)
    <3>1. PICK w \in Wkrs : wkr[w].pc = "none" /\ ws = [wkr EXCEPT ![w] = NewWkr(TRUE)]
      BY <1>2, <2>1
    <3>2. cnt.wkr < MaxWkr /\ cnt' = [cnt EXCEPT !.wkr = cnt.wkr + 1]
      BY <1>2, <2>1 DEF Crowded
    <3>3. cnt' \in CntRec
      BY <3>2, CntFields DEF PoolInv
    <3>4. QED BY <3>1, <3>2, <3>3, AddCounted
  <2>2. CASE ~Crowded(s)
    <3>1. ws = wkr /\ cnt' = cnt
      BY <1>2, <2>2
    <3>2. QED BY <3>1 DEF CountsOf, PoolInv, PoolType, Counts, EndsTimed, FixedStay
  <2>3. QED BY <2>1, <2>2
<1>4. CountsOf(wkr', cnt')
  BY <1>2, <1>3, SignalCounted
<1>5. phase' = phase /\ UNCHANGED <<offered, started>> /\ reg' = [reg EXCEPT ![r] = noReg]
  BY DEF RegPut
<1>6. reg' \in [Regs -> RegRec]
  <2>1. noReg \in RegRec
    BY NextIsStrm, <1>1 DEF noReg, RegRec
  <2>2. QED BY <1>5, <2>1 DEF PoolInv, PoolType
<1>7. Counts' /\ EndsTimed' /\ FixedStay'
  BY <1>4, <1>5, CountsKept
<1>8. wkr' \in [Wkrs -> WkrRec]
  BY <1>4 DEF CountsOf
<1>9. CASE IsFull(s)
  <2>1. UNCHANGED <<regJob, accepted>>
    BY <1>9 DEF RegPut
  <2>2. PoolType'
    BY <2>1, <1>3, <1>5, <1>6, <1>8 DEF PoolInv, PoolType
  <2>3. JobsInOrder'
    BY <2>1, <1>5, OrderKept DEF PoolInv
  <2>4. QED BY <2>2, <2>3, <1>7 DEF PoolInv
<1>10. CASE ~IsFull(s)
  <2>1. /\ regJob' = [regJob EXCEPT ![s] = Append(regJob[s], j)]
        /\ accepted' = [accepted EXCEPT ![s] = Append(accepted[s], j)]
    BY <1>10 DEF RegPut, Queued
  <2> HIDE DEF s, j
  <2>2. /\ regJob[s] \in Seq(Nat) /\ accepted[s] \in Seq(Nat) /\ started[s] \in Seq(Nat)
        /\ Append(regJob[s], j) \in Seq(Nat) /\ Append(accepted[s], j) \in Seq(Nat)
    BY <1>1, AppendProperties DEF PoolInv, PoolType
  <2>3. /\ regJob' \in [Strms -> Seq(Nat)] /\ regJob'[s] = Append(regJob[s], j)
        /\ \A t \in Strms : t # s => regJob'[t] = regJob[t]
    BY <2>1, <2>2, <1>1 DEF PoolInv, PoolType
  <2>4. /\ accepted' \in [Strms -> Seq(Nat)] /\ accepted'[s] = Append(accepted[s], j)
        /\ \A t \in Strms : t # s => accepted'[t] = accepted[t]
    BY <2>1, <2>2, <1>1 DEF PoolInv, PoolType
  <2>5. PoolType'
    BY <2>3, <2>4, <1>3, <1>5, <1>6, <1>8 DEF PoolInv, PoolType
  <2>6. Append(started[s] \o regJob[s], j) = started[s] \o Append(regJob[s], j)
    <3>1. \A a, q \in Seq(Nat) : Append(a \o q, j) = a \o Append(q, j)
      BY <1>1, PutInOrder
    <3>2. QED BY <2>2, <3>1
  <2>7. ASSUME NEW t \in Strms PROVE accepted'[t] = started'[t] \o regJob'[t]
    <3>1. accepted[t] = started[t] \o regJob[t] /\ started'[t] = started[t]
      BY <1>5 DEF PoolInv, JobsInOrder
    <3>2. CASE t = s
      BY <3>1, <3>2, <2>3, <2>4, <2>6
    <3>3. CASE t # s
      BY <3>1, <3>3, <2>3, <2>4
    <3>4. QED BY <3>2, <3>3
  <2>8. QED BY <2>5, <2>7, <1>7 DEF PoolInv, JobsInOrder
<1>11. QED BY <1>9, <1>10

-----------------------------------------------------------------------------
(* The invariant *)

(* thrlib_poolInit makes wkrMinCnt workers, none of which has begun.       *)
LEMMA PoolInvInit == PoolInit => PoolInv
<1> SUFFICES ASSUME PoolInit PROVE PoolInv
  OBVIOUS
<1>1. PICK first \in SUBSET Wkrs :
        /\ Cardinality(first) = MinWkr
        /\ wkr = [w \in Wkrs |-> IF w \in first THEN NewWkr(FALSE) ELSE noWkr]
  BY DEF PoolInit
<1>2. /\ NewWkr(FALSE).pc = "start" /\ ~NewWkr(FALSE).timed /\ noWkr.pc = "none"
  BY DEF NewWkr, noWkr
<1>3. LiveOf(wkr) = first /\ FixedOf(wkr) = first /\ BusyOf(wkr) = {}
  BY <1>1, <1>2 DEF LiveOf, FixedOf, BusyOf
<1>4. Cardinality({}) = 0
  BY FS_EmptySet
<1>5. phase = "run" /\ cnt.wkr = MinWkr /\ cnt.busy = 0 /\ MinWkr <= MaxWkr
  BY PoolAssumption DEF PoolInit, PoolAssumption
<1>6. Counts /\ FixedStay
  BY <1>1, <1>3, <1>4, <1>5 DEF Counts, FixedStay
<1>7. EndsTimed
  BY <1>1, <1>2 DEF EndsTimed
<1>8. JobsInOrder
  <2>1. << >> \o << >> = << >>
    BY ConcatEmptySeq, EmptySeq
  <2>2. QED BY <2>1 DEF PoolInit, JobsInOrder
<1>9. QED BY TypeInit, <1>6, <1>7, <1>8 DEF PoolInv

LEMMA InvReg == ASSUME PoolInv, NEW r \in Regs, Reg(r) PROVE PoolInv'
BY InvRegTry, InvRegPut DEF Reg

LEMMA InvWkr == ASSUME PoolInv, NEW w \in Wkrs, Wkr(w) PROVE PoolInv'
<1>1. phase # "done"
  BY DEF Wkr
<1>2. CASE WkrStart(w)  BY <1>1, <1>2, InvWkrStart
<1>3. CASE WkrTop(w)    BY <1>1, <1>3, InvWkrTop
<1>4. CASE WkrNone(w)   BY <1>1, <1>4, InvWkrNone
<1>5. CASE WkrTry(w)    BY <1>1, <1>5, InvWkrTry
<1>6. CASE WkrGet(w)    BY <1>1, <1>6, InvWkrGet
<1>7. CASE WkrRan(w)    BY <1>1, <1>7, InvWkrRan
<1>8. CASE WkrIdle(w)   BY <1>1, <1>8, InvWkrIdle
<1>9. CASE WkrSleep(w)  BY <1>1, <1>9, InvWkrSleep
<1>10. CASE WkrTmOut(w) BY <1>1, <1>10, InvWkrTmOut
<1>11. CASE WkrWoken(w) BY <1>1, <1>11, InvWkrWoken
<1>12. CASE \E over \in BOOLEAN : WkrAgain(w, over)
  BY <1>1, <1>12, InvWkrAgain
<1>13. CASE ClnCount(w) BY <1>1, <1>13, InvClnCount
<1>14. CASE ClnFree(w)  BY <1>1, <1>14, InvClnFree
<1>15. QED BY <1>2, <1>3, <1>4, <1>5, <1>6, <1>7, <1>8, <1>9, <1>10, <1>11, <1>12, <1>13, <1>14
           DEF Wkr

LEMMA InvSetTerm == ASSUME PoolInv, SetTerm PROVE PoolInv'
<1>1. /\ phase = "run" /\ phase' = "term"
      /\ UNCHANGED <<cnt, regJob, wkr, reg, offered, accepted, started>>
  BY DEF SetTerm
<1>2. PoolType'
  BY <1>1 DEF PoolInv, PoolType
<1>3. Counts' /\ EndsTimed' /\ FixedStay'
  BY <1>1 DEF PoolInv, Counts, EndsTimed, FixedStay
<1>4. QED BY <1>1, <1>2, <1>3, OrderKept DEF PoolInv

(* The count that is read without the mutex is 0 only when no worker will  *)
(* use the pool but to put its block back.                                 *)
LEMMA InvDstryPool == ASSUME PoolInv, DstryPool PROVE PoolInv'
<1>1. /\ phase = "term" /\ phase' = "done" /\ cnt.wkr = 0
      /\ UNCHANGED <<cnt, regJob, wkr, reg, offered, accepted, started>>
  BY DEF DstryPool
<1>2. PoolType'
  BY <1>1 DEF PoolInv, PoolType
<1>3. LiveOf(wkr) = {}
  BY <1>1, FiniteSubsets, FS_EmptySet DEF PoolInv, Counts
<1>4. Counts' /\ EndsTimed' /\ FixedStay'
  BY <1>1, <1>3 DEF Counts, EndsTimed, FixedStay
<1>5. QED BY <1>1, <1>2, <1>4, OrderKept DEF PoolInv

LEMMA PoolInvNext == PoolInv /\ [PoolNext]_poolVars => PoolInv'
<1> SUFFICES ASSUME PoolInv, [PoolNext]_poolVars PROVE PoolInv'
  OBVIOUS
<1>1. CASE \E r \in Regs : Reg(r) \/ \E ask \in Strms : RegLock(r, ask)
  BY <1>1, InvReg, InvRegLock
<1>2. CASE \E w \in Wkrs : Wkr(w)
  BY <1>2, InvWkr
<1>3. CASE SetTerm
  BY <1>3, InvSetTerm
<1>4. CASE DstryPool
  BY <1>4, InvDstryPool
<1>5. CASE UNCHANGED poolVars
  <2>1. UNCHANGED <<cnt, phase, regJob, wkr, reg, offered, accepted, started>>
    BY <1>5 DEF poolVars
  <2>2. PoolType' /\ Counts' /\ EndsTimed' /\ FixedStay'
    BY <2>1 DEF PoolInv, PoolType, Counts, EndsTimed, FixedStay
  <2>3. QED BY <2>1, <2>2, OrderKept DEF PoolInv
<1>6. QED BY <1>1, <1>2, <1>3, <1>4, <1>5 DEF PoolNext

(* The invariant says what the run checks.  A pool that runs has at least  *)
(* the workers that never end.                                             *)
LEMMA PoolInvExact == PoolInv => PoolExact
<1> SUFFICES ASSUME PoolInv PROVE CountsExact
  BY DEF PoolInv, PoolExact
<1>1. LiveOf(wkr) = Live /\ BusyOf(wkr) = {w \in Live \ Asleep : wkr[w].pc \notin {"start", "end"}}
  BY DEF LiveOf, BusyOf, Live, Asleep
<1>2. ASSUME phase = "run" PROVE cnt.wkr \in MinWkr .. MaxWkr
  <2>1. FixedOf(wkr) \in SUBSET LiveOf(wkr)
    BY DEF FixedOf, LiveOf
  <2>2. Cardinality(FixedOf(wkr)) <= Cardinality(LiveOf(wkr))
    BY <2>1, FiniteSubsets, FS_Subset
  <2>3. QED BY <2>2, <1>2, CntFields, PoolAssumption
            DEF PoolInv, Counts, FixedStay, PoolAssumption
<1>3. QED BY <1>1, <1>2 DEF CountsExact, PoolInv, Counts

(* The invariant from which the properties of the pool follow holds in     *)
(* every state: types, counts and order of the jobs (thrlib_pool.c).       *)
THEOREM PoolInductive == PoolSpec => []PoolInv
<1>1. QED BY PoolInvInit, PoolInvNext, PTL DEF PoolSpec

(* Whatever registers, works, times out and ends: no job is lost, doubled  *)
(* or moved ahead of another one of its stream, the pool counts its        *)
(* workers exactly, and it never has too many or too few of them.          *)
THEOREM PoolStaysExact == PoolSpec => []PoolExact
<1>1. QED BY PoolInductive, PoolInvExact, PTL
=============================================================================
