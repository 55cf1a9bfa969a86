------------------------------ MODULE RsvServer ------------------------------
(***************************************************************************)
(* The HTTP server of rsvlib: rules are set, the server is run and         *)
(* stopped by the program, and between the two the HTTP daemon calls       *)
(* svr_ansCon for each request, first with the headers and at last with    *)
(* the whole body, and the callbacks of streamed answers.                  *)
(*                                                                         *)
(* The daemon is libmicrohttpd: it accepts requests while it is up, drops  *)
(* a connection when the client goes away, and when it is stopped lets the *)
(* callbacks that run come to their end, drops what is left, and returns.  *)
(* What the bodies hold is left out, and so are the requests that are      *)
(* answered 404 or 400 by the first call: they make no session.            *)
(***************************************************************************)
EXTENDS Naturals, FiniteSets

CONSTANTS Callers,   \* threads of the program that call rsvlib
          Reqs,      \* requests; the session of a request has its name
          MaxCalls,  \* bound on the calls of the program in a run
          NULL

Types == {"none", "strm"}     \* RSV_SVR_RULE_NONE and RSV_SVR_RULE_STRM

ASSUME RsvAssumption == NULL \notin Callers /\ MaxCalls \in Nat

VARIABLES runMutx,   \* the caller that holds runMutx, or NULL
          runFlg,
          pool,      \* the configured thrdCnt is not 0
          rules,     \* types of the rules in rrlCb
          dm,        \* the handle: "NULL", "valid", or "stale" after MHD_stop_daemon
          daemon,    \* the daemon on the port: "none", "up" or "stopping"
          call,      \* of each caller: "idle" or what its call waits for
          calls,     \* calls made so far
          pc,        \* of each request: where svr_ansCon or the daemon is with it
          type,      \* the type of its rule
          ses,       \* its session: "none", "live" or "freed"
          doc,       \* sesCb->doc: "unset", "set" or "freed"
          actv,      \* the sessions in actvSvrSes
          memErr,    \* freed or uninitialized memory was accessed
          rerun,     \* history: the server was run while it was running
          badStart   \* history: a run failed before the daemon was started

apiVars == <<runMutx, runFlg, pool, rules, dm, call, calls, rerun, badStart>>
reqVars == <<pc, type, ses, doc, actv>>
vars == <<apiVars, daemon, reqVars, memErr>>

(* rsvlibInt_init. *)
Init ==
  /\ runMutx = NULL /\ runFlg = FALSE /\ pool \in BOOLEAN /\ rules = {}
  /\ dm = "NULL" /\ daemon = "none"
  /\ call = [c \in Callers |-> "idle"] /\ calls = 0
  /\ pc = [r \in Reqs |-> "none"]
  /\ type = [r \in Reqs |-> "none"]
  /\ ses = [r \in Reqs |-> "none"]
  /\ doc = [r \in Reqs |-> "unset"]
  /\ actv = {}
  /\ memErr = FALSE /\ rerun = FALSE /\ badStart = FALSE

MemErr == memErr' = TRUE /\ UNCHANGED <<apiVars, daemon, reqVars>>

\* A request inside a callback, one between two callbacks, and either.
InCallback(r) == pc[r] \in {"parse", "insert", "doc", "func", "unlist", "free"}
Between(r) == pc[r] \in {"open", "stream"}
Active(r) == InCallback(r) \/ Between(r)

-----------------------------------------------------------------------------
(* The calls of the program. *)
Enter(c) ==
  /\ call[c] = "idle"
  /\ runMutx = NULL
  /\ calls < MaxCalls
  /\ calls' = calls + 1

\* Fault: a running server is not looked at.
SetRule_Running(c) ==
  /\ Enter(c)
  /\ rules' \in {rules, rules \cup {"none"}}
  /\ UNCHANGED <<runMutx, runFlg, pool, dm, call, rerun, badStart, daemon, reqVars, memErr>>

(* rsvlib_apiSetRule: refused while the server runs; the parser may refuse *)
(* the rule as well.                                                       *)
SetRule(c) ==
  /\ Enter(c)
  /\ rules' \in (IF runFlg THEN {rules} ELSE {rules, rules \cup {"none"}})
  /\ UNCHANGED <<runMutx, runFlg, pool, dm, call, rerun, badStart, daemon, reqVars, memErr>>

(* rsvlib_apiSetRuleStrm: with a thread pool the call returns with the     *)
(* mutex locked.                                                           *)
SetRuleStrm(c) ==
  /\ Enter(c)
  /\ rules' \in (IF runFlg \/ pool THEN {rules} ELSE {rules, rules \cup {"strm"}})
  /\ runMutx' = IF ~runFlg /\ pool THEN c ELSE NULL
  /\ UNCHANGED <<runFlg, pool, dm, call, rerun, badStart, daemon, reqVars, memErr>>

(* rsvlib_apiRun: the flag is set first.  The start fails when the files   *)
(* with the keys cannot be read, and when the daemon does not come up,     *)
(* which is so as long as the port is taken.                               *)
RunBadKeys(c) ==
  /\ Enter(c)
  /\ runFlg' = TRUE
  /\ rerun' = (rerun \/ runFlg)
  /\ badStart' = TRUE
  /\ UNCHANGED <<runMutx, pool, rules, dm, call, daemon, reqVars, memErr>>

Run(c) ==
  /\ Enter(c)
  /\ runFlg' = TRUE
  /\ rerun' = (rerun \/ runFlg)
  /\ \/ daemon = "none" /\ daemon' = "up" /\ dm' = "valid"
     \/ dm' = "NULL" /\ UNCHANGED daemon
  /\ UNCHANGED <<runMutx, pool, rules, call, badStart, reqVars, memErr>>

(* rsvlib_apiStop: MHD_stop_daemon with the handle that is there, ...      *)
StopIdle(c) ==
  /\ Enter(c)
  /\ ~runFlg
  /\ UNCHANGED <<runMutx, runFlg, pool, rules, dm, call, rerun, badStart, daemon, reqVars, memErr>>

StopDaemon(c) ==
  /\ Enter(c)
  /\ runFlg /\ dm # "stale"
  /\ runMutx' = c
  /\ call' = [call EXCEPT ![c] = IF dm = "valid" THEN "stopping" ELSE "clear"]
  /\ daemon' = IF dm = "valid" THEN "stopping" ELSE daemon
  /\ UNCHANGED <<runFlg, pool, rules, dm, rerun, badStart, reqVars, memErr>>

StopStale(c) ==
  /\ call[c] = "idle" /\ runMutx = NULL /\ calls < MaxCalls
  /\ runFlg /\ dm = "stale"
  /\ MemErr

\* Fault: the daemon is left to end by itself.
Stopped_NoWait(c) ==
  /\ call[c] = "stopping"
  /\ daemon' = "none"
  /\ dm' = "stale"
  /\ call' = [call EXCEPT ![c] = "clear"]
  /\ UNCHANGED <<runMutx, runFlg, pool, rules, calls, rerun, badStart, reqVars, memErr>>

(* ... which returns when no request is left to it ...                     *)
Stopped(c) ==
  /\ call[c] = "stopping"
  /\ \A r \in Reqs : ~Active(r)
  /\ daemon' = "none"
  /\ dm' = "stale"
  /\ call' = [call EXCEPT ![c] = "clear"]
  /\ UNCHANGED <<runMutx, runFlg, pool, rules, calls, rerun, badStart, reqVars, memErr>>

(* ... then rsvlibInt_svrClearSvrSes destroys the sessions that remain; it *)
(* does not free their blocks.                                             *)
Clear(c) ==
  /\ call[c] = "clear"
  /\ \E r \in actv :
       IF ses[r] # "live" \/ doc[r] # "set" THEN MemErr
       ELSE /\ doc' = [doc EXCEPT ![r] = "freed"]
            /\ actv' = actv \ {r}
            /\ UNCHANGED <<apiVars, daemon, pc, type, ses, memErr>>

StopEnd(c) ==
  /\ call[c] = "clear"
  /\ actv = {}
  /\ call' = [call EXCEPT ![c] = "idle"]
  /\ runMutx' = NULL
  /\ runFlg' = FALSE
  /\ UNCHANGED <<pool, rules, dm, calls, rerun, badStart, daemon, reqVars, memErr>>

-----------------------------------------------------------------------------
(* The daemon's side: svr_ansCon, first call.  The path is looked up in    *)
(* the rules, ...                                                          *)
Goto(r, label) == pc' = [pc EXCEPT ![r] = label]

Arrive(r) ==
  /\ daemon = "up"
  /\ pc[r] = "none"
  /\ Goto(r, "parse")
  /\ UNCHANGED <<apiVars, daemon, type, ses, doc, actv, memErr>>

Parse(r) ==
  /\ pc[r] = "parse"
  /\ \E t \in rules : type' = [type EXCEPT ![r] = t]
  /\ Goto(r, "insert")
  /\ ses' = [ses EXCEPT ![r] = "live"]
  /\ UNCHANGED <<apiVars, daemon, doc, actv, memErr>>

NotFound(r) ==
  /\ pc[r] = "parse"
  /\ Goto(r, "none")
  /\ UNCHANGED <<apiVars, daemon, type, ses, doc, actv, memErr>>

(* ... a session is made and listed, and it gets its document.             *)
Insert(r) ==
  /\ pc[r] = "insert"
  /\ actv' = actv \cup {r}
  /\ Goto(r, "doc")
  /\ UNCHANGED <<apiVars, daemon, type, ses, doc, memErr>>

SetDoc(r) ==
  /\ pc[r] = "doc"
  /\ doc' = [doc EXCEPT ![r] = "set"]
  /\ Goto(r, "open")
  /\ UNCHANGED <<apiVars, daemon, type, ses, actv, memErr>>

(* The last call runs the function of the rule, with the document.         *)
LastCall(r) ==
  /\ pc[r] = "open"
  /\ daemon # "none"
  /\ IF ses[r] # "live" \/ doc[r] # "set" THEN MemErr
     ELSE /\ Goto(r, "func")
          /\ UNCHANGED <<apiVars, daemon, type, ses, doc, actv, memErr>>

(* It answers, and the session is destroyed; the function of a stream may  *)
(* answer with another code than OK.                                       *)
Answer(r) ==
  /\ pc[r] = "func"
  /\ Goto(r, "unlist")
  /\ UNCHANGED <<apiVars, daemon, type, ses, doc, actv, memErr>>

(* A stream goes on: the daemon calls svr_strmCallback with the session,   *)
(* until the stream or the connection ends and it calls                    *)
(* svr_strmFreeCallback.                                                   *)
BeginStream(r) ==
  /\ pc[r] = "func"
  /\ type[r] = "strm"
  /\ Goto(r, "stream")
  /\ UNCHANGED <<apiVars, daemon, type, ses, doc, actv, memErr>>

StrmCallback(r) ==
  /\ pc[r] = "stream"
  /\ daemon = "up"
  /\ ses[r] # "live" \/ doc[r] # "set"
  /\ MemErr

StrmEnd(r) ==
  /\ pc[r] = "stream"
  /\ IF ses[r] # "live" \/ doc[r] # "set" THEN MemErr
     ELSE /\ Goto(r, "unlist")
          /\ UNCHANGED <<apiVars, daemon, type, ses, doc, actv, memErr>>

(* svr_sesDstry and the release of the block.                              *)
SesDstry(r) ==
  /\ pc[r] = "unlist"
  /\ IF ses[r] # "live" \/ doc[r] # "set" \/ r \notin actv THEN MemErr
     ELSE /\ doc' = [doc EXCEPT ![r] = "freed"]
          /\ actv' = actv \ {r}
          /\ Goto(r, "free")
          /\ UNCHANGED <<apiVars, daemon, type, ses, memErr>>

SesFree(r) ==
  /\ pc[r] = "free"
  /\ ses' = [ses EXCEPT ![r] = "freed"]
  /\ Goto(r, "done")
  /\ UNCHANGED <<apiVars, daemon, type, doc, actv, memErr>>

\* Fault: the daemon is stopped and the connection stays.
Drop_OnlyUp(r) ==
  /\ pc[r] = "open"
  /\ daemon = "up"
  /\ Goto(r, "dropped")
  /\ UNCHANGED <<apiVars, daemon, type, ses, doc, actv, memErr>>

(* The client goes away before the last call, or the daemon stops: nothing *)
(* is called, and the session stays in the list.                           *)
Drop(r) ==
  /\ pc[r] = "open"
  /\ daemon # "none"
  /\ Goto(r, "dropped")
  /\ UNCHANGED <<apiVars, daemon, type, ses, doc, actv, memErr>>

-----------------------------------------------------------------------------
Program(c) ==
  \/ SetRule(c) \/ SetRuleStrm(c) \/ RunBadKeys(c) \/ Run(c)
  \/ StopIdle(c) \/ StopDaemon(c) \/ StopStale(c)

StopGoesOn(c) == Stopped(c) \/ Clear(c) \/ StopEnd(c)

\* A callback comes to its end.
Callback(r) ==
  \/ Parse(r) \/ NotFound(r) \/ Insert(r) \/ SetDoc(r)
  \/ Answer(r) \/ BeginStream(r) \/ SesDstry(r) \/ SesFree(r)

\* The daemon calls, or drops the connection.
Daemon(r) == Arrive(r) \/ LastCall(r) \/ StrmCallback(r) \/ StrmEnd(r) \/ Drop(r)

Next ==
  /\ ~memErr
  /\ \/ \E c \in Callers : Program(c) \/ StopGoesOn(c)
     \/ \E r \in Reqs : Callback(r) \/ Daemon(r)

Spec == Init /\ [][Next]_vars

(* Callbacks end, a call that waits goes on when it can, and a daemon that *)
(* is stopping drops its connections.                                      *)
Fairness ==
  /\ \A c \in Callers : WF_vars(~memErr /\ StopGoesOn(c))
  /\ \A r \in Reqs : WF_vars(~memErr /\ Callback(r))
  /\ \A r \in Reqs : WF_vars(~memErr /\ daemon = "stopping" /\ (StrmEnd(r) \/ Drop(r)))

FairSpec == Spec /\ Fairness

-----------------------------------------------------------------------------
(* The values of the variables have their types, and a call that waits     *)
(* holds runMutx.                                                          *)
TypeOK ==
  /\ runMutx \in Callers \cup {NULL} /\ \A c \in Callers : call[c] # "idle" => runMutx = c
  /\ runFlg \in BOOLEAN /\ pool \in BOOLEAN
  /\ rules \subseteq Types
  /\ dm \in {"NULL", "valid", "stale"} /\ daemon \in {"none", "up", "stopping"}
  /\ call \in [Callers -> {"idle", "stopping", "clear"}] /\ calls \in 0 .. MaxCalls
  /\ pc \in [Reqs -> {"none", "parse", "insert", "doc", "open", "func", "stream", "unlist",
                      "free", "done", "dropped"}]
  /\ type \in [Reqs -> Types]
  /\ ses \in [Reqs -> {"none", "live", "freed"}]
  /\ doc \in [Reqs -> {"unset", "set", "freed"}]
  /\ actv \subseteq Reqs
  /\ memErr \in BOOLEAN /\ rerun \in BOOLEAN /\ badStart \in BOOLEAN

(* Sessions, documents and the daemon's handle are not used after they are *)
(* freed, through requests, streams, clients that go away and a stop at    *)
(* any moment, unless the server was run twice or a start failed.          *)
MemorySafe == memErr => rerun \/ badStart

(* A request that the daemon still has something to do for has its session *)
(* and its document, and is in the list of active sessions.                *)
ActiveListed ==
  rerun \/ \A r \in Reqs : pc[r] \in {"open", "func", "stream", "unlist"} =>
             r \in actv /\ ses[r] = "live" /\ doc[r] = "set"

(* When the flag says that the server does not run and no call is under    *)
(* way, no request is in the server's hands and no session is listed.      *)
StoppedIsQuiet ==
  ~runFlg /\ runMutx = NULL => rerun \/ (actv = {} /\ \A r \in Reqs : ~Active(r))

(* What the daemon holds is there, and what it does not hold is gone.      *)
SessionsSafe == MemorySafe /\ ActiveListed /\ StoppedIsQuiet

(* The rules do not change while a request looks its path up in them,      *)
(* unless the server was run twice.                                        *)
RulesStable == [][rules' # rules => rerun \/ \A r \in Reqs : pc[r] # "parse"]_vars

(* A call of rsvlib_apiStop returns.                                       *)
StopReturns == \A c \in Callers : (call[c] # "idle") ~> (call[c] = "idle" \/ memErr)
=============================================================================
