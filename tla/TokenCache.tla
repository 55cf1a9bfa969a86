----------------------------- MODULE TokenCache -----------------------------
(***************************************************************************)
(* The access-token cache of rest_stat (src/rest_stat/rss_auth.c,          *)
(* rss_token.c, main.c), over the hash table and the timer table of        *)
(* comlib.  A connection thread of the REST server looks a token up        *)
(* without a lock, has it verified by the authentication server when it is *)
(* not cached, and inserts it under tokenMainMutx; the main thread takes   *)
(* the time and runs the timer handler, whose event function removes a     *)
(* token under the same lock but after the handler, which holds no lock,   *)
(* has taken its node out of the timer table.                              *)
(*                                                                         *)
(* The tokens have different hash keys and share an entry of the hash      *)
(* table, where it is exact (HashTbl!ExactWithoutCollision).  A memory     *)
(* block is named by its address.  memErr says that a thread used memory   *)
(* it does not own, a freed block or a pointer read from an uninitialised  *)
(* one: nothing the program does from then on is modelled.  The main       *)
(* thread does so at the end of every removal, mostly without harm: both   *)
(* outcomes are there.                                                     *)
(***************************************************************************)
EXTENDS Integers, Sequences, FiniteSets, SequencesExt

CONSTANTS
  Requests,   \* connection threads
  Tokens,     \* access tokens
  Addrs,      \* memory blocks for token nodes (TokenNode)
  NULL,
  Main,       \* the main thread
  Slots,      \* TIMER_MAX_ENTRY
  ExpTm,      \* exp_in of every token
  UsedBytes,  \* whether the malloc'ed byte tNode.used may read as RC_USED
  MaxTick,    \* bound: seconds explored
  MaxJump,    \* bound: seconds between two turns of the main loop
  MaxStall    \* seconds a thread may stall between reading tick and linking

(* An insertion is not held up for as long as a token lives, and the main  *)
(* loop turns more often than the wheel.                                   *)
ASSUME CacheAssumption ==
  /\ NULL \notin Addrs \cup Requests \cup {Main} /\ Main \notin Requests
  /\ UsedBytes \subseteq BOOLEAN
  /\ MaxJump \in Nat /\ MaxTick \in Nat
  /\ MaxStall \in 0 .. ExpTm - 1
  /\ ExpTm \in Nat /\ Slots \in Nat /\ ExpTm + MaxJump < Slots

VARIABLES
  tick, prevTick,     \* of the timer and of the timer table
  slot,               \* the timer table: the nodes of each slot in order
  chain,              \* the entry of the hash table: its nodes in order
  node,               \* content of each block: token, live, used, expTick, linked
  lock,               \* owner of tokenMainMutx
  pc, tok, ptr,       \* each request: where it is, its token, its local pointer
  stale,              \* ptr points to a block freed since it was read
  mpc, cur, fired, nxt, \* the main thread: where it is, the handler's prevTick,
                      \* node and tmpNode
  memErr

reqVars  == <<pc, tok, ptr, stale>>
mainVars == <<mpc, cur, fired, nxt>>
cacheVars == <<slot, chain, node, lock>>
vars == <<tick, prevTick, cacheVars, reqVars, mainVars, memErr>>

SlotIds == 0 .. Slots - 1
SlotOf(t) == t % Slots
noNode == [tok |-> NULL, live |-> FALSE, used |-> FALSE, expTick |-> 0, linked |-> FALSE]

(* rss_authInit, and the main loop about to start. *)
Init ==
  /\ tick = 0 /\ prevTick = 0
  /\ slot = [s \in SlotIds |-> << >>]
  /\ chain = << >>
  /\ node = [a \in Addrs |-> noNode]
  /\ lock = NULL
  /\ pc = [r \in Requests |-> "idle"]
  /\ tok = [r \in Requests |-> NULL]
  /\ ptr = [r \in Requests |-> NULL]
  /\ stale = [r \in Requests |-> FALSE]
  /\ mpc = "sleep" /\ cur = 0 /\ fired = NULL /\ nxt = NULL
  /\ memErr = FALSE

FirstOf(s) == IF s = << >> THEN NULL ELSE Head(s)

PlaceOf(s, a) == CHOOSE i \in DOMAIN s : s[i] = a

(* The node after a in s; a node taken out of its list points to null.     *)
NextOf(s, a) ==
  IF \E i \in 1 .. Len(s) - 1 : s[i] = a THEN s[PlaceOf(s, a) + 1] ELSE NULL

(* The list s when a was taken out of it. *)
Without(s, a) == RemoveAt(s, PlaceOf(s, a))

ReqGoto(r, label) == pc' = [pc EXCEPT ![r] = label]

(* free: whoever still points to a points to freed memory. *)
Free(a) ==
  /\ node' = [node EXCEPT ![a] = noNode]
  /\ stale' = [r \in Requests |-> stale[r] \/ ptr[r] = a]

-----------------------------------------------------------------------------
(* rss_authSvr, in a connection thread *)

(* A request with a token comes in: rss_tokenNodeCheck reads entry->first. *)
FindBegin(r) ==
  /\ pc[r] = "idle"
  /\ \E k \in Tokens : tok' = [tok EXCEPT ![r] = k]
  /\ ptr' = [ptr EXCEPT ![r] = FirstOf(chain)]
  /\ stale' = [stale EXCEPT ![r] = ptr'[r] # NULL /\ ~node[ptr'[r]].live]
  /\ ReqGoto(r, "find")
  /\ UNCHANGED <<tick, prevTick, cacheVars, mainVars, memErr>>

(* The node at hand is compared, and the next one taken when it is another *)
(* token's: both read the node, which no lock protects.                    *)
FindBad(r) ==
  /\ pc[r] = "find"
  /\ ptr[r] # NULL
  /\ \/ stale[r]
     \/ node[ptr[r]].tok # tok[r] /\ ~node[ptr[r]].linked
  /\ memErr' = TRUE
  /\ UNCHANGED <<tick, prevTick, cacheVars, reqVars, mainVars>>

FindNext(r) ==
  /\ pc[r] = "find"
  /\ ptr[r] # NULL
  /\ ~stale[r]
  /\ node[ptr[r]].linked
  /\ node[ptr[r]].tok # tok[r]
  /\ ptr' = [ptr EXCEPT ![r] = NextOf(chain, ptr[r])]
  /\ stale' = [stale EXCEPT ![r] = ptr'[r] # NULL /\ ~node[ptr'[r]].live]
  /\ UNCHANGED <<tick, prevTick, cacheVars, pc, tok, mainVars, memErr>>

Answer(r) ==
  /\ tok' = [tok EXCEPT ![r] = NULL]
  /\ ptr' = [ptr EXCEPT ![r] = NULL]
  /\ stale' = [stale EXCEPT ![r] = FALSE]
  /\ ReqGoto(r, "idle")

FindHit(r) ==
  /\ pc[r] = "find"
  /\ ptr[r] # NULL
  /\ ~stale[r]
  /\ node[ptr[r]].tok = tok[r]
  /\ Answer(r)
  /\ UNCHANGED <<tick, prevTick, cacheVars, mainVars, memErr>>

FindMiss(r) ==
  /\ pc[r] = "find"
  /\ ptr[r] = NULL
  /\ ReqGoto(r, "auth")
  /\ UNCHANGED <<tick, prevTick, cacheVars, tok, ptr, stale, mainVars, memErr>>

(* The answer of the authentication server: not 200, or none at all. *)
AuthRefuse(r) ==
  /\ pc[r] = "auth"
  /\ Answer(r)
  /\ UNCHANGED <<tick, prevTick, cacheVars, mainVars, memErr>>

AuthAccept(r) ==
  /\ pc[r] = "auth"
  /\ ReqGoto(r, "lock")
  /\ UNCHANGED <<tick, prevTick, cacheVars, tok, ptr, stale, mainVars, memErr>>

WrLock(r) ==
  /\ pc[r] = "lock"
  /\ lock = NULL
  /\ lock' = r
  /\ ReqGoto(r, "insert")
  /\ UNCHANGED <<tick, prevTick, slot, chain, node, tok, ptr, stale, mainVars, memErr>>

(* rss_tokenNodeInsert.  malloc returns one of the free blocks, it does    *)
(* not matter which; the block is filled in, except for its timer node.    *)
FreeBlocks == {a \in Addrs : ~node[a].live /\ ~Contains(chain, a)}

Cached(k) == \E i \in DOMAIN chain : node[chain[i]].tok = k

(* comlib_hashTblInsertHashNode walks the entry and refuses a token that   *)
(* is there; the node is freed and the function goes on with it.           *)
InsertBad(r) ==
  /\ pc[r] = "insert"
  /\ Cached(tok[r]) \/ \E i \in DOMAIN chain : ~node[chain[i]].live
  /\ memErr' = TRUE
  /\ UNCHANGED <<tick, prevTick, cacheVars, reqVars, mainVars>>

(* The node is published as the tail while its next pointer is what malloc *)
(* returned ...                                                            *)
InsertPublish(r) ==
  /\ pc[r] = "insert"
  /\ ~Cached(tok[r])
  /\ \A i \in DOMAIN chain : node[chain[i]].live
  /\ FreeBlocks # {}
  /\ \E u \in UsedBytes :
     LET a == CHOOSE b \in FreeBlocks : TRUE
     IN /\ node' = [node EXCEPT ![a] = [noNode EXCEPT !.tok = tok[r], !.live = TRUE, !.used = u]]
        /\ chain' = Append(chain, a)
        /\ ptr' = [ptr EXCEPT ![r] = a]
  /\ ReqGoto(r, "next")
  /\ UNCHANGED <<tick, prevTick, slot, lock, tok, stale, mainVars, memErr>>

(* ... and then set to null. *)
InsertNext(r) ==
  /\ pc[r] = "next"
  /\ node' = [node EXCEPT ![ptr[r]].linked = TRUE]
  /\ ReqGoto(r, "start")
  /\ UNCHANGED <<tick, prevTick, slot, chain, lock, tok, ptr, stale, mainVars, memErr>>

(* Fault: the function returns without the unlock. *)
StartRefused_KeepLock(r) ==
  /\ pc[r] = "start"
  /\ node[ptr[r]].used
  /\ node' = [node EXCEPT ![ptr[r]] = noNode]
  /\ Answer(r)
  /\ UNCHANGED <<tick, prevTick, slot, chain, lock, mainVars, memErr>>

(* comlib_timerTblStartTm refuses a node in use, and the node is freed     *)
(* while the hash table holds it ...                                       *)
StartRefused(r) ==
  /\ pc[r] = "start"
  /\ node[ptr[r]].used
  /\ Free(ptr[r])
  /\ ReqGoto(r, "unlock")
  /\ UNCHANGED <<tick, prevTick, slot, chain, lock, tok, ptr, mainVars, memErr>>

(* Fault: the term is left out. *)
StartRead_NoTerm(r) ==
  /\ pc[r] = "start"
  /\ ~node[ptr[r]].used
  /\ node' = [node EXCEPT ![ptr[r]].used = TRUE, ![ptr[r]].expTick = tick]
  /\ ReqGoto(r, "link")
  /\ UNCHANGED <<tick, prevTick, slot, chain, lock, tok, ptr, stale, mainVars, memErr>>

(* ... or reads the tick ... *)
StartRead(r) ==
  /\ pc[r] = "start"
  /\ ~node[ptr[r]].used
  /\ node' = [node EXCEPT ![ptr[r]].used = TRUE, ![ptr[r]].expTick = tick + ExpTm]
  /\ ReqGoto(r, "link")
  /\ UNCHANGED <<tick, prevTick, slot, chain, lock, tok, ptr, stale, mainVars, memErr>>

(* Fault: the slot comes from the tick, read again. *)
StartLink_TickAgain(r) ==
  /\ pc[r] = "link"
  /\ slot' = [slot EXCEPT ![SlotOf(tick + ExpTm)] = Append(@, ptr[r])]
  /\ ReqGoto(r, "unlock")
  /\ UNCHANGED <<tick, prevTick, chain, node, lock, tok, ptr, stale, mainVars, memErr>>

(* ... and makes the node the tail of the slot. *)
StartLink(r) ==
  LET s == SlotOf(node[ptr[r]].expTick)
  IN /\ pc[r] = "link"
     /\ slot' = [slot EXCEPT ![s] = Append(@, ptr[r])]
     /\ ReqGoto(r, "unlock")
     /\ UNCHANGED <<tick, prevTick, chain, node, lock, tok, ptr, stale, mainVars, memErr>>

WrUnlock(r) ==
  /\ pc[r] = "unlock"
  /\ lock' = NULL
  /\ Answer(r)
  /\ UNCHANGED <<tick, prevTick, slot, chain, node, mainVars, memErr>>

-----------------------------------------------------------------------------
(* The main loop and the timer handler *)

MainGoto(label) == mpc' = label

(* jump seconds go by; the bounds are on the time explored and on stalls.  *)
Elapse(jump) ==
  /\ tick + jump <= MaxTick
  /\ \A r \in Requests :
       pc[r] = "link" => tick + jump <= node[ptr[r]].expTick - ExpTm + MaxStall
  /\ tick' = tick + jump

(* sleep(1) is over, EXEC_TMR_TICK counts the seconds gone by. *)
ExecTmrTick ==
  /\ mpc = "sleep"
  /\ \E jump \in 1 .. MaxJump : Elapse(jump)
  /\ cur' = prevTick
  /\ MainGoto("tick")
  /\ UNCHANGED <<prevTick, cacheVars, reqVars, fired, nxt, memErr>>

(* comlib_timerTblHandler goes to the next slot, *)
NextTick ==
  /\ mpc = "tick"
  /\ cur < tick
  /\ cur' = cur + 1
  /\ fired' = FirstOf(slot[SlotOf(cur + 1)])
  /\ MainGoto(IF fired' = NULL THEN "tick" ELSE "node")
  /\ UNCHANGED <<tick, prevTick, cacheVars, reqVars, nxt, memErr>>

HandlerReturn ==
  /\ mpc = "tick"
  /\ cur = tick
  /\ prevTick' = cur
  /\ MainGoto("sleep")
  /\ UNCHANGED <<tick, cacheVars, reqVars, cur, fired, nxt, memErr>>

(* Fault: the rest of the slot is left out. *)
GoOn_FirstOnly(a) ==
  /\ fired' = NULL
  /\ nxt' = NULL
  /\ MainGoto("tick")

(* goes from node to node of the slot, *)
GoOn(a) ==
  /\ fired' = a
  /\ nxt' = NULL
  /\ MainGoto(IF a = NULL THEN "tick" ELSE "node")

(* and takes out the nodes that are due, whose event it executes.  A token *)
(* lives shorter than a lap of the wheel, so they all are: NoneMissed says *)
(* so, and the branch that passes over a node of a later lap is left out.  *)
VisitFire ==
  /\ mpc = "node"
  /\ node[fired].expTick = cur
  /\ nxt' = NextOf(slot[SlotOf(cur)], fired)
  /\ slot' = [slot EXCEPT ![SlotOf(cur)] = Without(@, fired)]
  /\ node' = [node EXCEPT ![fired].used = FALSE, ![fired].expTick = 0]
  /\ MainGoto("event")
  /\ UNCHANGED <<tick, prevTick, chain, lock, reqVars, cur, fired, memErr>>

(* rss_tmrEvtFunc takes the lock; the timer is cancelled already; *)
EvtLock ==
  /\ mpc = "event"
  /\ lock = NULL
  /\ lock' = Main
  /\ MainGoto("del")
  /\ UNCHANGED <<tick, prevTick, slot, chain, node, reqVars, cur, fired, nxt, memErr>>

(* comlib_hashTblDelHashNode takes the token out of the hash table, *)
EvtDel ==
  /\ mpc = "del"
  /\ chain' = Without(chain, fired)
  /\ MainGoto("free")
  /\ UNCHANGED <<tick, prevTick, slot, node, lock, reqVars, cur, fired, nxt, memErr>>

(* rss_tokenNodeDel frees the node, *)
EvtFree ==
  /\ mpc = "free"
  /\ Free(fired)
  /\ MainGoto("evt_unlock")
  /\ UNCHANGED <<tick, prevTick, slot, chain, lock, pc, tok, ptr, cur, fired, nxt, memErr>>

(* and the lock is reached through the freed node: its bytes are changed, *)
EvtBad ==
  /\ mpc = "evt_unlock"
  /\ memErr' = TRUE
  /\ UNCHANGED <<tick, prevTick, cacheVars, reqVars, mainVars>>

(* or still there, as no other token node can have taken its memory: that *)
(* needs the lock.                                                        *)
EvtUnlock ==
  /\ mpc = "evt_unlock"
  /\ lock' = NULL
  /\ GoOn(nxt)
  /\ UNCHANGED <<tick, prevTick, slot, chain, node, reqVars, cur, memErr>>

-----------------------------------------------------------------------------

Request(r) ==
  \/ FindBegin(r) \/ FindBad(r) \/ FindNext(r) \/ FindHit(r) \/ FindMiss(r)
  \/ AuthRefuse(r) \/ AuthAccept(r) \/ WrLock(r)
  \/ InsertBad(r) \/ InsertPublish(r) \/ InsertNext(r)
  \/ StartRefused(r) \/ StartRead(r) \/ StartLink(r) \/ WrUnlock(r)

MainLoop ==
  \/ ExecTmrTick \/ NextTick \/ HandlerReturn \/ VisitFire
  \/ EvtLock \/ EvtDel \/ EvtFree \/ EvtBad \/ EvtUnlock

Next == ~memErr /\ ((\E r \in Requests : Request(r)) \/ MainLoop)

Spec == Init /\ [][Next]_vars

(* Threads are scheduled, a request in progress as well as the main loop.  *)
(* A thread that waits for the lock takes it only if it stays free.        *)
Fairness ==
  /\ \A r \in Requests : WF_vars(~memErr /\ pc[r] # "idle" /\ Request(r))
  /\ WF_vars(~memErr /\ MainLoop)

FairSpec == Spec /\ Fairness

-----------------------------------------------------------------------------

reqSteps == {"idle", "find", "auth", "lock", "insert", "next", "start", "link", "unlock"}

TypeOK ==
  /\ tick \in 0 .. MaxTick /\ prevTick \in 0 .. tick /\ cur \in 0 .. tick
  /\ slot \in [SlotIds -> Seq(Addrs)]
  /\ chain \in Seq(Addrs)
  /\ node \in [Addrs -> [tok : Tokens \cup {NULL}, live : BOOLEAN, used : BOOLEAN,
                         expTick : Nat, linked : BOOLEAN]]
  /\ lock \in Requests \cup {Main, NULL}
  /\ pc \in [Requests -> reqSteps]
  /\ tok \in [Requests -> Tokens \cup {NULL}]
  /\ ptr \in [Requests -> Addrs \cup {NULL}]
  /\ stale \in [Requests -> BOOLEAN]
  /\ mpc \in {"sleep", "tick", "node", "event", "del", "free", "evt_unlock"}
  /\ fired \in Addrs \cup {NULL} /\ nxt \in Addrs \cup {NULL}
  /\ memErr \in BOOLEAN

Held(a) == \E r \in Requests : ptr[r] = a /\ pc[r] \in {"next", "start", "link"}

(* a is in the slot of its expiry, once, and in no other slot. *)
Timed(a) ==
  /\ Contains(slot[SlotOf(node[a].expTick)], a)
  /\ \A s, t \in SlotIds : \A i \in DOMAIN slot[s], j \in DOMAIN slot[t] :
       slot[s][i] = a /\ slot[t][j] = a => s = t /\ i = j

(* Every token in the hash table has its timer: its node is once in the    *)
(* timer table, in the slot of its expiry, unless a request is about to    *)
(* put it there or the main loop is about to remove it; and no node is     *)
(* lost, in neither table and not freed.  The two tables                   *)
(* are changed in separate steps of separate threads, one of them without  *)
(* the lock.                                                               *)
TablesAgree ==
  ~memErr =>
    /\ \A s \in SlotIds : \A i \in DOMAIN slot[s] : Contains(chain, slot[s][i])
    /\ \A a \in Addrs : node[a].live => Contains(chain, a) \/ (mpc = "free" /\ fired = a)
    /\ \A j \in DOMAIN chain :
         LET a == chain[j]
         IN \/ ~node[a].live
            \/ Held(a)
            \/ mpc \in {"event", "del"} /\ fired = a
            \/ Timed(a)

(* The handler misses no token, whatever the requests insert meanwhile:    *)
(* the nodes it comes to are due, and when the main loop sleeps none is in *)
(* the timer table past its expiry.                                        *)
NoneMissed ==
  ~memErr =>
    /\ mpc = "node" => node[fired].expTick = cur
    /\ mpc = "sleep" =>
         \A s \in SlotIds : \A i \in DOMAIN slot[s] : node[slot[s][i]].expTick > prevTick

(* The handler walks a slot without the lock: no request appends a node to *)
(* that slot meanwhile.                                                    *)
NoSlotRace ==
  \A r \in Requests :
    ~(pc[r] = "link" /\ mpc \in {"node", "event", "del", "free", "evt_unlock"}
      /\ SlotOf(node[ptr[r]].expTick) = SlotOf(cur))

(* A token is answered for without the authentication server only within   *)
(* its term: its timer is still to fire, by the tick the handler is at,    *)
(* unless the node is being inserted or the main thread is removing it.    *)
(* The search holds no lock and may have come to the node long before.     *)
HitIsFresh ==
  [][\A r \in Requests :
       FindHit(r) =>
         \/ Held(ptr[r])
         \/ mpc \in {"event", "del", "free"} /\ fired = ptr[r]
         \/ node[ptr[r]].expTick > cur
         \/ node[ptr[r]].expTick = cur /\ mpc \notin {"sleep", "tick"}]_vars

(* A token that is due leaves the cache: the requests release the lock its *)
(* removal waits for, on every path, and cannot keep it from the main loop *)
(* for ever, since nothing else removes what they insert.                  *)
DueIsRemoved == \A a \in Addrs : (mpc = "event" /\ fired = a) ~> (~node[a].live \/ memErr)

(* The two tables of the cache hold the same tokens, and none whose turn   *)
(* has passed (rss_auth.c, rss_token.c).                                   *)
CacheExact == TablesAgree /\ NoneMissed
=============================================================================
