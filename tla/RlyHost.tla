------------------------------ MODULE RlyHost ------------------------------
(***************************************************************************)
(* The hosts of rlylib (rlylibInt_host.c, rlylibInt_init.c,                *)
(* rlylibInt_dstry.c, rlylibInt_sync.c): a host is a peer with its         *)
(* connections and queues.  Host threads take hosts in turn from a list,   *)
(* serve each one under its own mutex, put it back, and destroy it when it *)
(* was deleted or had no connection for a while.  The program adds,        *)
(* deletes, sends and receives, and the accept thread attaches connections *)
(* of peers, making hosts it does not know.                                *)
(*                                                                         *)
(* The main mutex has two halves, rd and wr: a control operation takes     *)
(* both, a send wr, a receive rd.  Then come the mutex of the host main    *)
(* block, hostMain, and the mutex of a host.  Every mutex but the last one *)
(* that an operation needs is a step of its own; what it does with all of  *)
(* them is one step.                                                       *)
(*                                                                         *)
(* Connections are counted here (RlyLink has them): a host has at most one *)
(* of its own (dst), and acc that were accepted; open is openConnCnt, and  *)
(* the status of a host is that open is not 0.  Messages are counted too.  *)
(* hostMemErr says that a control block was used after it was freed.       *)
(***************************************************************************)
EXTENDS Integers, FiniteSets, SequencesExt

CONSTANTS
  Names,        \* host names
  Keys,         \* host keys of the peers: a peer that restarts has a new one
  Threads,      \* host threads
  Apps,         \* threads of the program
  Acpt,         \* the accept thread
  MaxHostCnt,   \* maxHostCnt
  FreeTmOut,    \* hostFreeTmOut, in ticks
  TqSize,       \* bound: messages in a queue of a host
  MaxCb,        \* bound: host control blocks made
  Programs      \* bound: what a program calls, how often, its condWaitFlg, and how many
                \* connections and ticks come

ASSUME HostAssumption ==
  /\ MaxHostCnt \in Nat \ {0} /\ FreeTmOut \in Nat /\ MaxCb \in Nat
  /\ Threads \cap Apps = {} /\ Acpt \notin Threads \cup Apps

VARIABLES
  uses,       \* the calls that the program makes
  condWait,   \* condWaitFlg
  hostCb,     \* host control blocks, by number
  tbl,        \* main block: hostLnkLst, hostCb, priHostId, last ids, hostCnt
  loopLst,    \* hostMainCb.hostLnkLst
  owner,      \* who holds each mutex
  proc,       \* what each thread does
  tick,       \* the current tick
  phase,      \* how far rlylibInt_dstryMainCb is
  left,       \* calls, accepted connections and ticks that are left
  passed,     \* history: sends to any since a ready host got one
  turned,     \* history: lastSndHostId was reset late, and not set since
  hostMemErr

hostVars == <<uses, condWait, hostCb, tbl, loopLst, owner, proc, tick, phase, left, passed, turned,
              hostMemErr>>

Cbs   == 1 .. MaxCb
Slots == 0 .. MaxHostCnt - 1
Procs == Threads \cup Apps \cup {Acpt}
Rd       == <<"rd", 0>>
Wr       == <<"wr", 0>>
HostMain == <<"hostMain", 0>>
HostMutx(c) == <<"hostCb", c>>
Mutxs == {Rd, Wr, HostMain} \cup {HostMutx(c) : c \in Cbs}

None == "none"
(* asked is history: a delete was accepted. *)
noCb == [made |-> FALSE, live |-> FALSE, host |-> None, id |-> 0, key |-> None, dst |-> None,
         acc |-> 0, open |-> 0, enb |-> FALSE, freeTmFlg |-> FALSE, freeTm |-> 0,
         dstry |-> FALSE, ctrl |-> 0, asked |-> FALSE, snd |-> 0, rcv |-> 0]
At(pc) == [pc |-> pc, op |-> None, host |-> None, key |-> None, got |-> 0, cb |-> 0, cur |-> 0]

HostInit ==
  /\ \E prog \in Programs :
       /\ uses = prog.uses
       /\ left = [call |-> prog.call, init |-> prog.init, tick |-> prog.tick]
       /\ condWait = prog.wait
  /\ hostCb = [c \in Cbs |-> noCb]
  /\ tbl = [main |-> << >>, slot |-> [i \in Slots |-> 0],
            pri |-> 0, lastRcv |-> 0, lastSnd |-> 0, cnt |-> 0]
  /\ loopLst = << >>
  /\ owner = [m \in Mutxs |-> None]
  /\ proc = [p \in Procs |-> At(IF p \in Threads THEN "pop" ELSE "idle")]
  /\ tick = 0
  /\ phase = "run"
  /\ passed = [c \in Cbs |-> 0]
  /\ turned = FALSE
  /\ hostMemErr = FALSE

(* The control block of a name in the hash table of hosts, or 0. *)
Find(h) == IF \E c \in ToSet(tbl.main) : hostCb[c].host = h
             THEN CHOOSE c \in ToSet(tbl.main) : hostCb[c].host = h ELSE 0

Open(c) == hostCb[c].open # 0
Conns(c) == hostCb[c].acc + (IF hostCb[c].dst = "open" THEN 1 ELSE 0)

(* The place of c in hostLnkLst, and the host after it, going round. *)
Place(lst, c) == CHOOSE i \in DOMAIN lst : lst[i] = c
NextHost(lst, c) == lst[(Place(lst, c) % Len(lst)) + 1]

(* The control block that a kept id stands for, or the first one. *)
Kept(id) == IF tbl.slot[id] # 0 THEN tbl.slot[id] ELSE tbl.main[1]

(* hostLnkLst from c on, going round. *)
From(c) ==
  LET i == Place(tbl.main, c)
  IN SubSeq(tbl.main, i, Len(tbl.main)) \o SubSeq(tbl.main, 1, i - 1)

-----------------------------------------------------------------------------
(* Mutexes *)

Base(op) ==
  CASE op \in {"add", "acpt", "attach"}              -> <<Rd, Wr, HostMain>>
    [] op \in {"del", "setPri", "addConn", "dstry"}  -> <<Rd, Wr>>
    [] op \in {"sndAny", "sndPri", "sndHost"}        -> <<Wr>>
    [] op \in {"rcvAny", "rcvHost"}                  -> <<Rd>>

FreeSlots == {i \in Slots : tbl.slot[i] = 0}

(* The host to which a connection of that name goes: when the name is new  *)
(* and no slot is free, the id of the host stays 0 and slot 0 gets it.     *)
Target(h) == IF Find(h) = 0 /\ FreeSlots = {} THEN tbl.slot[0] ELSE Find(h)

(* The mutexes that a call takes, in this order. *)
Needs(p) ==
  LET c == CASE proc[p].op \in {"acpt", "addConn"} -> Find(proc[p].host)
             [] proc[p].op = "attach"            -> Target(proc[p].host)
             [] OTHER                            -> 0
  IN IF c = 0 THEN Base(proc[p].op) ELSE Append(Base(proc[p].op), HostMutx(c))

Wants(p) == Needs(p)[proc[p].got + 1]

Take(p) ==
  /\ proc[p].pc = "lock"
  /\ proc[p].got + 1 < Len(Needs(p))
  /\ owner[Wants(p)] = None
  /\ owner' = [owner EXCEPT ![Wants(p)] = p]
  /\ proc' = [proc EXCEPT ![p].got = @ + 1]
  /\ UNCHANGED <<uses, condWait, hostCb, tbl, loopLst, tick, phase, left,
                 passed, turned, hostMemErr>>

(* All mutexes but the last are held and the last one is free. *)
Holds(p, op) ==
  /\ proc[p].pc = "lock"
  /\ proc[p].op = op
  /\ proc[p].got + 1 = Len(Needs(p))
  /\ owner[Wants(p)] = None

(* A host thread at the top of its loop, where it reads the time. *)
Top == [At("pop") EXCEPT !.cur = tick]

(* Fault: the mutex of the host main block stays locked. *)
Release_Main(p) == [m \in Mutxs |-> IF owner[m] = p /\ m # HostMain THEN None ELSE owner[m]]

Release(p) == [m \in Mutxs |-> IF owner[m] = p THEN None ELSE owner[m]]

(* The call returns. *)
Return(p) ==
  /\ owner' = Release(p)
  /\ proc' = [proc EXCEPT ![p] = IF p \in Threads THEN Top ELSE At("idle")]

-----------------------------------------------------------------------------
(* Making and destroying hosts *)

FirstFree == CHOOSE i \in FreeSlots : \A j \in FreeSlots : i =< j
NewCbs == {c \in Cbs : ~hostCb[c].made}
NewCb  == CHOOSE c \in NewCbs : \A d \in NewCbs : c =< d

(* rlylibInt_hostMakeHostCb, when a slot is free. *)
MakeTbl(c) ==
  LET i == FirstFree
      slots == [tbl.slot EXCEPT ![i] = c]
  IN [main |-> Append(tbl.main, c), slot |-> slots,
      pri |-> IF slots[tbl.pri] = 0 THEN i ELSE tbl.pri,
      lastRcv |-> i, lastSnd |-> i, cnt |-> tbl.cnt + 1]

MakeCb(h, key, enb) == [noCb EXCEPT
  !.made = TRUE, !.live = TRUE, !.host = h, !.id = FirstFree, !.key = key, !.enb = enb]

(* rlylibInt_hostDstryHostCb: an id kept for the host goes to the first.   *)
DstryTbl(c) ==
  LET main == RemoveAt(tbl.main, Place(tbl.main, c))
      other(id) == IF id # hostCb[c].id THEN id
                   ELSE IF main = << >> THEN 0 ELSE hostCb[main[1]].id
  IN [main |-> main, slot |-> [tbl.slot EXCEPT ![hostCb[c].id] = 0],
      pri |-> other(tbl.pri), lastRcv |-> other(tbl.lastRcv), lastSnd |-> other(tbl.lastSnd),
      cnt |-> tbl.cnt - 1]

(* RLYLIB_INC_OPEN_CONN_CNT and RLYLIB_DEC_OPEN_CONN_CNT *)
IncOpen(cb) == [cb EXCEPT !.open = @ + 1, !.freeTmFlg = FALSE]
DecOpen(cb) ==
  IF cb.open = 1 /\ cb.enb
    THEN [cb EXCEPT !.open = 0, !.freeTmFlg = TRUE, !.freeTm = tick]
    ELSE [cb EXCEPT !.open = @ - 1]

-----------------------------------------------------------------------------
(* The program *)

Call(a, op, h) ==
  /\ ~hostMemErr
  /\ phase = "run"
  /\ proc[a].pc = "idle"
  /\ op \in uses
  /\ left.call > 0
  /\ proc' = [proc EXCEPT ![a] = [At("lock") EXCEPT !.op = op, !.host = h]]
  /\ left' = [left EXCEPT !.call = @ - 1]
  /\ UNCHANGED <<uses, condWait, hostCb, tbl, loopLst, owner, tick, phase,
                 passed, turned, hostMemErr>>

(* rlylibInt_hostAddHost: a name that is known has the call lock hostMain, *)
(* which it holds, once more.  Whether the host may be freed is an option. *)
AddHost(a) ==
  /\ Holds(a, "add")
  /\ CASE Find(proc[a].host) # 0 ->
            /\ owner' = [owner EXCEPT ![Wants(a)] = a]
            /\ proc' = [proc EXCEPT ![a].pc = "relock"]
            /\ UNCHANGED <<hostCb, tbl, loopLst, passed, turned>>
       [] Find(proc[a].host) = 0 /\ FreeSlots = {} ->
            /\ Return(a)
            /\ UNCHANGED <<hostCb, tbl, loopLst, passed, turned>>
       [] OTHER ->
            /\ NewCbs # {}
            /\ \E enb \in BOOLEAN :
                 hostCb' = [hostCb EXCEPT ![NewCb] = MakeCb(proc[a].host, None, enb)]
            /\ tbl' = MakeTbl(NewCb)
            /\ loopLst' = Append(loopLst, NewCb)
            /\ passed' = [c \in Cbs |-> 0]
            /\ turned' = FALSE
            /\ Return(a)
  /\ UNCHANGED <<uses, condWait, tick, phase, left, hostMemErr>>

(* rlylibInt_hostDelHost asks for it in the control queue of the host. *)
DelHost(a) ==
  /\ Holds(a, "del")
  /\ LET c == Find(proc[a].host)
     IN hostCb' = IF c = 0 THEN hostCb ELSE [hostCb EXCEPT ![c].ctrl = @ + 1, ![c].asked = TRUE]
  /\ Return(a)
  /\ UNCHANGED <<uses, condWait, tbl, loopLst, tick, phase, left, passed, turned, hostMemErr>>

SetPriHost(a) ==
  /\ Holds(a, "setPri")
  /\ LET c == Find(proc[a].host)
     IN tbl' = IF c = 0 THEN tbl ELSE [tbl EXCEPT !.pri = hostCb[c].id]
  /\ Return(a)
  /\ UNCHANGED <<uses, condWait, hostCb, loopLst, tick, phase, left, passed, turned, hostMemErr>>

AddConn(a) ==
  /\ Holds(a, "addConn")
  /\ LET c == Find(proc[a].host)
     IN hostCb' = IF c = 0 \/ hostCb[c].dst # None THEN hostCb
                  ELSE [hostCb EXCEPT ![c].dst = "closed"]
  /\ Return(a)
  /\ UNCHANGED <<uses, condWait, tbl, loopLst, tick, phase, left, passed, turned, hostMemErr>>

Room(c) == hostCb[c].snd < TqSize
Ready(c) == Open(c) /\ Room(c)

(* HOST_SND_MSG_TO_ANY_HOST: the first open host from c on with room for   *)
(* the message, else c, else none (0).                                     *)
Route(c) ==
  LET ring == From(c)
      ready == {i \in DOMAIN ring : Ready(ring[i])}
  IN IF ready # {} THEN ring[CHOOSE i \in ready : \A j \in ready : i =< j]
     ELSE IF Room(c) THEN c ELSE 0

Push(c) == IF c = 0 THEN hostCb ELSE [hostCb EXCEPT ![c].snd = @ + 1]

(* Fault: the next send starts after the host that got the message. *)
NextSnd_Same(c) == c

(* Where the next send to any starts: after the host where this one did. *)
NextSnd(c) == NextHost(tbl.main, c)

(* Without a host the call releases wr first, and then resets the id.      *)
SndAny(a) ==
  /\ Holds(a, "sndAny")
  /\ IF tbl.main = << >>
       THEN /\ owner' = Release(a)
            /\ proc' = [proc EXCEPT ![a].pc = "reset"]
            /\ UNCHANGED <<hostCb, tbl, passed, turned>>
       ELSE LET start == Kept(tbl.lastSnd)
                to == Route(start)
            IN /\ hostCb' = Push(to)
               /\ tbl' = [tbl EXCEPT !.lastSnd = hostCb[NextSnd(start)].id]
               /\ passed' = [c \in Cbs |->
                    IF c = to \/ c \notin ToSet(tbl.main) \/ ~Ready(c) THEN 0 ELSE passed[c] + 1]
               /\ turned' = FALSE
               /\ Return(a)
  /\ UNCHANGED <<uses, condWait, loopLst, tick, phase, left, hostMemErr>>

(* Whatever hosts there are by then: the round starts anew. *)
SndReset(a) ==
  /\ proc[a].pc = "reset"
  /\ tbl' = [tbl EXCEPT !.lastSnd = 0]
  /\ proc' = [proc EXCEPT ![a] = At("idle")]
  /\ passed' = [c \in Cbs |-> 0]
  /\ turned' = TRUE
  /\ UNCHANGED <<uses, condWait, hostCb, loopLst, owner, tick, phase, left, hostMemErr>>

SndPri(a, faFlg) ==
  /\ Holds(a, "sndPri")
  /\ IF tbl.main = << >> THEN UNCHANGED hostCb
     ELSE LET start == Kept(tbl.pri)
          IN hostCb' = Push(IF faFlg THEN Route(start) ELSE IF Room(start) THEN start ELSE 0)
  /\ Return(a)
  /\ UNCHANGED <<uses, condWait, tbl, loopLst, tick, phase, left, passed, turned, hostMemErr>>

(* By name or by id.  When no buffer can be made the call returns with wr  *)
(* locked.                                                                 *)
SndHost(a, bufOk) ==
  /\ Holds(a, "sndHost")
  /\ IF bufOk
       THEN LET c == Find(proc[a].host)
            IN /\ hostCb' = Push(IF c # 0 /\ Room(c) THEN c ELSE 0)
               /\ Return(a)
       ELSE /\ owner' = [owner EXCEPT ![Wr] = "leaked"]
            /\ proc' = [proc EXCEPT ![a] = At("idle")]
            /\ UNCHANGED hostCb
  /\ UNCHANGED <<uses, condWait, tbl, loopLst, tick, phase, left, passed, turned, hostMemErr>>

(* The call has rd, at first or after a signal or an interval of its wait. *)
Receives(a, op) ==
  \/ Holds(a, op)
  \/ proc[a].pc = "wait" /\ proc[a].op = op /\ owner[Rd] = None

(* rlylibInt_hostRcvMsgFromAny: the first host with a message, from the    *)
(* last one on; without any, the node at which the walk ended is kept over *)
(* the wait.                                                               *)
RcvAny(a) ==
  /\ Receives(a, "rcvAny")
  /\ IF tbl.main = << >> THEN Return(a) /\ UNCHANGED <<hostCb, tbl>>
     ELSE LET ring == From(Kept(tbl.lastRcv))
              some == {i \in DOMAIN ring : hostCb[ring[i]].rcv > 0}
              end  == ring[(MaxHostCnt % Len(ring)) + 1]
          IN IF some # {}
               THEN LET c == ring[CHOOSE i \in some : \A j \in some : i =< j]
                    IN /\ hostCb' = [hostCb EXCEPT ![c].rcv = @ - 1]
                       /\ tbl' = [tbl EXCEPT !.lastRcv = hostCb[NextHost(tbl.main, c)].id]
                       /\ Return(a)
               ELSE IF condWait
                 THEN /\ owner' = Release(a)
                      /\ proc' = [proc EXCEPT ![a].pc = "wait", ![a].cb = end]
                      /\ UNCHANGED <<hostCb, tbl>>
                 ELSE /\ tbl' = [tbl EXCEPT !.lastRcv = hostCb[NextHost(tbl.main, end)].id]
                      /\ Return(a)
                      /\ UNCHANGED hostCb
  /\ UNCHANGED <<uses, condWait, loopLst, tick, phase, left, passed, turned, hostMemErr>>

RcvHost(a) ==
  /\ Receives(a, "rcvHost")
  /\ LET c == Find(proc[a].host)
     IN CASE c # 0 /\ hostCb[c].rcv > 0 ->
               hostCb' = [hostCb EXCEPT ![c].rcv = @ - 1] /\ Return(a)
          [] c # 0 /\ hostCb[c].rcv = 0 /\ condWait ->
               /\ owner' = Release(a)
               /\ proc' = [proc EXCEPT ![a].pc = "wait"]
               /\ UNCHANGED hostCb
          [] OTHER -> Return(a) /\ UNCHANGED hostCb
  /\ UNCHANGED <<uses, condWait, tbl, loopLst, tick, phase, left, passed, turned, hostMemErr>>

(* The time is over.  A receive from any follows the node that it kept.    *)
WaitEnd(a) ==
  /\ proc[a].pc = "wait"
  /\ owner[Rd] = None
  /\ LET c == proc[a].cb
     IN IF c = 0 THEN UNCHANGED <<tbl, hostMemErr>>
        ELSE IF hostCb[c].live
          THEN /\ tbl' = [tbl EXCEPT !.lastRcv = hostCb[NextHost(tbl.main, c)].id]
               /\ UNCHANGED hostMemErr
          ELSE hostMemErr' = TRUE /\ UNCHANGED tbl
  /\ proc' = [proc EXCEPT ![a] = At("idle")]
  /\ UNCHANGED <<uses, condWait, hostCb, loopLst, owner, tick, phase, left, passed, turned>>

-----------------------------------------------------------------------------
(* The accept thread *)

(* An INIT_REQ was read. *)
InitReq(h, key) ==
  /\ ~hostMemErr
  /\ phase = "run"
  /\ proc[Acpt].pc = "idle"
  /\ left.init > 0
  /\ proc' = [proc EXCEPT ![Acpt] = [At("lock") EXCEPT !.op = "acpt", !.host = h, !.key = key]]
  /\ left' = [left EXCEPT !.init = @ - 1]
  /\ UNCHANGED <<uses, condWait, hostCb, tbl, loopLst, owner, tick, phase,
                 passed, turned, hostMemErr>>

Attach(cb) == IncOpen([cb EXCEPT !.acc = @ + 1])

(* A new key of a known host frees its connections, and does not count     *)
(* them down.                                                              *)
Cleared(cb, key) == IF cb.key = key THEN cb
                    ELSE [cb EXCEPT !.key = key, !.acc = 0, !.dst = None]

(* rlylibInt_hostAcptHostCb: the host is made or known.  Its mutex is free *)
(* again before the connection is attached, the others are kept.           *)
AcptHost ==
  /\ Holds(Acpt, "acpt")
  /\ LET c == Find(proc[Acpt].host)
         key == proc[Acpt].key
     IN CASE c # 0 ->
               /\ hostCb' = [hostCb EXCEPT ![c] = Cleared(@, key)]
               /\ UNCHANGED <<tbl, loopLst, passed, turned>>
          [] c = 0 /\ FreeSlots = {} ->
               UNCHANGED <<hostCb, tbl, loopLst, passed, turned>>
          [] OTHER ->
               /\ NewCbs # {}
               /\ hostCb' = [hostCb EXCEPT ![NewCb] = MakeCb(proc[Acpt].host, key, TRUE)]
               /\ tbl' = MakeTbl(NewCb)
               /\ loopLst' = Append(loopLst, NewCb)
               /\ passed' = [d \in Cbs |-> 0]
               /\ turned' = FALSE
  /\ owner' = [owner EXCEPT ![HostMain] = Acpt]
  /\ proc' = [proc EXCEPT ![Acpt].op = "attach", ![Acpt].got = 3]
  /\ UNCHANGED <<uses, condWait, tick, phase, left, hostMemErr>>

(* rlylibInt_hostAddAcptConnCb *)
AcptConn ==
  /\ Holds(Acpt, "attach")
  /\ hostCb' = [hostCb EXCEPT ![Target(proc[Acpt].host)] = Attach(@)]
  /\ Return(Acpt)
  /\ UNCHANGED <<uses, condWait, tbl, loopLst, tick, phase, left, passed, turned, hostMemErr>>

-----------------------------------------------------------------------------
(* The host threads: rlylibInt_hostThrdMain *)

(* Fault: the host stays in the list while the thread serves it. *)
Popped_Peek == loopLst

Popped == Tail(loopLst)

(* curTick - freeTm of unsigned numbers: more than any time-out when the   *)
(* host was armed after the time was read.                                 *)
Overdue(cur, cb) == cur < cb.freeTm \/ cur - cb.freeTm >= FreeTmOut

(* The first host of the loop list, unless the thread shall end; its flags *)
(* are read without a mutex, and compared with the time that was read at   *)
(* the top of the loop, before the thread slept and waited for the mutex.  *)
ThrdPop(t) ==
  /\ ~hostMemErr
  /\ proc[t].pc = "pop"
  /\ owner[HostMain] = None
  /\ CASE phase = "threads" ->
            proc' = [proc EXCEPT ![t] = At("exit")] /\ UNCHANGED loopLst
       [] phase # "threads" /\ loopLst = << >> ->
            proc' = [proc EXCEPT ![t].cur = tick] /\ UNCHANGED loopLst
       [] OTHER ->
            /\ LET cb == hostCb[loopLst[1]]
                   go == cb.dstry \/ (cb.freeTmFlg /\ Overdue(proc[t].cur, cb))
               IN proc' = [proc EXCEPT ![t] = [At(IF go THEN "lock" ELSE "serve") EXCEPT
                             !.op = IF go THEN "dstry" ELSE None, !.cb = loopLst[1]]]
            /\ loopLst' = Popped
  /\ UNCHANGED <<uses, condWait, hostCb, tbl, owner, tick, phase, left, passed, turned, hostMemErr>>

(* Whatever the flags have become meanwhile. *)
ThrdDstry(t) ==
  /\ Holds(t, "dstry")
  /\ LET c == proc[t].cb
     IN /\ hostCb' = [hostCb EXCEPT ![c] = [noCb EXCEPT !.made = TRUE]]
        /\ tbl' = DstryTbl(c)
  /\ passed' = [c \in Cbs |-> 0]
  /\ Return(t)
  /\ UNCHANGED <<uses, condWait, loopLst, tick, phase, left, turned, hostMemErr>>

(* Fault: the first control message is dropped. *)
CtrlSnd_Lost(cb) == [cb EXCEPT !.dstry = @ \/ cb.ctrl > 1, !.ctrl = 0, !.snd = 0]

(* host_chkCtrlMsg; host_chkSndMsg empties the send queue, to a connection *)
(* or, without one, by dropping what is older than msgDropTmOut (0).       *)
CtrlSnd(cb) == [cb EXCEPT !.dstry = @ \/ cb.ctrl > 0,
                          !.ctrl = IF @ > 0 THEN @ - 1 ELSE 0, !.snd = 0]

(* host_chkAllConn: nothing, or a connection opens, one closes, or a       *)
(* message arrives.                                                        *)
ConnEvents(cb) ==
  LET closing == left.tick >= FreeTmOut
      event(when, next) == IF when THEN {next} ELSE {}
  IN {cb}
     \cup event(cb.dst = "closed", IncOpen([cb EXCEPT !.dst = "open"]))
     \cup event(cb.dst = "open" /\ closing, DecOpen([cb EXCEPT !.dst = "closed"]))
     \cup event(cb.acc > 0 /\ closing, DecOpen([cb EXCEPT !.acc = @ - 1]))
     \cup event(cb.acc > 0 /\ cb.rcv < TqSize /\ uses \cap {"rcvAny", "rcvHost"} # {},
                [cb EXCEPT !.rcv = @ + 1])

(* One round over the host, with its mutex. *)
ThrdServe(t) ==
  /\ proc[t].pc = "serve"
  /\ owner[HostMutx(proc[t].cb)] \in {None, t}
  /\ \E cb \in ConnEvents(CtrlSnd(hostCb[proc[t].cb])) :
       hostCb' = [hostCb EXCEPT ![proc[t].cb] = cb]
  /\ owner' = Release(t)
  /\ proc' = [proc EXCEPT ![t].pc = "put"]
  /\ UNCHANGED <<uses, condWait, tbl, loopLst, tick, phase, left, passed, turned, hostMemErr>>

(* The peer does not read: the thread tries to write until it does. *)
ThrdStall(t) ==
  /\ proc[t].pc = "serve"
  /\ LET c == proc[t].cb
     IN /\ owner[HostMutx(c)] = None
        /\ Conns(c) > 0 /\ hostCb[c].snd > 0
        /\ owner' = [owner EXCEPT ![HostMutx(c)] = t]
  /\ UNCHANGED <<uses, condWait, hostCb, tbl, loopLst, proc, tick, phase, left,
                 passed, turned, hostMemErr>>

ThrdPut(t) ==
  /\ proc[t].pc = "put"
  /\ owner[HostMain] = None
  /\ loopLst' = Append(loopLst, proc[t].cb)
  /\ proc' = [proc EXCEPT ![t] = Top]
  /\ UNCHANGED <<uses, condWait, hostCb, tbl, owner, tick, phase, left, passed, turned, hostMemErr>>

Tick ==
  /\ ~hostMemErr
  /\ left.tick > 0
  /\ left' = [left EXCEPT !.tick = @ - 1]
  /\ tick' = tick + 1
  /\ UNCHANGED <<uses, condWait, hostCb, tbl, loopLst, owner, proc, phase, passed, turned,
                 hostMemErr>>

-----------------------------------------------------------------------------
(* rlylibInt_dstryMainCb *)

(* termSig for the accept thread; no call is under way. *)
DstryMain ==
  /\ ~hostMemErr
  /\ phase = "run"
  /\ \A a \in Apps : proc[a].pc = "idle"
  /\ phase' = "acpt"
  /\ UNCHANGED <<uses, condWait, hostCb, tbl, loopLst, owner, proc, tick, left,
                 passed, turned, hostMemErr>>

(* The accept thread has ended: termFlg for the host threads. *)
DstryThrds ==
  /\ phase = "acpt"
  /\ proc[Acpt].pc = "idle"
  /\ phase' = "threads"
  /\ UNCHANGED <<uses, condWait, hostCb, tbl, loopLst, owner, proc, tick, left,
                 passed, turned, hostMemErr>>

(* rlylibInt_hostDstryAll frees the hosts of the loop list. *)
DstryAll ==
  /\ phase = "threads"
  /\ \A t \in Threads : proc[t].pc = "exit"
  /\ owner[HostMain] = None
  /\ hostCb' = [c \in Cbs |-> IF c \in ToSet(loopLst) THEN [noCb EXCEPT !.made = TRUE]
                               ELSE hostCb[c]]
  /\ loopLst' = << >>
  /\ phase' = "done"
  /\ UNCHANGED <<uses, condWait, tbl, owner, proc, tick, left, passed, turned, hostMemErr>>

-----------------------------------------------------------------------------
Thrd(t) == ThrdPop(t) \/ ThrdDstry(t) \/ ThrdServe(t) \/ ThrdPut(t)

Body(a) ==
  \/ AddHost(a) \/ DelHost(a) \/ SetPriHost(a) \/ AddConn(a) \/ SndAny(a)
  \/ SndReset(a)
  \/ \E faFlg \in BOOLEAN : SndPri(a, faFlg)
  \/ \E bufOk \in BOOLEAN : SndHost(a, bufOk)
  \/ RcvAny(a) \/ RcvHost(a)

HostNext ==
  \/ \E p \in Procs : Take(p)
  \/ \E a \in Apps :
       \/ \E h \in Names :
            \E op \in {"add", "del", "setPri", "addConn", "sndHost", "rcvHost"} : Call(a, op, h)
       \/ \E op \in {"sndAny", "sndPri", "rcvAny"} : Call(a, op, None)
       \/ Body(a) \/ WaitEnd(a)
  \/ \E h \in Names, key \in Keys : InitReq(h, key)
  \/ AcptHost \/ AcptConn
  \/ \E t \in Threads : Thrd(t) \/ ThrdStall(t)
  \/ Tick
  \/ DstryMain \/ DstryThrds \/ DstryAll

(* The threads run, no one is passed over for ever for a mutex, a wait     *)
(* ends, a peer that does not read will again, time passes.  A call may be *)
(* made or not.                                                            *)
HostFairness ==
  /\ \A a \in Apps : SF_hostVars(Take(a) \/ Body(a)) /\ WF_hostVars(WaitEnd(a))
  /\ SF_hostVars(Take(Acpt) \/ AcptHost \/ AcptConn)
  /\ \A t \in Threads : SF_hostVars(Take(t) \/ Thrd(t))
  /\ WF_hostVars(Tick)
  /\ WF_hostVars(DstryThrds \/ DstryAll)

HostSpec == HostInit /\ [][HostNext]_hostVars /\ HostFairness

-----------------------------------------------------------------------------
(* Properties *)

(* The thread that took a host off the loop list. *)
Keepers(c) == {t \in Threads : proc[t].cb = c}

(* The tables of the hosts agree: a host is in the list, in the slot of    *)
(* its id and under its name, all or none, and counted; it waits in the    *)
(* loop list or is with one thread, never both or twice, so that no thread *)
(* serves or frees a host that another one has; and the ids kept for the   *)
(* primary and the last hosts stand for hosts as long as there are any,    *)
(* but for the id of the last send after a late reset.                     *)
TablesAgree ==
  phase # "done" =>
  LET live == {c \in Cbs : hostCb[c].live}
  IN /\ ToSet(tbl.main) = live /\ Len(tbl.main) = Cardinality(live)
     /\ tbl.cnt = Cardinality(live)
     /\ {i \in Slots : tbl.slot[i] # 0} = {hostCb[c].id : c \in live}
     /\ \A c \in live :
          /\ tbl.slot[hostCb[c].id] = c
          /\ \A d \in live : hostCb[c].host = hostCb[d].host => c = d
          /\ IF c \in ToSet(loopLst) THEN Keepers(c) = {} ELSE Cardinality(Keepers(c)) = 1
     /\ IsInjective(loopLst) /\ ToSet(loopLst) \subseteq live
     /\ \A t \in Threads : proc[t].cb # 0 => proc[t].cb \in live
     /\ live # {} => \A id \in {tbl.pri, tbl.lastRcv} : tbl.slot[id] # 0
     /\ live # {} /\ ~turned => tbl.slot[tbl.lastSnd] # 0

(* Only a receive that waits on a condition uses a host that was freed; a  *)
(* host that is armed to be freed has no connection; and no host is left   *)
(* when the library has ended.                                             *)
FreedUnused ==
  /\ hostMemErr => condWait
  /\ \A c \in Cbs : hostCb[c].live =>
       /\ phase # "done"
       /\ hostCb[c].open >= Conns(c)
       /\ hostCb[c].freeTmFlg => Conns(c) = 0

(* Sends to any go round: a host that stays open with room for messages is *)
(* passed over by fewer of them than there are hosts, from one late reset  *)
(* of the round to the next.                                               *)
RoundRobin == \A c \in ToSet(tbl.main) : passed[c] < Len(tbl.main)

(* The two calls that leave a mutex locked. *)
Stuck == \/ hostMemErr
         \/ owner[Wr] = "leaked"
         \/ \E a \in Apps : proc[a].pc = "relock"

(* Every call returns, every INIT_REQ is answered, and the end of the      *)
(* library comes to its end, unless a call left a mutex locked: the calls  *)
(* are finitely many, so in the end no one waits.                          *)
CallsReturn ==
  <>[](Stuck \/ (phase \in {"run", "done"} /\ \A p \in Apps \cup {Acpt} : proc[p].pc = "idle"))

(* A host that was deleted goes, and so does one that has no connection    *)
(* any more: in the end there is none.                                     *)
HostsGo ==
  <>[](\/ Stuck \/ phase # "run"
       \/ \A c \in Cbs : ~hostCb[c].asked /\ ~hostCb[c].freeTmFlg)

(* The levels of the mutex tree. *)
Level(m) == CASE m = Rd -> 1 [] m = Wr -> 2 [] m = HostMain -> 3 [] OTHER -> 4

Asks(p, m) == \/ proc[p].pc = "lock" /\ m = Wants(p)
              \/ proc[p].pc = "relock" /\ m = HostMain

(* "mutex tree, level 1 mainCb, level 2 hostMainCb, level 3 hostCb": a     *)
(* thread asks only for mutexes below those that it holds.                 *)
LockOrder ==
  \A p \in Procs : \A m, k \in Mutxs : owner[m] = p /\ Asks(p, k) => Level(m) < Level(k)

(* The list, the id table, the names and the loop list stand for the same  *)
(* hosts, and no host that was freed is used (rlylibInt_host.c).           *)
HostsExact == TablesAgree /\ FreedUnused
=============================================================================
