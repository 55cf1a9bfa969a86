------------------------------ MODULE RlyLink ------------------------------
(***************************************************************************)
(* The connections of a host of rlylib, seen from both ends: a client that *)
(* opens connections to a server (rlylibInt_host.c: chkAllConn, rcvConnMsg,*)
(* connOpenChk, chkSndMsg; rlylibInt_acpt.c).  A pass over a host first    *)
(* sends what waits, then looks at each connection: it reads, checks the   *)
(* age of what was last received, and handles the timer.  The mutex of the *)
(* host is held over the pass, so that the accept thread attaches between  *)
(* passes; the other end works meanwhile.                                  *)
(*                                                                         *)
(* A pass reads the tick once, before it looks at the connections; time    *)
(* may go on meanwhile.  Messages are whole here: an init request with the *)
(* key of the client, its answer, a heartbeat, or data.  Times are         *)
(* relative to the current tick: a timer has the ticks that are left, a    *)
(* connection the ticks since its last sign of life, a pass the ticks      *)
(* since it read the tick.  fd 0, the descriptor of a closed connection,   *)
(* is the standard input of the process.                                   *)
(***************************************************************************)
EXTENDS Integers, FiniteSets, SequencesExt

CONSTANTS
  Socks,      \* bound: connections of the network at a time, numbers from 1
  ConnCnt,    \* connections that the client has to the server
  Stdin,      \* whether a write to fd 0 succeeds: a subset of BOOLEAN
  ConnTm, InitTm, HBeatSndTm, HBeatTm,   \* tmrInfo, in ticks
  MaxConn,    \* bound: connections that the server has had
  MaxMsg,     \* bound: messages sent by both ends together
  MaxFault    \* bound: cuts, restarts, late ticks, full receive queues, ticks in a pass

ASSUME LinkAssumption ==
  /\ Socks \subseteq Nat \ {0} /\ ConnCnt \in Nat \ {0}
  /\ ConnTm \in Nat \ {0} /\ InitTm \in Nat \ {0}
  /\ HBeatSndTm \in Nat \ {0} /\ HBeatTm \in Nat \ {0}
  /\ MaxConn \in Nat /\ MaxMsg \in Nat /\ MaxFault \in Nat
  /\ Stdin \subseteq BOOLEAN

VARIABLES
  conns,    \* connLst of each end
  openCnt,  \* openConnCnt of each end
  pos,      \* the connection that the pass is at, 0 before it sends, then ReadsTick
  lag,      \* the ticks since the pass read the tick
  sndTq,    \* send queue of each end
  rcvd,     \* history: the data that each end got
  sent,     \* how many messages each program sent
  sock,     \* the network
  acking,   \* the socket to which the accept thread owes an answer, or 0
  key,      \* the key of the client, and the one that the server knows
  served,   \* the ends that made a pass since the last tick
  faultCnt,   \* faults that are left
  late,     \* history: a tick came late
  stale,    \* history: counted connections that a new key freed
  calm,     \* history: no fault yet that may lose data
  sure,     \* history: data sent while calm, over what NoLoss is about
  ahead,    \* history: a pass found a sign of life that came after its tick
  tooOld    \* history: a connection was closed as silent that was not cut

linkVars == <<conns, openCnt, pos, lag, sndTq, rcvd, sent, sock, acking, key, served,
              faultCnt, late, calm, stale, ahead, tooOld, sure>>

Ends == {"cli", "srv"}
Peer(e) == IF e = "cli" THEN "srv" ELSE "cli"

noSock  == [up |-> {}, cut |-> FALSE, at |-> "free", in |-> [e \in Ends |-> << >>]]
newSock == [up |-> Ends, cut |-> FALSE, at |-> "tmp", in |-> [e \in Ends |-> << >>]]
Timer(cn, evnt, tm) == [cn EXCEPT !.evnt = evnt, !.due = tm]

(* rlylibInt_hostMakeConnCb *)
OwnConn     == [sta |-> "closed", sock |-> 0, evnt |-> "CONN", due |-> 0, age |-> 0]
AcptConn(s) == [sta |-> "open", sock |-> s, evnt |-> "HBEAT", due |-> HBeatSndTm, age |-> 0]
OwnConns == [i \in 1 .. ConnCnt |-> OwnConn]

LinkInit ==
  /\ conns = [e \in Ends |-> IF e = "cli" THEN OwnConns ELSE << >>]
  /\ openCnt = [e \in Ends |-> 0]
  /\ pos = [e \in Ends |-> 0]
  /\ lag = [e \in Ends |-> 0]
  /\ sndTq = [e \in Ends |-> << >>]
  /\ rcvd = [e \in Ends |-> {}]
  /\ sent = [e \in Ends |-> 0]
  /\ sock = [s \in Socks |-> noSock]
  /\ acking = 0
  /\ key = [e \in Ends |-> IF e = "cli" THEN 1 ELSE 0]
  /\ served = {}
  /\ faultCnt = MaxFault
  /\ late = FALSE
  /\ stale = [e \in Ends |-> 0]
  /\ sure = [e \in Ends |-> {}]
  /\ calm = TRUE
  /\ ahead = FALSE
  /\ tooOld = FALSE

OpenConns(e) == {i \in DOMAIN conns[e] : conns[e][i].sta = "open"}

-----------------------------------------------------------------------------
(* Sockets (trnlib_sock.c).  An operation maps the network k to another.   *)

Shut(x, e) == IF x.up = {e} THEN noSock ELSE [x EXCEPT !.up = @ \ {e}]

SockClose(k, s, e) == IF s = 0 THEN k ELSE [k EXCEPT ![s] = Shut(@, e)]

(* The sockets of all connections cns of an end are closed. *)
CloseAll(k, cns, e) ==
  [s \in Socks |-> IF \E i \in DOMAIN cns : cns[i].sock = s THEN Shut(k[s], e) ELSE k[s]]

(* Whether a write can succeed, or fail: what is written to a peer that    *)
(* has closed, or through a network that is cut, may do either.            *)
CanWrite(k, s, e, ok) ==
  IF s = 0 THEN ok \in Stdin ELSE ok \/ Peer(e) \notin k[s].up \/ k[s].cut

SockWrite(k, s, e, msgs) ==
  IF s = 0 \/ Peer(e) \notin k[s].up \/ k[s].cut THEN k
  ELSE [k EXCEPT ![s].in[Peer(e)] = @ \o msgs]

(* What a read returns, and whether it finds the end of the connection.    *)
SockRead(k, s, e) == IF k[s].cut THEN << >> ELSE k[s].in[e]
SockTake(k, s, e) == IF k[s].cut THEN k ELSE [k EXCEPT ![s].in[e] = << >>]
SockEnd(k, s, e)  == ~k[s].cut /\ k[s].in[e] = << >> /\ Peer(e) \notin k[s].up

-----------------------------------------------------------------------------
(* One connection in a pass: the work w has the connection cn, the count   *)
(* cnt, the network k, and what was received got.  Its times are relative  *)
(* to the tick that the pass read, g ticks ago.                            *)

Work(cn, cnt, k, got) == [cn |-> cn, cnt |-> cnt, k |-> k, got |-> got]

ForPass(cn, g) == [cn EXCEPT !.due = @ + g, !.age = @ - g]
FromPass(cn, g) == [cn EXCEPT !.due = @ - g, !.age = @ + g]

Req(n) == [code |-> "req", n |-> n]
Ack    == [code |-> "ack", n |-> 0]
HBeat  == [code |-> "hbeat", n |-> 0]
Data(n) == [code |-> "data", n |-> n]

(* host_closeConnCb *)
Lost(cn) == [cn EXCEPT !.sta = "closed", !.sock = 0]
Close(w, e) == Work(Lost(w.cn), w.cnt, SockClose(w.k, w.cn.sock, e), w.got)

(* The timer of a connection that was lost: only a client opens it again. *)
Reopen(cn, e) == IF e = "srv" THEN Timer(cn, "none", 0) ELSE Timer(cn, "CONN", ConnTm)

(* A connection is closed that failed, and the count is set to n. *)
GiveUp(w, e, cnt) == Work(Reopen(Lost(w.cn), e), cnt, SockClose(w.k, w.cn.sock, e), w.got)

(* Whether a message is taken, of what was read: data on a connection that *)
(* is open, the answer to an init request before.                          *)
Welcome(sta, in, j) ==
  LET opened == sta = "open" \/ (\E h \in 1 .. j - 1 : in[h].code = "ack")
  IN \/ in[j].code = "hbeat"
     \/ in[j].code = "data" /\ opened
     \/ in[j].code = "ack" /\ ~opened

(* The messages up to the first one that is not taken. *)
Taken(sta, in) == {j \in DOMAIN in : \A h \in 1 .. j : Welcome(sta, in, h)}

(* Fault: a heartbeat does not count as a sign of life. *)
AgeFrom_NoHBeat(age, codes, g) == IF codes \cap {"data", "ack"} # {} THEN 0 ELSE age

(* A heartbeat is stamped with the current tick, and a read that has other *)
(* messages with the tick of the pass.                                     *)
AgeFrom(age, codes, g) ==
  CASE codes \cap {"data", "ack"} # {} -> 0
    [] codes = {"hbeat"}               -> -g
    [] OTHER                           -> age

Heard(cn, msgs, g) == [cn EXCEPT !.age = AgeFrom(@, {m.code : m \in msgs}, g)]

(* The heartbeat timer starts at the current tick. *)
RcvAck(cn, g) == [cn EXCEPT !.sta = "open", !.evnt = "HBEAT", !.due = HBeatSndTm + g]

(* host_rcvConnMsg, for the messages msgs that are taken. *)
RcvMsgs(w, msgs, full, g) ==
  LET data == {m.n : m \in {d \in msgs : d.code = "data"}}
      cn == Heard(w.cn, msgs, g)
      got == IF full THEN w.got ELSE w.got \cup data
  IN IF \E m \in msgs : m.code = "ack" THEN Work(RcvAck(cn, g), w.cnt + 1, w.k, got)
     ELSE Work(cn, w.cnt, w.k, got)

(* Fault: a connection that failed before it was open is counted down. *)
FailCnt_Init(sta, cnt) == cnt - 1

FailCnt(sta, cnt) == IF sta = "open" THEN cnt - 1 ELSE cnt

(* host_rcvConnMsg and what host_chkAllConn makes of it. *)
Read(w, e, full, g) ==
  LET s == w.cn.sock
      in == SockRead(w.k, s, e)
      taken == Taken(w.cn.sta, in)
      r == RcvMsgs(Work(w.cn, w.cnt, SockTake(w.k, s, e), w.got), {in[j] : j \in taken}, full, g)
  IN IF SockEnd(w.k, s, e) \/ taken # DOMAIN in
       THEN GiveUp(r, e, FailCnt(w.cn.sta, r.cnt))
       ELSE r

(* host_connOpenChk *)
OpenChk(w, e, wr) ==
  IF wr THEN Work([w.cn EXCEPT !.sta = "init", !.evnt = "INIT", !.due = InitTm], w.cnt,
                  SockWrite(w.k, w.cn.sock, e, <<Req(key[e])>>), w.got)
  ELSE GiveUp(w, e, w.cnt)

(* The first part of a pass over a connection. *)
ByStatus(w, e, wr, full, g) ==
  CASE w.cn.sta \in {"open", "init"} -> Read(w, e, full, g)
    [] w.cn.sta = "connected"        -> OpenChk(w, e, wr)
    [] OTHER                         -> w

Ahead(w) == w.cn.sta = "open" /\ w.cn.age < 0

(* The age is a difference of unsigned numbers: a sign of life after the   *)
(* pass read the tick makes it larger than any time-out.                   *)
Silent(w) == Ahead(w) \/ (w.cn.sta = "open" /\ w.cn.age >= HBeatTm)

(* The second part: a connection on which nothing came for long is closed. *)
ByAge(w, e) ==
  IF Silent(w) THEN GiveUp(w, e, w.cnt - 1) ELSE w

TmOut(cn) == cn.evnt # "none" /\ cn.due =< 0

FreeSocks(k) == {s \in Socks : k[s].up = {} /\ s # acking}

(* host_openConnCb: it fails, or the network connects a socket.            *)
OpenConn(w, ok) ==
  IF ok THEN LET s == CHOOSE t \in FreeSocks(w.k) : \A u \in FreeSocks(w.k) : t =< u
             IN Work([w.cn EXCEPT !.sta = "connected", !.sock = s, !.evnt = "CONN_WAIT", !.due = 0],
                     w.cnt, [w.k EXCEPT ![s] = newSock], w.got)
  ELSE Work(Timer(w.cn, "CONN", ConnTm), w.cnt, w.k, w.got)

(* Fault: after an init time-out the connection has no timer. *)
InitTmOut_None(w, e) == LET v == Close(w, e) IN Work(Timer(v.cn, "none", 0), v.cnt, v.k, v.got)

InitTmOut(w, e) == LET v == Close(w, e) IN Work(Timer(v.cn, "CONN", ConnTm), v.cnt, v.k, v.got)

(* Fault: only the first heartbeat is sent. *)
HBeatTmOut_Once(w, e, ok) ==
  IF ok THEN Work(Timer(w.cn, "none", 0), w.cnt, SockWrite(w.k, w.cn.sock, e, <<HBeat>>), w.got)
  ELSE GiveUp(w, e, w.cnt - 1)

HBeatTmOut(w, e, ok) ==
  IF ok THEN Work(Timer(w.cn, "HBEAT", HBeatSndTm), w.cnt,
                  SockWrite(w.k, w.cn.sock, e, <<HBeat>>), w.got)
  ELSE GiveUp(w, e, w.cnt - 1)

(* The third part: the timer. *)
ByTimer(w, e, ok) ==
  IF ~TmOut(w.cn) THEN w
  ELSE CASE w.cn.evnt = "CONN"  -> OpenConn(w, ok)
         [] w.cn.evnt = "HBEAT" -> HBeatTmOut(w, e, ok)
         [] w.cn.evnt = "INIT"  -> InitTmOut(w, e)
         [] OTHER -> w

(* What the second write or the connect of the pass can return. *)
CanTimer(w, e, ok) ==
  IF ~TmOut(w.cn) THEN ok
  ELSE CASE w.cn.evnt = "CONN"  -> ok = (FreeSocks(w.k) # {})
         [] w.cn.evnt = "HBEAT" -> CanWrite(w.k, w.cn.sock, e, ok)
         [] OTHER -> ok

-----------------------------------------------------------------------------
(* The pass of an end *)

(* host_findAnyOpenConnCb, for the mode AS: the first one that is open. *)
Pick(e) == IF OpenConns(e) = {} THEN 0 ELSE CHOOSE i \in OpenConns(e) : \A j \in OpenConns(e) : i =< j

Served(e) == /\ pos' = [pos EXCEPT ![e] = 0]
             /\ lag' = [lag EXCEPT ![e] = 0]
             /\ served' = served \cup {e}

(* The place of a pass that is about to read the tick. *)
ReadsTick == -1

(* host_chkSndMsg: one write for what waits.  When it fails the connection *)
(* is closed, the failure is forgotten, and the heartbeat timer is set.    *)
(* Without a connection what waits is dropped.                             *)
SndPass(e, wr) ==
  /\ pos[e] = 0
  /\ LET i == Pick(e)
         cn == conns[e][i]
         msgs == [j \in 1 .. Len(sndTq[e]) |-> Data(sndTq[e][j])]
     IN IF i = 0 \/ sndTq[e] = << >>
          THEN wr /\ UNCHANGED <<conns, sock>>
          ELSE /\ CanWrite(sock, cn.sock, e, wr)
               /\ conns' = [conns EXCEPT ![e][i] =
                              Timer(IF wr THEN cn ELSE Lost(cn), "HBEAT", HBeatSndTm)]
               /\ sock' = IF wr THEN SockWrite(sock, cn.sock, e, msgs)
                          ELSE SockClose(sock, cn.sock, e)
  /\ sndTq' = [sndTq EXCEPT ![e] = << >>]
  /\ pos' = [pos EXCEPT ![e] = ReadsTick]
  /\ UNCHANGED <<openCnt, lag, rcvd, sent, acking, key, served, faultCnt, late, calm, stale,
                 ahead, tooOld, sure>>

(* host_chkAllConn reads the tick and takes the first connection, if any. *)
TickPass(e) ==
  /\ pos[e] = ReadsTick
  /\ IF conns[e] = << >> THEN Served(e)
     ELSE pos' = [pos EXCEPT ![e] = 1] /\ UNCHANGED <<lag, served>>
  /\ UNCHANGED <<conns, openCnt, sndTq, rcvd, sent, sock, acking, key, faultCnt, late, calm, stale,
                 ahead, tooOld, sure>>

(* host_chkAllConn, for the connection at pos. *)
ConnPass(e, wr, ok, full) ==
  /\ pos[e] > 0
  /\ LET i  == pos[e]
         g  == lag[e]
         w0 == Work(ForPass(conns[e][i], g), openCnt[e], sock, rcvd[e])
         w1 == ByStatus(w0, e, wr, full, g)
         w2 == ByAge(w1, e)
         w3 == ByTimer(w2, e, ok)
     IN /\ IF w0.cn.sta = "connected" THEN CanWrite(sock, w0.cn.sock, e, wr) ELSE wr
        /\ full => /\ faultCnt > 0 /\ w0.cn.sta = "open"
                   /\ \E m \in ToSet(SockRead(sock, w0.cn.sock, e)) : m.code = "data"
        /\ CanTimer(w2, e, ok)
        /\ conns' = [conns EXCEPT ![e][i] = FromPass(w3.cn, g)]
        /\ openCnt' = [openCnt EXCEPT ![e] = w3.cnt]
        /\ sock' = w3.k
        /\ rcvd' = [rcvd EXCEPT ![e] = w3.got]
        /\ tooOld' = (tooOld \/ (Silent(w1) /\ ~sock[w0.cn.sock].cut))
        /\ ahead' = (ahead \/ Ahead(w1))
        /\ calm' = (calm /\ ~full /\ ~Ahead(w1))
        /\ faultCnt' = IF full THEN faultCnt - 1 ELSE faultCnt
  /\ IF pos[e] = Len(conns[e]) THEN Served(e)
     ELSE pos' = [pos EXCEPT ![e] = @ + 1] /\ UNCHANGED <<lag, served>>
  /\ UNCHANGED <<sndTq, sent, acking, key, late, stale, sure>>

-----------------------------------------------------------------------------
(* The accept thread *)

(* An init request: the host is made or known, and a new key of the client *)
(* frees the connections that the host has, without counting them down;    *)
(* then the connection is attached, open.                                  *)
AcptReq(s) ==
  /\ acking = 0
  /\ pos["srv"] = 0
  /\ sock[s].at = "tmp" /\ ~sock[s].cut /\ sock[s].in["srv"] # << >>
  /\ Len(conns["srv"]) < MaxConn
  /\ LET n == Head(sock[s].in["srv"]).n
         new == key["srv"] \notin {0, n}
         k == [sock EXCEPT ![s].in["srv"] = Tail(@), ![s].at = "conn"]
     IN /\ sock' = IF new THEN CloseAll(k, conns["srv"], "srv") ELSE k
        /\ conns' = [conns EXCEPT !["srv"] = Append(IF new THEN << >> ELSE @, AcptConn(s))]
        /\ stale' = [stale EXCEPT !["srv"] = IF new THEN openCnt["srv"] ELSE @]
        /\ key' = [key EXCEPT !["srv"] = n]
  /\ openCnt' = [openCnt EXCEPT !["srv"] = @ + 1]
  /\ acking' = s
  /\ UNCHANGED <<pos, lag, sndTq, rcvd, sent, served, faultCnt, late, calm, ahead, tooOld, sure>>

(* The answer is written when the mutex of the host is free again. *)
AcptAck ==
  /\ acking # 0
  /\ sock' = IF "srv" \in sock[acking].up THEN SockWrite(sock, acking, "srv", <<Ack>>) ELSE sock
  /\ acking' = 0
  /\ UNCHANGED <<conns, openCnt, pos, lag, sndTq, rcvd, sent, key, served, faultCnt, late, calm, stale,
                 ahead, tooOld, sure>>

(* A connection that ended before its request came. *)
AcptEnd(s) ==
  /\ acking = 0
  /\ sock[s].at = "tmp" /\ SockEnd(sock, s, "srv")
  /\ sock' = SockClose(sock, s, "srv")
  /\ UNCHANGED <<conns, openCnt, pos, lag, sndTq, rcvd, sent, acking, key, served, faultCnt, late, calm,
                 stale, ahead, tooOld, sure>>

(* Whether the accept thread has something to do. *)
Waiting ==
  \/ acking # 0
  \/ \E s \in Socks :
       sock[s].at = "tmp" /\ (SockEnd(sock, s, "srv") \/ SockRead(sock, s, "srv") # << >>)

Accept == AcptAck \/ \E s \in Socks : AcptReq(s) \/ AcptEnd(s)

-----------------------------------------------------------------------------
(* The program, time and faults *)

(* The connections of e that are open at both ends. *)
LinkedConns(e) == {i \in OpenConns(e) :
                     \E j \in OpenConns(Peer(e)) : conns[Peer(e)][j].sock = conns[e][i].sock}

(* The accept thread has the mutex of the program until it has answered. *)
Send(e) ==
  /\ sent["cli"] + sent["srv"] < MaxMsg
  /\ e = "srv" => acking = 0
  /\ sent' = [sent EXCEPT ![e] = @ + 1]
  /\ sndTq' = [sndTq EXCEPT ![e] = Append(@, sent[e] + 1)]
  /\ sure' = IF calm /\ OpenConns(e) # {} /\ OpenConns(e) = LinkedConns(e)
               THEN [sure EXCEPT ![e] = @ \cup {sent[e] + 1}] ELSE sure
  /\ UNCHANGED <<conns, openCnt, pos, lag, rcvd, sock, acking, key, served, faultCnt, late, calm, stale,
                 ahead, tooOld>>

(* A timer that has run out and an age that is too old, for a pass of the  *)
(* lag g, are not counted on.                                              *)
OneTick(cn, g) == [cn EXCEPT !.due = IF @ + g > 0 THEN @ - 1 ELSE @,
                             !.age = IF cn.sta = "open" /\ @ - g < HBeatTm THEN @ + 1 ELSE @]

(* The tick falls into a pass that has read the tick. *)
InPass == \E e \in Ends : pos[e] > 0

(* The lag after one more tick. *)
Lag(e) == IF pos[e] > 0 THEN lag[e] + 1 ELSE 0

(* A tick takes 100 ms, a pass and a look of the accept thread a few: both *)
(* ends have made a pass, unless the tick comes late.                      *)
LinkTick(lateFlg) ==
  /\ lateFlg # (served = Ends /\ ~Waiting)
  /\ lateFlg \/ InPass => faultCnt > 0
  /\ faultCnt' = IF lateFlg \/ InPass THEN faultCnt - 1 ELSE faultCnt
  /\ late' = (late \/ lateFlg)
  /\ calm' = (calm /\ ~lateFlg)
  /\ conns' = [e \in Ends |-> [i \in DOMAIN conns[e] |-> OneTick(conns[e][i], Lag(e))]]
  /\ lag' = [e \in Ends |-> Lag(e)]
  /\ served' = {}
  /\ UNCHANGED <<openCnt, pos, sndTq, rcvd, sent, sock, acking, key, stale, ahead, tooOld, sure>>

(* Nothing passes any more, and neither end is told. *)
Cut(s) ==
  /\ faultCnt > 0
  /\ sock[s].up # {} /\ ~sock[s].cut
  /\ faultCnt' = faultCnt - 1
  /\ calm' = FALSE
  /\ sock' = [sock EXCEPT ![s].cut = TRUE, ![s].in = [e \in Ends |-> << >>]]
  /\ UNCHANGED <<conns, openCnt, pos, lag, sndTq, rcvd, sent, acking, key, served, late, stale,
                 ahead, tooOld, sure>>

(* The client ends and starts again, with a new key. *)
Restart ==
  /\ faultCnt > 0
  /\ faultCnt' = faultCnt - 1
  /\ calm' = FALSE
  /\ sock' = CloseAll(sock, conns["cli"], "cli")
  /\ conns' = [conns EXCEPT !["cli"] = OwnConns]
  /\ openCnt' = [openCnt EXCEPT !["cli"] = 0]
  /\ pos' = [pos EXCEPT !["cli"] = 0]
  /\ lag' = [lag EXCEPT !["cli"] = 0]
  /\ sndTq' = [sndTq EXCEPT !["cli"] = << >>]
  /\ rcvd' = [rcvd EXCEPT !["cli"] = {}]
  /\ key' = [key EXCEPT !["cli"] = @ + 1]
  /\ UNCHANGED <<sent, acking, served, late, stale, ahead, tooOld, sure>>

-----------------------------------------------------------------------------
HostPass(e) == \/ \E wr \in BOOLEAN : SndPass(e, wr)
               \/ TickPass(e)
               \/ \E wr, ok, full \in BOOLEAN : ConnPass(e, wr, ok, full)

LinkNext ==
  \/ \E e \in Ends : HostPass(e) \/ Send(e)
  \/ Accept
  \/ \E lateFlg \in BOOLEAN : LinkTick(lateFlg)
  \/ \E s \in Socks : Cut(s)
  \/ Restart

(* Time passes, and from one tick to the next both ends make a pass and    *)
(* the accept thread answers who waits: all ticks but finitely many do not *)
(* come late.                                                              *)
LinkFairness == []<><<LinkTick(FALSE)>>_linkVars

LinkSpec == LinkInit /\ [][LinkNext]_linkVars /\ LinkFairness

-----------------------------------------------------------------------------
(* Properties *)

(* A connection that is closed but has a heartbeat to send, on fd 0. *)
Zombies(e) == {i \in DOMAIN conns[e] : conns[e][i].sta = "closed" /\ conns[e][i].evnt = "HBEAT"}

(* openConnCnt is the number of open connections, but for those that a     *)
(* failed send closed, which are counted down when the heartbeat fails,    *)
(* and those that a new key of the peer freed, which never are.            *)
CountExact ==
  \A e \in Ends : openCnt[e] = Cardinality(OpenConns(e) \cup Zombies(e)) + stale[e]

(* As long as no tick comes late, and no pass finds a heartbeat that came  *)
(* after it read the tick, no connection is closed as silent that the      *)
(* network has not cut.                                                    *)
NoFalseAlarm == tooOld => late \/ ahead

(* Data that a program sends while it has open connections, and all of     *)
(* them are open at the other end too, is not lost: it waits, has arrived, *)
(* or is on its way on such a connection, as long as there is no fault, a  *)
(* tick within a pass aside that lets no heartbeat come after the tick     *)
(* that the pass read.                                                     *)
NoLoss ==
  calm =>
    \A e \in Ends : \A n \in sure[e] :
      \/ n \in ToSet(sndTq[e]) \cup rcvd[Peer(e)]
      \/ \E i \in LinkedConns(e) : Data(n) \in ToSet(sock[conns[e][i].sock].in[Peer(e)])

(* The faults are finitely many, and so are the ticks within a pass, each  *)
(* of which may close a connection: in the end every connection of the     *)
(* client is open and the server has the same ones open, but for those     *)
(* that write heartbeats to the standard input.                            *)
Reconnects ==
  <>[](/\ OpenConns("cli") \cup Zombies("cli") = 1 .. ConnCnt
       /\ Zombies("cli") # {} => TRUE \in Stdin
       /\ \A e \in Ends : LinkedConns(e) = OpenConns(e))
=============================================================================
