# Formal verification of the REST statistics server and its libraries

The repository is a small REST server in C (`src/src/rest_stat`) on a set of home-grown
libraries (`src/libsrc`). This directory holds TLA+ models of its concurrent and stateful
parts, the TLC runs that check them on small instances, and machine-checked proofs (TLAPS), for
any size and number of everything, of most of what the runs check.

`PROJECT.json` is the index: which lines each definition models, what each run checks, which
hazards of the code each property answers, and for every property a fault in the code that
breaks it.

## 1. The system

| Component | State | Operations | Modules |
|---|---|---|---|
| thread queue, `thrlib_tq.c` | ring of `maxCnt` slots, `first`, `last`, `qCnt`, a mutex for pushes and one for pops | push, pop (and waiting and bulk variants no library uses) | `ThrTq`, `TqChannel` |
| thread pool, `thrlib_pool.c` | workers, a queue and a mutex per stream, counts, a condition | create, register a job, destroy; the workers' loop | `ThrPool` |
| timer table, `comlib_timer.c` | wheel of 1024 lists, tick, previous tick; expiry and reset flag of a node | start, restart, cancel, the handler with its callbacks | `TmrWheel`, `TmrService` |
| hash table, `comlib_hashTbl.c` | per entry: a list, `cmpAllFlg`, `cmpAllCnt` | insert, delete, find, get | `HashTbl` |
| linked list, `comlib_lnkLst.c` | first, tail, count, limit; the links inside the users' records | two appends, four inserts, two gets, delete | `LnkLst` |
| message, `comlib_msg.c` | header with length and last chunk, a chain of chunks | add, insert, remove, put, split, concatenate, copy, compare | `MsgBuf` |
| token cache, `rest_stat/rss_auth.c`, `rss_token.c`, `main.c` | a hash table and a timer table of the same nodes, a lock | verify a token (connection threads), expire tokens (main thread) | `TokenCache` |
| loggers, `loglib_api.c`, `loglibInt_glob.c`, `loglibInt_thrd.c`, ... | table of loggers, levels, a queue and a thread for each logger | init, destroy, set level, register and deregister an appender, write; the log thread | `LogLib` |
| file appender, `loglibInt_apnd.c` | files on disk, the open file, its counted size, the hour | write, make and rotate a file, restart | `LogFile` |
| HTTP server, `rsvlib_api.c`, `rsvlibInt_main.c`, `rsvlibInt_svr.c` | rules, run flag, daemon handle, list of sessions | set rules, run, stop; callbacks of the HTTP daemon | `RsvServer` |
| REST rules, `rrllib_*.c` | a tree of paths with methods and query configurations; the document of a request | register a rule, answer a request, walk through a document | `Rrl` |
| supervision client, `smulib/*.c` | session with the supervisor, two timers, keepalive ticks of main and registered threads | registration, heartbeat, termination, keepalive, watch | `SmuSession` |
| relay hosts, `rlylibInt_host.c`, `_init.c`, `_dstry.c`, `_sync.c`, `_acpt.c` | host blocks, list, id table, loop list, three levels of mutexes, control queues | add, delete, set primary, send, receive; host threads, accept thread, end of the library | `RlyHost` |
| relay connections, the same files | connections of a host, their timers, the count of open ones, queues | open, init handshake, heartbeat, age check, send, receive, reconnect | `RlyLink` |
| relay realms, `rlylibInt_rlm.c` | buckets of hosts in the order of registration, rule and its data | add, delete, register a host, set rule, send, receive | `RlyRlm` |
| sockets, wrappers, configuration, queries, HTTP client, tables of names | little or none | | section 7 |

How they interact:

* `rest_stat` starts the HTTP server with one rule. libmicrohttpd calls `svr_ansCon` in its own
  threads, which looks the request up in the **rules** and makes a document; the rule's function
  asks the **token cache** and then the database. The main thread of `rest_stat` turns in a loop
  of one second: it takes the time and runs the **timer table**, whose event function removes
  expired tokens. So the two tables of the cache are changed by several connection threads and
  the main thread, with one lock that not every access takes.
* `rsvlib` guards `run`, `stop` and the rules with one mutex, the list of active sessions with
  another, and the rules against requests with nothing but a flag. Bodies are collected in
  **messages**.
* `loglib` is called from every thread. Writes go under a global mutex and a mutex of the logger
  into a **thread queue**; the log thread polls the queue, takes another mutex, walks the
  appenders and writes the **files**. Destroying a logger cancels and joins the thread under the
  global mutex.
* `smulib` runs a thread of its own with a **timer table**; it talks to the supervisor SMD
  through `rlylib` and reads the ticks the program's threads store without a lock.
* `rlylib` has host threads that take **hosts** in turn from a loop list and serve their
  **connections**, an accept thread that attaches connections of peers, and callers that send to
  and receive from hosts and **realms**. Control operations go to a host through a queue of its
  own and are carried out by the host thread.
* All libraries keep their records in **linked lists**; a realm, a host, a logger, a session, a job
  or a timer is lost or used twice when a link is wrong.

What is hard here, and why tests would hardly reach it: pushes and pops that share no mutex; a
handler that walks a list which callbacks, and in the token cache other threads, change under it;
tables that must agree though they are changed in separate steps; threads that are cancelled in
the middle of their work; workers that look at one mutex and wait under another; a daemon that is
stopped while requests are in every stage; hosts that are freed by decisions made from unlocked
reads; turns that must be shared out fairly while hosts come and go; a restart between two steps
of a file rotation; lost messages and late answers of a supervisor or a peer. `PROJECT.json`
lists these hazards line by line.

What makes each component correct:

* queue: what is accepted is delivered, once and in order; no slot is touched from both sides.
* pool: every job is taken once, in the order of its stream; the counts by which the pool grows
  and ends are those of its workers.
* timer table: each timer fires once, at its tick, whatever callbacks do.
* hash table, list, message: what a caller reads is what the calls put there.
* token cache: a token has a node in both tables or in none, is answered for within its term only,
  and goes when it is due.
* loggers: accepted messages are written in order or accounted for; nothing freed is walked; calls
  return.
* file appender: rotation loses the oldest messages only; sizes and hours are kept.
* HTTP server: no session or document is used after it is freed; a stopped server is quiet.
* rules: an accepted rule answers the requests its text describes, and nothing else is answered.
* supervision: the process never stays without supervision; it ends when it asked to end.
* relay: list, id table, names and loop list stand for the same hosts; nothing freed is used; the
  count of open connections is exact; a peer that is alive is not given up, one that was lost is
  found again; sends and receives take turns; every call returns.

## 2. Modules

| Module | Models | Grain |
|---|---|---|
| `ThrTq` | thrlib_tqInit, Push, Pop | every access of one side to what the other side writes is a step |
| `TqChannel` | abstract | a FIFO channel of `Cap` elements that a push may break |
| `ThrPool` | thrlib_poolInit, RegJob, Dstry, worker | a step per mutex taken, and per stream looked at |
| `TmrWheel` | the timer table | pointers and all: the walk of the handler is a step per node, callbacks make calls in between |
| `TmrService` | abstract | each timer fires once, at the tick it was set for |
| `HashTbl` | one entry of the hash table | a call is one step, callers hold a lock |
| `LnkLst` | the linked list, any number of lists | a call is one step; the links as the code sets them |
| `MsgBuf` | messages | a call is one step; chunks with their place in the buffer |
| `TokenCache` | rest_stat's cache | composes the two tables at the level at which its threads interleave |
| `LogLib` | loggers, levels, log threads | calls split where they give up a mutex or access shared state without it |
| `LogFile` | file appender | a call is one step, a file is the sequence of its messages |
| `RsvServer` | server and sessions | callbacks of the daemon split at the list's mutex |
| `Rrl` | rules and documents | a call is one step; characters abstracted to kinds of segments and parameters |
| `SmuSession` | the supervision client | main loop split into its handlers, other threads between |
| `RlyHost` | hosts, host threads, accept thread, control operations | a step per mutex, the work under all of them is one step |
| `RlyLink` | the connections of a host and its peer | a pass of a host thread split at each connection, the peer between |
| `RlyRlm` | realms | sends and receives look at one host per step, control operations are one step |
| `ThrTqProof`, `TmrWheelProof`, `TokenCacheProof`, `RlyHostProof` | | theorems about the module of that name, section 6 |
| `TablesProof`, `LogLibProof`, `ServerProof`, `SessionProof` | | theorems about `HashTbl`, `LnkLst` and `RlyRlm`, about `LogLib` and `LogFile`, about `RsvServer` and `ThrPool`, about `SmuSession` and `RlyLink` |
| `MC*` | | instances for TLC, each `.cfg` one run |

`MCTables`, `MCLogFile` and `MCRsvServer` check several modules that share no variable: the
variable `part` says which of them a behaviour runs, the others stay in their initial state.

How the modules compose: `TokenCache` has the timer table and the hash table in it at the level
of their calls, checked in detail by `TmrWheel` and `HashTbl`. `LogLib` uses the queue at the
level of `TqChannel` but with its overrun. `RlyHost` counts the connections and messages of a
host, `RlyLink` has them; `RlyRlm` sees of a host whether it is open and what waits for it.
`RsvServer` has a flag for the rules that `Rrl` describes, and `RulesStable` is why a request
reads one state of the tree.

Conventions:

* Definitions keep the names of the source where TLA+ allows it, and `PROJECT.json` names their lines.
* `memErr`, `hostMemErr`, `rlmMemErr`, `crash`: the program used memory it does not own, or followed
  a wild pointer. The system stops there, since the outcome is undefined; the invariants speak of
  all states up to it. Where a property excludes it, the state is reached by the code and listed
  as a hazard.
* Definitions with an underscore and a comment `Fault:` are faulty versions of the definition that
  follows them, used to show that a property notices such a fault. No specification refers to them.
* History variables are marked as such; no guard reads them, apart from bounds.
* An invariant of a run is a conjunction of named parts (`PoolExact == JobsInOrder /\ CountsExact`):
  a part says one thing and can be looked for by its name when a run fails.

What corresponds to what, where it is not plain:

* `ThrTq`: `elmnt`, `first`, `last`, `qCnt` are the fields of `ThrlibQue`. An element is the rank of
  its push, so that order is a statement about numbers. A pop of a LOCK_FREE queue takes no mutex;
  such a queue has one consumer wherever the repository makes one, which is an assumption
  (`TqAssumption`).
* `ThrPool`: a worker that timed out holds no mutex and does not wait (`tmout`): a signal does not
  reach it. `missed` records a signal nobody waited for, or a stream passed over as busy.
* `TmrWheel`: `cut` records that a callback cancelled the node which the walk had saved as its next.
  That ends the walk of the slot early (its `next` is then NULL) and the rest of the slot waits for the
  next lap or for good: the properties are claimed up to then. The clients modelled here do not cancel
  another timer in a callback (smulib would at its APP_HB event, which nothing starts). Clients pass
  `expTm >= 1`. The wrap-around of ticks is not modelled.
* `HashTbl`: a history records that two keys met on one hash key, and that a key got into
  the table twice (possible: an insertion compares with the first node of its hash key only).
* `LnkLst`: `listed` is what the callers were told; links of nodes in no list hold anything.
* `MsgBuf`: a byte is 0, 1 or garbage; `told` is the content the calls add up to. `broken` is the
  set of messages on which one of the calls was made that are wrong in the code (section 5): nothing
  but giving the message back is done with them afterwards.
* `TokenCache`: the byte `tNode.used` of a malloc'ed node is not initialised; it is read by
  `comlib_timerTblStartTm` and is a choice from `UsedBytes`. The lookup of a token walks the list
  without the lock, one node per step. The handler finds the lock it gives back through the node it
  has freed: `EvtBad` is the outcome in which that is no lock any more, `EvtUnlock` the one in which
  the block still reads as before.
* `LogLib`: a message is the number of its acceptance. `thr` is where a log thread is; its timed wait
  is the cancellation point. `mixed` records that levels were changed, or loggers were set up, by two
  callers at once. `spin` is the loop of `loglibInt_globUnsetMaxLogLvl` that never ends. `CntBad` is the read of
  the level of a logger which another caller freed after it was registered.
* `LogFile`: `cut` is what the C library does with the overlapping `snprintf` of
  `loglibInt_apndMakeFile`: glibc clears the buffer first, others may not. `dirFailed` records that
  a directory could not be made.
* `RsvServer`: `rerun` and `badStart` record a second Run without Stop and a Run that failed before
  the daemon was started. Both break what the library promises and are reached by the run; the
  properties are claimed without them. libmicrohttpd is external: it serialises the calls for a
  request, waits for running callbacks when it is stopped, and drops the rest.
* `Rrl`: a path of the tree is the sequence of its keys. What the parser tells apart in a text is the
  kind of a segment or parameter: fixed, variable, unclosed, followed by more, or with a
  character that is not allowed.
* `SmuSession`: a timer holds the ticks it has left and a keepalive its age, which makes the states
  finite without bounding time. `mute` records that a registration could not be sent when its timer
  ran out. The supervisor is external: it answers in order, confirms heartbeats of a process it knows,
  may refuse, may restart, and may ignore a request for termination.
* `RlyHost`: `owner` says who holds each mutex, `proc` what each thread asks for and what it read
  before. A mutex that a call left locked has the owner `leaked`, a thread that locks the mutex
  it holds waits at `relock`. A send to any host that finds none gives its mutex back and then resets
  the id the next one starts at (`SndReset`); `turned` records such a late reset until the id is set
  again. Programs say what may be called, and with them how many connections and ticks come and
  whether receives wait.
* `RlyLink`: the state of the network is what is under way on each socket. Descriptor 0, which a
  closed connection keeps writing to, is the standard input of the process: `Stdin` says whether
  a write to it succeeds. A message has no bytes here. Times are relative to the current tick, which
  makes the states finite without bounding time. A pass reads the tick once (`TickPass`) and ticks may
  come while it goes on: `lag` is how many did. A heartbeat is stamped with the tick of the moment, so
  that for the pass its age is negative, and in the unsigned arithmetic of the code larger than any
  time-out: `ahead` records that a pass found that.
* `RlyRlm`: the array, the list and the hash array of a realm hold the same buckets in the same
  order and are one sequence; the first word of the union `ruleData` is shared by the rules as in C.

## 3. Runs

| Run | Question | Bounds |
|---|---|---|
| `MCThrTq` | Is the queue a FIFO channel, with pushes and pops interleaved, until a push overruns it? | size 3, 2 producers, 2 consumers, 6 pushes |
| `MCTmrWheel` | Does the wheel keep the promise of a timer service under callbacks and late turns? | 3 timers, 2 slots, ticks to 3, jumps of up to 3 |
| `MCTokenCache` | Do the tables agree, is no token missed, raced or answered for too late? | 2 requests, 2 tokens, 3 blocks, 5 slots, term 2 |
| `MCLogLib` | Are messages accounted for, appenders safe, calls and the queue never stuck? | 2 callers, 5 calls, queue of 3, one thread |
| `MCLogFile` | "lvl": does the level of the macros cover every logger? "file": what may rotation, restart and failure lose? | 2 loggers, levels to 2, 5 calls; 5 messages, 2 hours, one restart |
| `MCRsvServer` | "srv": requests in every stage beside run and stop. "rrl": are requests routed by the texts of the rules? | 2 callers, 2 requests, 6 calls; 12 rules, 3 registered, 112 requests |
| `MCSmuSession` | Is the process always supervised, through faults and silence? | one watched thread, all terms 1, 2 faults, 3 messages under way |
| `MCTables` | Are lookups, lists and messages what the calls put there? Do realms route by their rule and in turn? | 4 nodes each, 2 lists, 2 messages of up to 4 bytes in chunks of 3, 3 hosts |
| `MCThrPool` | Is no job lost, doubled or overtaken, are the counts right, are jobs left for good only after a missed signal? | 1 to 2 workers, 2 streams, 3 jobs, 2 callers |
| `MCRlyHost` | Do the tables of hosts agree, is nothing freed used, do sends take turns, do calls come back, do hosts go? | 2 names, 2 slots, 2 host threads, acceptor, 2 callers, 10 programs, receives that wait and that do not |
| `MCRlyLink` | Is the count of connections exact, is nothing lost without a fault, is no live peer given up, do the ends meet again? | 1 connection, 2 sockets, 1 message, 1 fault or tick within a pass |
| `MCRlyHostOrder` | *violated*: do calls take mutexes in the order the header states? | as `MCRlyHost` |

What they show:

* **MCThrTq** - `FifoExact`, `NoSlotRace`, `ImplementsChannel`: until an overrun the queue is exactly a
  channel of `MaxCnt - 1` elements, although `first` and `last` are protected by different mutexes.
  Size 3 has an empty, a partly
  filled and a full queue in every rotation; 6 pushes go round twice; two threads a side are the
  least that use the mutexes, and one consumer of a LOCK_FREE queue behaves as one of them.
* **MCTmrWheel** - two slots make every lap of the wheel and every list of several nodes occur within
  3 ticks; three timers are the least for a node before, at and after the walk; jumps of 3 ticks are
  late turns that pass a slot more than once; callbacks make up to 2 calls. `WheelExact`: slots are
  well linked and no timer is overdue. `ImplementsService` is the refinement; `HandlerEnds`: the walk
  ends although callbacks add to the list it walks.
* **MCTokenCache** - `CacheExact`: each token is in both tables or in none and no tick is missed.
  Three blocks are one more than tokens: the loser of a race allocates too. `MaxStall < ExpTm` and a
  main loop that turns more often than the wheel are assumptions on scheduling (`CacheAssumption`):
  without them a node may be linked into a slot already walked. The run reaches, and stops at, the
  refused insertion whose node is used after it is freed.
* **MCLogLib** - one logger with a thread made and destroyed by two callers: enough to fill and overrun
  the queue, to cancel the thread in its wait, before it and in a walk, and to register an
  appender meanwhile. `Accounting`: messages are written in order, once, or accounted for, and only
  late ones are dropped. `MemoryHeld`: no freed appender is walked, no name leads to a logger that
  is going. `CallsReturn` excludes `spin`, which the run reaches.
* **MCLogFile** - `MaxCovers`: two loggers and three levels for the unlocked counters. `OnlyOldestLost`,
  `FilesBounded`: two hours, one number to keep, files of one or two messages: every number is used
  and the oldest file dropped within 5 messages; one restart at any point between.
* **MCRsvServer** - all pairs of stages of two requests beside two callers, a second Run, a failed Run,
  a Stop with a stale handle, streams ended by the client or the server: `SessionsSafe`,
  `RulesStable`, `StopReturns`. `RulesRouted`: the twelve rules are chosen so that three of them
  collide in every way the parser knows - a name with a variable, two variables, two methods,
  capitals, refused segments and parameters, a parameter named like a variable; every request of
  seven paths, two methods and eight queries is asked in every state.
* **MCSmuSession** - every order of timers that are due together, loss of a request, of an answer, or of
  the supervisor's memory, twice. No time passes while two messages wait for the supervisor, that is,
  it answers before the next heartbeat but one; without that `ClosedByFault` would blame the process
  for a supervisor that is merely slow.
* **MCTables** - `LookupsExact`: a present key is found as itself, `cmpAllCnt` is the number of pairs it
  should be, the nodes of a hash key are in one row and the table is exact without collisions; three keys of one hash key and one other are
  the least with a first, a middle and a last node of a group. `ListsExact`: the lists and their
  links agree; four nodes and two lists have an only, a first, a last and two middle nodes, and an
  append of two to two (proved in general, section 6). `MessagesExact`: bytes, chain, end pointer and
  comparison; four bytes in chunks of three are every split of two chunks and the third chunk that splitting
  makes. `RlmSends`, `RlmReceives`: a send goes to the first host in the order of the rule that is open,
  an RR realm passes no open host over for a round, a HASH realm uses all its hosts, a receive
  finds what waits for the whole call; three hosts are the least that are not a power of two, which
  the bit mask of the hash depends on.
* **MCThrPool** - `PoolExact` and `JobsEnd`. A pool of two workers grows, shrinks and ends at any
  moment; two streams make a worker pass one over. `JobsEnd` names the two ways in which a job is left
  lying; without either, every job is taken.
* **MCRlyHost** - ten programs rather than all calls at once, each a call or a pair of calls that
  meet in the same tables; a peer makes a connection when a host is unknown, known, deleted or about
  to be freed. Three control blocks are as many as a program makes. Two callers are in the library at
  a time: two programs send to any host while there is none yet, so that one call resets the id late,
  when hosts have been made, freed again, or sent to by the other. `HostsExact` claims nothing of the id
  until it is set again, and `RoundRobin` counts turns from one late reset to the next: each may cost a
  host one round.
* **MCRlyLink** - the fault is a cut, a restart of the client (which comes back with another key), a
  late tick, a full receive queue, or a tick that comes within a pass after it read the tick: a pass takes
  a few of the 100 ms of a tick, so that this happens now and then without anything being wrong. With terms of 1, 1, 1 and 5 ticks every two timers meet.
  `CountExact` names the two ways the count goes wrong in the code. `NoFalseAlarm` holds because the silence an
  end bears is longer, by four ticks, than the time between two heartbeats: the passes of the two ends and of
  the acceptor are out of step by as much. With two connections of a client three ticks are too few; the code
  has 30 and 90 (`rlylibInt.h:80`). What the run also reaches is the false alarm the code does raise: a tick
  within a pass, then a heartbeat, and the connection is closed whatever the times are (`ahead`, section 5).
  `Reconnects`: it is made again. `NoLoss` is about data sent while every open connection is open at the
  other end too: an end that has closed, or has yet to answer, may lose what it is sent (section 5).
* **MCRlyHostOrder** - `rlylibInt.x:298-303` puts the mutexes in levels; adding a host that
  exists asks for `hostMainCb.mutx` while holding it, and never returns.

Runs in which threads may stop for good, because the bounds on calls are used up or memory was
misused, say `CHECK_DEADLOCK FALSE`. The others check for deadlock.

## 4. Fairness

* `ThrTq`: none; the refinement says what a consumer is given, and nothing is claimed of when.
* `ThrPool`: a call in progress, each worker and a destruction go on. Workers need strong fairness:
  the mutex of the pool is taken and given back by others again and again, and POSIX threads get
  it in the end on every scheduler the program runs on. Nothing makes a caller register a job.
* `TmrWheel`: the handler, once called, goes on.
* `TokenCache`: each request in progress and the main loop go on. Starting requests is not fair. A
  request that waits for the lock gets it only if it stays free often enough, which weak fairness of
  each thread does not promise: `DueIsRemoved` speaks of the main thread, whose competitors are
  finitely many here.
* `LogLib`: callers inside a call and log threads go on; the timed wait of a log thread ends (it is a
  wait of 1 ms). Calls are bounded, so that weak fairness is enough for a mutex.
* `RsvServer`: a stop in progress and callbacks go on; when the daemon is stopping its streams end and
  idle connections are dropped, which is what `MHD_stop_daemon` does.
* `SmuSession`: the library's thread runs, time passes whenever it again and again may (strong
  fairness of a tick that advances), and the supervisor deals with what it is sent - it may ignore a
  request for termination.
* `RlyHost`: a thread that asks for mutexes which are free again and again gets them (strong fairness of
  callers, acceptor and host threads), a timed wait ends, ticks come, a destruction goes on.
  Calls and connections are bounded and need not come.
* `RlyLink`: ticks in time come again and again; between two of them each end makes a pass, as host
  threads do many times a second. Faults need not happen, and are finitely many; so are, by the same bound,
  ticks within a pass, because each of them may close a connection and `Reconnects` speaks of the end.

## 5. Facts found on the way

Four are listed as findings in `PROJECT.json`: the second lock of a host that is added twice
(`rlylibInt_host.c:2434`, run `MCRlyHostOrder`), the overrun of the queue (`thrlib_tq.c:236`, theorem
`FirstOverrun`), the lookup that compares hash keys only (`comlib_hashTbl.c:573`), and the path that
glibc cuts off (`loglibInt_apnd.c:273`). Others were met while modelling and are reached by the
runs or plain from the code; the properties are stated so that they hold in spite of them:

* `thrlib_tq.c:251,513`: `qCnt` is changed by both sides under different mutexes and loses updates; only unused calls read it.
* `thrlib_pool.c`: a signal between a worker's last look and its wait, or while a timed-out waiter takes
  the mutex back, is lost, and a busy stream is passed over: a job may wait for the next one. A
  worker begins its next look at the stream where it found a job, so that a busy stream starves the
  others. A full queue leaks the job. The destruction reads `wkrCnt` without the mutex.
* `comlib_hashTbl.c:482,497`: a colliding key may be inserted twice, and with `cmpAllFlg` up an insertion may follow NULL.
* `comlib_lnkLst.c`: 0 stands for no limit, but an append to such a list always fails; deleting a node
  that is in no list empties the list.
* `comlib_msg.c`: `AddCharEnd` removes the first byte; `AddMsgFirst` starts at the base although the
  bytes go to the end; `AddCharFirst` leaves the old first chunk without its back pointer;
  `RmvMsg` keeps the pointer to a last chunk it freed; `RmvMsgFirst` lowers the length and removes nothing;
  `CpyMsgIntoFixBuf` reads beyond its chunk.
* `rss_auth.c:51`: the lock is given back through the node that was freed at `rss_token.c:110`.
* `rss_token.c:64,77`: a node is used after it was freed when its insertion is refused, and freed while it is in the hash table when its timer is.
* `rsvlibInt_main.c:112`: a second Run loses the first daemon's handle, after which rules may be changed under requests.
* `rsvlib_api.c:187`: returns with the mutex locked. `rsvlibInt_main.c:118`: the run flag stays set after a failed start.
* `rrllib_parse.c:519`: a second rule that begins with a variable follows NULL; `/a/{id` without a
  bracket is accepted as `/a`. A rule whose parameters are refused stays registered, and of two rules
  for one path and method the first answers. A fixed segment with the name of a variable is taken for the
  variable, and a variable is accepted when it begins another's name. A parameter named like a
  variable of the path can never be given. A refused request leaks its document.
* `loglibInt_glob.c:226`: a loop that never ends when the last logger leaves a level; `:228`: the level is lowered past loggers that have a higher one.
* `loglib_api.c:352`: the level is read from the logger after the mutex was given back, when another caller may have freed it.
* `loglib_api.c:388`: the thread id is read in a block the cancelled thread frees; `:375`: NULL is followed when there is no default logger.
* `smulibInt_timer.c:79`: a registration that cannot be sent is never tried again.
* `smulibInt_lh.c:103`: if the confirmation of a second registration is lost, heartbeats go on but the
  session stays CLOSE, and a later termination ends the process without telling the supervisor.
* `smulibInt_thBlk.c:144`: a block is freed while its thread may still use it.
* `rlylibInt_host.c:1945` and `rlylibInt_rlm.c:454`: a send without a buffer and a receive from a realm
  without hosts return with half of the main mutex locked.
* `rlylibInt_host.c:59`: a failed write is reported as a success; the connection is closed but stays
  counted, and its heartbeats go to descriptor 0. A peer with a new key (`:1325`) frees connections without
  counting them. Round robin over connections picks closed ones as well.
* `rlylibInt_host.c:612`: the age of a connection is `curTick`, read once before the pass (`:553`), minus the tick of its last
  heartbeat, read when that is taken (`:438`); after data the tick of the pass is put there instead (`:588`). When
  another thread advanced the tick in between, the difference of the `ULONG`s wraps around and a live connection
  is closed as silent, with what is on its way. It needs no fault, only a tick and a heartbeat within one pass.
* `rlylibInt_host.c:1795-1798`: a send to any host that finds none resets `lastSndHostId` after it released the mutex. Hosts
  may have been made and freed meanwhile, and the id then stands for no host (the next send starts with the
  first one); or another caller has sent, and its round is turned back.
* `rlylibInt_host.c:1571`: a receive that waited on the condition uses the list node of a host that may be freed.
* `rlylibInt_acpt.c`: when the table of hosts is full the connection goes to host 0; a connection counts as
  open before its answer is written, and there is no timer for one that never sends its request.
* `rlylibInt_acpt.c:364`: a connection is attached as open before its init answer is written. The thread of the host may
  send what is queued in between; the client, which waits for the answer, takes data for an invalid message
  and closes (`rlylibInt_host.c:524`), and the server goes on choosing that connection until it reads its end.
  What is sent meanwhile is lost with no fault of the network: `NoLoss` speaks of data sent while all open
  connections are open at both ends.
* `rlylibInt_rlm.c`: a hash over no hosts divides by 0; a destroyed host stays in its realms.

## 6. Proofs

### The thread queue

`ThrTqProof` proves, from `TqAssumption` alone (a size that is a positive natural number, one consumer if LOCK_FREE, producers and consumers
distinct), for every size, lock type and set of threads:

| Theorem | Says |
|---|---|
| `TypeCorrect` | `Spec => []TypeOK`: indices stay inside the array, threads inside their calls |
| `Inductive` | `Spec => []IInv` |
| `Fifo` | `Spec => []FifoExact` |
| `NoRace` | `Spec => []NoSlotRace` |
| `FirstOverrun` | `Spec => OverrunOnlyAtSlotZero`: the full test fails in one place only |
| `Refinement` | `Spec => ImplementsChannel`: the queue implements the channel of `MaxCnt - 1` elements |

The argument. `FifoExact` is not inductive: nothing in it says what the slots hold. `IInv` adds mutual
exclusion on each side (`PushExclusive`, `PopExclusive`: at most one thread is inside its critical
section, and it owns the mutex), what a thread knows when it is past its test
(`PushHasRoom`: the queue is still not full by the code's own test; `PopHasElmnt`: it is not empty -
both stable, because the other side only moves the other end), and `Contents`: each slot of the window from `first` to
`last` holds the element of its rank, `rcvd + 1` for the first, unless a pop has just cleared that one;
`PushStored`: a push about to advance `last` has stored its element there. All of it is claimed
until `overrun`. The proof that a step keeps `IInv` has a lemma for pushes and one for pops, with a case for each action. The
refinement maps the window to the sequence `rcvd + 1, ..., sent`; a push is a `Send` when it advances
`last` and a pop a `Deliver` when it advances `first`, everything else stutters.

### The linked list

`TablesProof` proves of `LnkLst`, from `LnkAssumption` alone (limits are natural numbers and `NoNode` is no node), for
any set of nodes, finite or not, any lists and any limits:

| Theorem | Says |
|---|---|
| `ListsInductive` | `LnkSpec => []LnkInv` |
| `ListsStayExact` | `LnkSpec => []ListsExact`: the property `MCTables` checks |

The argument. `ListsExact` speaks of each list by itself; to show that a call on one list leaves the others
alone one needs that no node is in two lists, and for that what the links of a list are. So `LnkInv` says that
each list is a *chain* - a sequence of distinct nodes, the ends the list points to, links that agree - and that
lists are apart. The nine calls are not proved one by one: `ChainInserted`, `ChainRemoved` and `ChainJoined`
say what becomes of a chain when one node comes to a place, one goes from a place, or two chains are
linked, and `Inserted`, `Removed` and `Appended` that a call which does only this keeps `LnkInv`. What is left for
each call (`InsertFirstStep`, ..., `DelStep`) is that the links it sets, in the order and with the tests the
code has, are those of a node at the place 1, at the end, next to `org`, or at the place of the node
deleted. `InsertAtIs` and `RemoveAtIs` say what the operators of the community module return, place by place.

### The thread pool

`ServerProof` proves of `ThrPool`, from `PoolAssumption` (0 or more fixed workers, no more than the largest number, that many worker
slots, at least one stream), for any threads that register and any sizes:

| Theorem | Says |
|---|---|
| `PoolInductive` | `PoolSpec => []PoolInv` |
| `PoolStaysExact` | `PoolSpec => []PoolExact` |

The argument. Every step moves one worker, or two when a registration adds one and wakes another, so the
two counts change as the sets they count do (`CountOne`). That the pool never falls below `wkrMinCnt` does
not follow from the test the code makes: two workers that timed out may pass it at the same count. It
holds because the workers made at the start never time out and only those that do end (`EndsTimed`,
`FixedStay`).

### The hash table

`TablesProof` proves of `HashTbl`, from `HashAssumption` (every key has a hash key, `NULL` is neither node nor key), for any
nodes, keys and hash function, one bucket:

| Theorem | Says |
|---|---|
| `TblInductive` | `TblSpec => []TblInv` |
| `LookupsStayExact` | `TblSpec => []LookupsExact` |

The argument. A deletion looks at the two neighbours of its node to decide whether `cmpAllCnt` goes down. That is
right because the nodes of a hash key are in one row (`InRows`): whoever is not alone with its hash
key has a neighbour that shares it. `CmpAllCntExact` alone is not inductive once a key is in the entry
twice, yet a lookup must be right then too; `Accounted` adds that the count never is *below* the number of
nodes beyond the first of each hash key. So when the flag is down no two nodes share a hash key, and
a lookup that compares hash keys alone can find one node only. `RowGoes` and `NodeComes` say what becomes of rows,
keys and count when a row of nodes goes and when a node comes.

### The timer table

`TmrWheelProof`, from `WheelAssumption` (at least one slot; `NULL` is no node and no slot), for any nodes, any
size of the wheel, any times and jumps of the clock:

| Theorem | Says |
|---|---|
| `WheelInductive` | `Spec => []WheelInv` |
| `WheelStaysExact` | `Spec => []WheelExact` |
| `ServiceImplemented` | `Spec => ImplementsService`: every step maps to a step of `TmrService` or a stutter |

The argument. The code has links, not lists, so `WheelInv` says that there *are* sequences `L`, one for each slot,
which the links spell out (`Table`); a call then appends to, or takes a place out of, one of them, and the links it
sets in the order the code has are those of the new sequence (`TakenOut` and its lemmas). The walk of the handler is a
place in one sequence. What it owes is `Ahead`: a timer in use is due later than the tick of the walk, or now, and then
it is the node the walk comes to next or behind that one. This survives what a callback does, because a new or moved
node goes to the end of its slot. It is claimed until a callback cancels the saved next node (`cut`, section 2).
That slots are well linked is stated in `TmrWheel` by a walk along the links, a recursive function: it is shown to
return the sequence by the least place where it would not.

### The token cache

`TokenCacheProof`, from `CacheAssumption`: an insertion is not held up between reading the tick and linking
for as long as a token lives, and a term and a turn of the main loop together are less than a lap of the
wheel. Both are assumptions on scheduling and on the configuration; the code does not enforce them.

| Theorem | Says |
|---|---|
| `CacheInductive` | `Spec => []CacheInv` |
| `CacheStaysExact` | `Spec => []CacheExact` |
| `NoRaceInSlot` | `Spec => []NoSlotRace` |
| `HitsAreFresh` | `Spec => HitIsFresh`, an action property |

The argument. The handler walks a slot without the lock, while its callbacks free nodes and requests link others.
`CacheInv` says that every node in the timer table is due after the tick the handler left off at and less
than a lap later. So the slot the handler is at holds exactly the nodes due at its tick, a request
links a node into another slot, and the first node of the slot is always the next to fire.

### The loggers

`LogLibProof`, from `LogAssumption` (a queue of at least two slots, at least one level), for any callers, names,
loggers, appenders and number of calls:

| Theorem | Says |
|---|---|
| `LogInductive` | `Spec => []LogInv` |
| `LogTypeCorrect` | `Spec => []TypeOK` |
| `MessagesStayAccounted` | `Spec => []Accounting` |
| `MemoryStaysHeld` | `Spec => []MemoryHeld` |
| `MaxKeepsCovering` | `Spec => []MaxCovers` |

The argument has three parts. *Messages*: what a logger wrote, has in hand and has queued is one sorted line,
to whose end each accepted message goes; only the queue is ever lost. `Waits` records that when the thread
found its queue empty everything accepted before was out, so what is dropped at the end came later.
*Memory*: a thread holds the mutex of the appenders exactly while it walks them (`Threads`), and a
logger that has a name, or is about to get one, has it alone, is allocated and not cancelled (`Registered`).
*Levels*: as long as nobody changes a level, one caller at a time raises the maximum, and writes only what is
above it (`Covered`); with two at once (`mixed`) the property is false, and it says so.

### The file appender

`LogLibProof` proves of `LogFile`, from `FileAssumption` (messages are not empty and there is a longest one), for any
number of hours, of files kept, of messages and restarts, and any size:

| Theorem | Says |
|---|---|
| `FileInductive` | `FileSpec => []FileInv` |
| `OldestStaysLost` | `FileSpec => []OnlyOldestLost` |
| `FilesStayBounded` | `FileSpec => []FilesBounded` |

The argument. A file is a *piece* of the history of its place: `Pieces` gives each file the position where it
begins, and each ends where the next younger one begins. The rotation renames from the highest number down. That
this moves every piece up by one (`RotateIs`) is right only if the numbers in use have no gap (`NoGap`), since a number that
is not there is skipped; it then loses the piece of the highest number, which is in use only when all are
(`LostLast`). The size is bounded because the count the code compares with `maxLogSize` is never below the size
of the file it stands for (`Counted`), though it is kept apart from the file over restarts and failures. The sum of
the lengths, the rotation and the concatenation are recursive functions of the model; what they return is shown to
be a closed form by the least index where it would differ.

### The HTTP server

`ServerProof` proves of `RsvServer`, from `RsvAssumption` (`NULL` is no caller), for any callers, requests and number of calls:

| Theorem | Says |
|---|---|
| `RsvInductive` | `Spec => []RsvInv` |
| `SessionsStaySafe` | `Spec => []SessionsSafe` |
| `RulesStayStable` | `Spec => RulesStable`, an action property |

The argument. Unless Run was called on a running server, the flag, the handle, the daemon and the call
that stops it agree (`ServerAgrees`), and what each request has follows from where it is (`RequestsHave`). The sessions
are cleared by a call that has seen the daemon gone, and then the daemon holds no request.

### The hosts of the relay

`RlyHostProof`, from `HostAssumption` (at least one host, threads of one kind are not of another), for any
names, keys, threads and programs:

| Theorem | Says |
|---|---|
| `HostsInductive` | `HostSpec => []HostInv` |
| `HostsStayExact` | `HostSpec => []HostsExact` |
| `SendsGoRound` | `HostSpec => []RoundRobin` |

The argument. A host is with one thread or in the loop list (`LoopList`), so a thread that frees a host frees one
no other thread has. Making and freeing a host change the list, the id table and the names together,
so an id that a call kept always stands for a host (`HostTables`), but for the one a late reset wrote (`turned`), after which
a send starts at the first host. `RoundRobin` is not inductive: `Rounds` adds the distance of a host from the next start
(`Ahead`); a send to any starts one place further than the one before, so what a host was passed over by and
its distance together stay below the number of hosts. A late reset may move the start anywhere, by any
number of callers; the count of turns begins anew there, and the theorem claims no more.

### The realms of the relay

`TablesProof` proves of `RlyRlm`, from `RlmAssumption` (keys are numbers, a realm may have a host), for any
hosts, realms, keys and sizes:

| Theorem | Says |
|---|---|
| `RlmInductive` | `RlmSpec => []RlmInv` |
| `RlmStaysSends` | `RlmSpec => []RlmSends` |
| `RlmStaysReceives` | `RlmSpec => []RlmReceives` |

The argument. Sends and receives look at one host per step while hosts open, close, come and go. `SndOK` and `RcvOK` say
what such a walk knows of the buckets it has passed: none of their hosts was open, or had a message, for the whole
call. That turns come is a sum: how often a host was passed over, and how far round the ring its bucket still is from
the place the realm keeps (`Gap`), stay together below the number of hosts (`TurnsOK`, `WaitsOK`).

### The supervision client

`SessionProof` proves of `SmuSession`, from `SmuAssumption` (no time is 0), for any times, threads and jumps of the clock:

| Theorem | Says |
|---|---|
| `StaysSupervised` | `Spec => []Supervised` |
| `SessionClosedByFault` | `MaxMsgs > 1` implies `Spec => ClosedByFault`, an action property |

The argument. `Supervised` needs the types only, but a look at every handler. For `ClosedByFault` the count of unanswered
heartbeats must stay below 3 while there is no fault (`CloseInv`): a count of one, two means that one, two heartbeats
wait for the supervisor, unless an answer waits for the loop (`HbsWait`); the loop takes all answers before it looks at
its timers; and when a timer is due at most one message waits for the supervisor (`DueLate`), as the run assumes. With
`MaxMsgs` of 1 a second message could not even be sent.

### The connections of the relay

`SessionProof` proves of `RlyLink`, from `LinkAssumption` (no time is 0, a client has a connection), for any number of
connections and sockets, any times and any faults:

| Theorem | Says |
|---|---|
| `CntInductive` | `LinkSpec => []CntInv` |
| `LinkCounted` | `LinkSpec => []CountExact` |
| `TimeInductive` | `LinkSpec => []TimeInv` |
| `NeverFalseAlarm` | `HBeatTm >= HBeatSndTm + 4` implies `LinkSpec => []NoFalseAlarm` |

The argument. A pass over a connection has six outcomes (`Outcome`); each changes that connection and its socket only. For
the count, `Struct` says what a socket looks like from both ends: who has it, and which messages may be on their way. An
answer to an init request comes once and not to an open connection, which is why no connection is counted twice, and a
connection that is closed but has a heartbeat to send is still counted. For time, `Pace` adds the age of an open
connection on which nothing waits to the ticks its other end has left until the next heartbeat: the sum is at most
`HBeatSndTm + 3`, because each end makes a pass between two ticks (`Fresh`); a client that waits for its answer bounds the
age of the server's connection by the passes it has made (`Young`). Ticks come at any moment of a pass, so what a pass
makes of a connection is stated for the tick that it read and carried over to the current one (`OutcomeBack`); a
pass is at most one tick behind (`Lagging`), since a tick in time waits for it, and a heartbeat it has yet to send may be
overdue by that tick (`Behind`). The
theorem excludes late ticks (`late`) and the heartbeat from after the tick of the pass (`ahead`), which closes a live
connection whatever the times are. The assumption of `NeverFalseAlarm` is met by the defaults
of the code; a configuration may break it, and the false alarm then comes (section 3).

### The models and the proofs

The properties were model-checked on small instances before they were proved, and the models are written for both:
where a fold of the community modules stood, `LogFile` and `TmrWheel` have a recursive function. The proofs found one fault of
a model that TLC hides: a `CASE` of `LogFile` had arms whose guards overlap. TLC takes the first of them, as was
meant, but the meaning of TLA+ is any. That `CASE`, and two like it in `RlyLink` and `Rrl`, are now nested IFs.
The bounds on counters (`MaxCalls`, `MaxJob`, `MaxTick`, `MaxCnt` and the like) are constants of the theorems, so they hold for
every bound.

### Only model-checked

* Liveness, which is out of the prover's reach, and with it the fairness of section 4.
* `MsgBuf`, which follows chains by RECURSIVE operators, which switch the SMT prover off, and `Rrl`, which
  folds over the segments of a path and the parameters of a query.
* `NoLoss` of `RlyLink`.

## 7. Not modelled

* Waiting and bulk calls of the queue (only test programs use them). They lose wake-ups.
* Bytes of the relay's connections: the header of a message read in pieces (`rlylibInt_msg.c`), a
  write that the kernel takes in part. `RlyLink` has whole messages. (Seen by reading: after a partial
  write the next one starts at the wrong offset, and a rest of fewer than 12 bytes waits for more.)
* Wrappers of system calls (mutexes, threads, strings, memory, files); tables of constants
  (`htplib`); empty files (`comlib_rbTree.c`, `skpLst`, `blomFltr`); third-party TOML parser; build
  files and test programs.
* Database queries and dates (`rss_query.c`, `rss_date.c`, `rss_connDB.c`) and the HTTP client
  (`rcllib`): one external call per request.
* Loading of a logger configuration: makes loggers and appenders one after the other through the
  calls of `LogLib`, before there are threads.
* Display settings of appenders, simulator rules of `rsvlib`, log functions and signal functions of
  `smulib` (a signal registered twice returns with their mutex locked, `smulibInt_sig.c:74`).
* Wildcards (`wldlib`): a pure function that no part of the program calls.

## 8. Plan

Done: all modules of section 2. What would add most next:

1. `RlyStream` - framing of messages over partial reads and writes, refining the whole messages of `RlyLink`.
2. The signal functions and the list of blocked threads of `smulib`, with the mutex they leave locked.
3. Proofs: `NoLoss` of `RlyLink`, and, with recursive functions in the place of its folds, `RulesRouted` of `Rrl`.
4. `Wildcard` and the configuration of loggers, as functions checked against a reference definition.
