---------------------------- MODULE LogLibProof ----------------------------
(***************************************************************************)
(* Theorems about the log library: LogLib, for any callers, names, loggers *)
(* and appenders, any size of the queue and any number of calls, and, in   *)
(* the last part, LogFile.                                                 *)
(*                                                                         *)
(* Messages: what a logger wrote, has in hand and has queued is one line   *)
(* of messages, to whose end each accepted message goes (InOrder); of it   *)
(* only the queue is ever lost, and only what came after the thread had    *)
(* found it empty when the thread ends (Waits).                            *)
(*                                                                         *)
(* Memory: a thread holds the mutex of the appenders exactly while it      *)
(* walks them (Threads), and a logger that has a name, or is about to get  *)
(* one, has it alone and is not cancelled (Registered).                    *)
(*                                                                         *)
(* Levels: while nobody changes a level, one caller at a time raises the   *)
(* maximum, and it writes only what is above it (Covered).                 *)
(***************************************************************************)
EXTENDS LogLib, LogFile, TLAPS, SequenceTheorems, FiniteSetTheorems, WellFoundedInduction

PcLabels == {"idle", "clear", "init", "reg", "cnt", "cntWr", "maxTst", "maxWr", "setLvl",
             "spin", "write", "regApnd", "deregApnd", "join", "joining"}
ThrLabels == {"none", "pop", "wait", "cancelled", "gone", "hand", "walk"}
Args == [name : Names \cup Apnds, lvl : Levels, cb : Cbs \cup {NULL}, tmp : Int]

(* The types of the table, of the calls, and of the loggers.               *)
TableTypes ==
  /\ globMutx \in Callers \cup {NULL}
  /\ slot \in [Names -> Cbs \cup {NULL}]
  /\ maxLogLvl \in [Levels -> Int] /\ maxLogLvlVal \in Levels
  /\ calls \in 0 .. MaxCalls /\ memErr \in BOOLEAN /\ mixed \in BOOLEAN

CallTypes ==
  /\ pc \in [Callers -> PcLabels]
  /\ arg \in [Callers -> Args]
  /\ \A c \in Callers : pc[c] \in {"clear", "init", "reg", "write"} => arg[c].name \in Names
  /\ \A c \in Callers : pc[c] \in {"regApnd", "deregApnd"} => arg[c].name \in Apnds

CbTypes ==
  /\ live \subseteq used /\ used \subseteq Cbs
  /\ wrType \in [Cbs -> {"DIR", "THRD"}] /\ lvl \in [Cbs -> Levels]
  /\ apnds \in [Cbs -> Seq(Apnds)]

ThrTypes ==
  /\ thr \in [Cbs -> ThrLabels]
  /\ cncl \in [Cbs -> BOOLEAN] /\ thrMutx \in [Cbs -> BOOLEAN]
  /\ walk \in [Cbs -> Seq(Apnds)]

MsgTypes ==
  /\ que \in [Cbs -> Seq(Nat)] /\ hand \in [Cbs -> Seq(Nat)] /\ out \in [Cbs -> Seq(Nat)]
  /\ \A b \in Cbs : Len(que[b]) < QMax
  /\ first \in [Cbs -> 0 .. QMax - 1]
  /\ acc \in [Cbs -> SUBSET Nat] /\ overrun \in [Cbs -> SUBSET Nat] /\ dropped \in [Cbs -> SUBSET Nat]
  /\ idleAt \in [Cbs -> Nat]

LogTypes == TableTypes /\ CallTypes /\ CbTypes /\ ThrTypes /\ MsgTypes

(* A logger that is not made yet has nothing, one that writes directly has *)
(* no thread, and the thread has the mutex while it walks the appenders.   *)
ThreadFits(b) ==
  /\ thr[b] = "none" <=> wrType[b] = "DIR"
  /\ b \notin used => thr[b] = "none" /\ ~cncl[b]
  /\ thr[b] \in {"cancelled", "gone"} => cncl[b]
  /\ thrMutx[b] <=> thr[b] = "walk"
  /\ thr[b] # "walk" => walk[b] = << >>

Threads == \A b \in Cbs : ThreadFits(b)

(* A message is in hand only between the pop and the end of its writing.   *)
(* A thread that waits has written everything up to idleAt, and what is    *)
(* queued came later; so has what was freed when it ended.                 *)
WaitFits(b) ==
  /\ thr[b] \notin {"hand", "walk"} => hand[b] = << >>
  /\ thr[b] = "none" => que[b] = << >>
  /\ dropped[b] # {} => thr[b] = "gone"
  /\ thr[b] \in {"wait", "cancelled", "gone"} =>
       /\ \A m \in ToSet(out[b]) : m <= idleAt[b]
       /\ \A m \in ToSet(que[b]) \cup dropped[b] : m > idleAt[b]

Waits == \A b \in Cbs : WaitFits(b)

(* The messages are numbered without a gap, and so the next number is new. *)
Numbered == \E n \in Nat : Accepted = 1 .. n /\ \A b \in Cbs : idleAt[b] <= n

(* A logger that has a name, or that a caller is about to register.        *)
Named(b) ==
  \/ \E n \in Names : slot[n] = b
  \/ \E c \in Callers : pc[c] = "reg" /\ arg[c].cb = b

Registered ==
  /\ \A b \in Cbs : Named(b) => b \in live /\ ~cncl[b]
  /\ \A n, k \in Names : slot[n] = slot[k] /\ slot[n] # NULL => n = k
  /\ \A c \in Callers : pc[c] = "reg" =>
       /\ arg[c].cb # NULL
       /\ \A n \in Names : slot[n] # arg[c].cb
       /\ \A d \in Callers : pc[d] = "reg" /\ arg[d].cb = arg[c].cb => d = c
  /\ \A c \in Callers : pc[c] \in {"join", "joining"} => arg[c].cb # NULL /\ cncl[arg[c].cb]
  /\ \A c \in Callers : pc[c] \in {"cnt", "cntWr", "maxTst", "maxWr", "setLvl", "regApnd", "deregApnd"} =>
       arg[c].cb \in used

(* While no level is changed: who sets a logger up has its level, and one  *)
(* caller at a time is past the counter.                                   *)
Setting(c) == pc[c] \in {"reg", "cnt", "cntWr", "maxTst", "maxWr"}

LevelsKept ==
  /\ \A c \in Callers : pc[c] # "setLvl"
  /\ \A c, d \in Callers : SettingMax(c) /\ SettingMax(d) => c = d
  /\ \A c \in Callers : Setting(c) => arg[c].cb \in used /\ lvl[arg[c].cb] = arg[c].lvl
  /\ \A c \in Callers : pc[c] = "maxWr" => maxLogLvlVal < arg[c].lvl
  /\ \A n \in Names, b \in Cbs : slot[n] = b /\ ~SetUp(b) => lvl[b] <= maxLogLvlVal

Covered == mixed \/ LevelsKept

LogInv ==
  /\ LogTypes
  /\ Threads /\ WalkSafe
  /\ Registered
  /\ Covered
  /\ Numbered /\ MessagesAccounted /\ Waits

-----------------------------------------------------------------------------
(* Lists of appenders and lines of messages *)

LEMMA SeqFacts ==
  ASSUME NEW S, NEW s \in Seq(S)
  PROVE  /\ Len(s) \in Nat /\ DOMAIN s = 1 .. Len(s)
         /\ \A i \in 1 .. Len(s) : s[i] \in S /\ s[i] \in ToSet(s)
         /\ \A x : x \in ToSet(s) <=> \E i \in 1 .. Len(s) : s[i] = x
         /\ ToSet(s) \subseteq S
         /\ s = << >> <=> Len(s) = 0
<1>1. Len(s) \in Nat /\ DOMAIN s = 1 .. Len(s) /\ \A i \in 1 .. Len(s) : s[i] \in S
  BY LenProperties
<1>2. s = << >> <=> Len(s) = 0
  BY EmptySeq
<1>3. \A x : x \in ToSet(s) <=> \E i \in 1 .. Len(s) : s[i] = x
  BY <1>1 DEF ToSet
<1>4. ToSet(s) \subseteq S
  BY <1>1, <1>3
<1>5. QED BY <1>1, <1>2, <1>3, <1>4

LEMMA EmptyFacts == ToSet(<< >>) = {} /\ \A S : << >> \in Seq(S)
BY EmptySeq DEF ToSet

LEMMA AppendFacts ==
  ASSUME NEW S, NEW s \in Seq(S), NEW x \in S
  PROVE  /\ Append(s, x) \in Seq(S) /\ Len(Append(s, x)) = Len(s) + 1
         /\ ToSet(Append(s, x)) = ToSet(s) \cup {x}
<1>1. /\ Append(s, x) \in Seq(S)
      /\ Len(Append(s, x)) = Len(s) + 1
      /\ \A i \in 1 .. Len(s) : Append(s, x)[i] = s[i]
      /\ Append(s, x)[Len(s) + 1] = x
  BY AppendProperties
<1>2. Len(s) \in Nat /\ \A y : y \in ToSet(s) <=> \E i \in 1 .. Len(s) : s[i] = y
  BY SeqFacts
<1>3. \A y : y \in ToSet(Append(s, x)) <=> \E i \in 1 .. Len(s) + 1 : Append(s, x)[i] = y
  <2> DEFINE t == Append(s, x)
  <2>1. t \in Seq(S) /\ Len(t) = Len(s) + 1
    BY <1>1
  <2> HIDE DEF t
  <2>2. \A y : y \in ToSet(t) <=> \E i \in 1 .. Len(s) + 1 : t[i] = y
    BY <2>1, SeqFacts
  <2>3. QED BY <2>2 DEF t
<1>4. 1 .. Len(s) + 1 = (1 .. Len(s)) \cup {Len(s) + 1}
  BY <1>2
<1>5. QED BY <1>1, <1>2, <1>3, <1>4

LEMMA ConcatFacts ==
  ASSUME NEW S, NEW s \in Seq(S), NEW t \in Seq(S)
  PROVE  /\ s \o t \in Seq(S) /\ Len(s \o t) = Len(s) + Len(t)
         /\ \A i \in 1 .. Len(s) : (s \o t)[i] = s[i]
         /\ \A i \in 1 .. Len(t) : (s \o t)[Len(s) + i] = t[i]
         /\ ToSet(s \o t) = ToSet(s) \cup ToSet(t)
<1>1. /\ s \o t \in Seq(S) /\ Len(s \o t) = Len(s) + Len(t)
      /\ \A i \in 1 .. Len(s) + Len(t) : (s \o t)[i] = IF i <= Len(s) THEN s[i] ELSE t[i - Len(s)]
  BY ConcatProperties
<1>2. Len(s) \in Nat /\ Len(t) \in Nat
  BY SeqFacts
<1>3. \A i \in 1 .. Len(s) : i \in 1 .. Len(s) + Len(t) /\ (s \o t)[i] = s[i]
  BY <1>1, <1>2
<1>4. \A i \in 1 .. Len(t) : Len(s) + i \in 1 .. Len(s) + Len(t) /\ (s \o t)[Len(s) + i] = t[i]
  BY <1>1, <1>2
<1>5. \A i \in 1 .. Len(s) + Len(t) : \/ i \in 1 .. Len(s) /\ (s \o t)[i] = s[i]
                                      \/ i - Len(s) \in 1 .. Len(t) /\ (s \o t)[i] = t[i - Len(s)]
  BY <1>1, <1>2
<1>6. ToSet(s \o t) = ToSet(s) \cup ToSet(t)
  <2>1. \A x : x \in ToSet(s \o t) <=> \E i \in 1 .. Len(s) + Len(t) : (s \o t)[i] = x
    <3> DEFINE u == s \o t
    <3>1. u \in Seq(S) /\ Len(u) = Len(s) + Len(t)
      BY <1>1
    <3> HIDE DEF u
    <3>2. \A x : x \in ToSet(u) <=> \E i \in 1 .. Len(u) : u[i] = x
      BY <3>1, SeqFacts
    <3>3. QED BY <3>1, <3>2 DEF u
  <2>2. \A x : x \in ToSet(s) <=> \E i \in 1 .. Len(s) : s[i] = x
    BY SeqFacts
  <2>3. \A x : x \in ToSet(t) <=> \E i \in 1 .. Len(t) : t[i] = x
    BY SeqFacts
  <2>4. QED BY <2>1, <2>2, <2>3, <1>3, <1>4, <1>5, ZenonT(60)
<1>7. QED BY <1>1, <1>3, <1>4, <1>6

LEMMA RemoveAtFacts ==
  ASSUME NEW S, NEW s \in Seq(S), NEW i \in 1 .. Len(s)
  PROVE  RemoveAt(s, i) \in Seq(S)
<1>1. Len(s) \in Nat /\ \A k \in 1 .. Len(s) : s[k] \in S
  BY SeqFacts
<1>2. SubSeq(s, 1, i - 1) \in Seq(S) /\ SubSeq(s, i + 1, Len(s)) \in Seq(S)
  BY <1>1, SubSeqProperties
<1>3. QED BY <1>2, ConcatFacts DEF RemoveAt

LEMMA TailFacts ==
  ASSUME NEW S, NEW s \in Seq(S), s # << >>
  PROVE  /\ Tail(s) \in Seq(S) /\ Head(s) \in S /\ <<Head(s)>> \in Seq(S)
         /\ Len(Tail(s)) = Len(s) - 1
         /\ \A i \in 1 .. Len(s) - 1 : Tail(s)[i] = s[i + 1]
         /\ Head(s) = s[1] /\ s = <<Head(s)>> \o Tail(s)
         /\ ToSet(Tail(s)) \subseteq ToSet(s)
<1>1. Len(s) \in Nat /\ Len(s) >= 1 /\ \A i \in 1 .. Len(s) : s[i] \in S /\ s[i] \in ToSet(s)
  BY SeqFacts
<1>2. /\ Tail(s) \in Seq(S) /\ Head(s) \in S
      /\ Len(Tail(s)) = Len(s) - 1
      /\ \A i \in 1 .. Len(s) - 1 : Tail(s)[i] = s[i + 1]
      /\ Head(s) = s[1]
  BY <1>1, HeadTailProperties
<1>3. <<Head(s)>> \in Seq(S) /\ Len(<<Head(s)>>) = 1 /\ <<Head(s)>>[1] = s[1]
  BY <1>2
<1>4. s = <<Head(s)>> \o Tail(s)
  <2> DEFINE t == <<Head(s)>> \o Tail(s)
  <2>1. t \in Seq(S) /\ Len(t) = Len(s)
    BY <1>1, <1>2, <1>3, ConcatFacts
  <2>2. ASSUME NEW i \in 1 .. Len(s) PROVE t[i] = s[i]
    <3>1. CASE i = 1  BY <3>1, <1>3, ConcatFacts, <1>2
    <3>2. CASE i # 1
      <4>1. i - 1 \in 1 .. Len(Tail(s)) /\ i = 1 + (i - 1)
        BY <3>2, <1>1, <1>2
      <4>2. t[1 + (i - 1)] = Tail(s)[i - 1]
        BY <4>1, <1>2, <1>3, ConcatFacts
      <4>3. QED BY <4>1, <4>2, <1>2
    <3>3. QED BY <3>1, <3>2
  <2>3. QED BY <2>1, <2>2, SeqEqual
<1>5. ToSet(Tail(s)) \subseteq ToSet(s)
  <2>1. ToSet(s) = ToSet(<<Head(s)>>) \cup ToSet(Tail(s))
    BY <1>2, <1>3, <1>4, ConcatFacts, ZenonT(60)
  <2>2. QED BY <2>1
<1>6. QED BY <1>2, <1>3, <1>4, <1>5

Sorted(s) == \A i, j \in DOMAIN s : i < j => s[i] < s[j]

(* A message above all those of a line goes to its end, ...                *)
LEMMA SortedAppend ==
  ASSUME NEW s \in Seq(Nat), Sorted(s), NEW x \in Nat, \A y \in ToSet(s) : y < x
  PROVE  Sorted(Append(s, x))
<1>1. /\ Append(s, x) \in Seq(Nat) /\ Len(Append(s, x)) = Len(s) + 1
      /\ \A i \in 1 .. Len(s) : Append(s, x)[i] = s[i]
      /\ Append(s, x)[Len(s) + 1] = x
  BY AppendProperties
<1>2. Len(s) \in Nat /\ DOMAIN s = 1 .. Len(s) /\ DOMAIN Append(s, x) = 1 .. Len(s) + 1
      /\ \A i \in 1 .. Len(s) : s[i] \in ToSet(s)
  <2>1. Len(s) \in Nat /\ DOMAIN s = 1 .. Len(s) /\ \A i \in 1 .. Len(s) : s[i] \in ToSet(s)
    BY SeqFacts
  <2>2. DOMAIN Append(s, x) = 1 .. Len(Append(s, x))
    BY <1>1, LenProperties
  <2>3. QED BY <1>1, <2>1, <2>2
<1>3. QED BY <1>1, <1>2 DEF Sorted

(* ... and what is in front of a part of it is in order and not in that    *)
(* part.                                                                   *)
LEMMA SortedPrefix ==
  ASSUME NEW s \in Seq(Nat), NEW t \in Seq(Nat), Sorted(s \o t)
  PROVE  Sorted(s) /\ ToSet(s) \cap ToSet(t) = {}
<1>1. /\ s \o t \in Seq(Nat) /\ Len(s \o t) = Len(s) + Len(t)
      /\ \A i \in 1 .. Len(s) : (s \o t)[i] = s[i]
      /\ \A i \in 1 .. Len(t) : (s \o t)[Len(s) + i] = t[i]
  BY ConcatFacts
<1>2. /\ Len(s) \in Nat /\ DOMAIN s = 1 .. Len(s)
      /\ \A x : x \in ToSet(s) <=> \E i \in 1 .. Len(s) : s[i] = x
      /\ \A i \in 1 .. Len(s) : s[i] \in Nat
  BY SeqFacts
<1>3. /\ Len(t) \in Nat
      /\ \A x : x \in ToSet(t) <=> \E i \in 1 .. Len(t) : t[i] = x
      /\ \A i \in 1 .. Len(t) : t[i] \in Nat
  BY SeqFacts
<1>4. DOMAIN (s \o t) = 1 .. Len(s) + Len(t)
  <2>1. DOMAIN (s \o t) = 1 .. Len(s \o t)
    BY <1>1, LenProperties
  <2>2. QED BY <2>1, <1>1
<1>5. Sorted(s)
  <2> SUFFICES ASSUME NEW i \in 1 .. Len(s), NEW j \in 1 .. Len(s), i < j PROVE s[i] < s[j]
    BY <1>2 DEF Sorted
  <2>1. i \in DOMAIN (s \o t) /\ j \in DOMAIN (s \o t)
    BY <1>2, <1>3, <1>4
  <2>2. (s \o t)[i] < (s \o t)[j]
    BY <2>1 DEF Sorted
  <2>3. QED BY <2>2, <1>1
<1>6. ASSUME NEW i \in 1 .. Len(s), NEW j \in 1 .. Len(t) PROVE s[i] < t[j]
  <2>1. i \in 1 .. Len(s) + Len(t) /\ Len(s) + j \in 1 .. Len(s) + Len(t) /\ i < Len(s) + j
    BY <1>2, <1>3
  <2>2. (s \o t)[i] < (s \o t)[Len(s) + j]
    BY <2>1, <1>4 DEF Sorted
  <2>3. QED BY <2>2, <1>1
<1>7. ToSet(s) \cap ToSet(t) = {}
  BY <1>2, <1>3, <1>6
<1>8. QED BY <1>5, <1>7

LEMMA AppendEnd ==
  ASSUME NEW s \in Seq(Nat), NEW t \in Seq(Nat), NEW x \in Nat
  PROVE  s \o Append(t, x) = Append(s \o t, x)
<1> DEFINE u == s \o t
<1>1. <<x>> \in Seq(Nat) /\ u \in Seq(Nat)
  BY ConcatFacts
<1> HIDE DEF u
<1>2. Append(t, x) = t \o <<x>> /\ Append(u, x) = u \o <<x>>
  <2>1. Append(t, x) = t \o <<x>>  BY AppendIsConcat, Zenon
  <2>2. Append(u, x) = u \o <<x>>  BY <1>1, AppendIsConcat, Zenon
  <2>3. QED BY <2>1, <2>2
<1>3. s \o (t \o <<x>>) = (s \o t) \o <<x>>
  BY <1>1, ConcatAssociative
<1>4. QED BY <1>2, <1>3 DEF u

-----------------------------------------------------------------------------
(* Type correctness *)

LEMMA LogInvInit == Init => LogInv
<1> SUFFICES ASSUME Init PROVE LogInv
  OBVIOUS
<1> USE LogAssumption DEF LogAssumption
<1>1. LogTypes
  <2>1. None \in Levels /\ QMax \in Nat /\ QMax > 1 /\ 0 \in 0 .. QMax - 1
    BY DEF Levels, None
  <2>2. noArg \in Args
    BY <2>1 DEF noArg, Args
  <2>3. TableTypes
    <3>1. slot \in [Names -> Cbs \cup {NULL}] /\ maxLogLvl \in [Levels -> Int]
      BY DEF Init
    <3>2. 0 \in 0 .. MaxCalls
      OBVIOUS
    <3>3. QED BY <2>1, <3>1, <3>2 DEF Init, TableTypes
  <2>4. CallTypes
    <3>1. pc \in [Callers -> PcLabels] /\ \A c \in Callers : pc[c] = "idle"
      BY DEF Init, PcLabels
    <3>2. arg \in [Callers -> Args]
      BY <2>2 DEF Init
    <3>3. QED BY <3>1, <3>2 DEF CallTypes
  <2>5. CbTypes
    <3>1. lvl \in [Cbs -> Levels] /\ wrType \in [Cbs -> {"DIR", "THRD"}]
      BY <2>1 DEF Init
    <3>2. apnds \in [Cbs -> Seq(Apnds)]
      BY EmptyFacts DEF Init
    <3>3. QED BY <3>1, <3>2 DEF Init, CbTypes
  <2>6. ThrTypes
    <3>1. thr \in [Cbs -> ThrLabels] /\ cncl \in [Cbs -> BOOLEAN] /\ thrMutx \in [Cbs -> BOOLEAN]
      BY DEF Init, ThrLabels
    <3>2. walk \in [Cbs -> Seq(Apnds)]
      BY EmptyFacts DEF Init
    <3>3. QED BY <3>1, <3>2 DEF ThrTypes
  <2>7. MsgTypes
    <3>1. que \in [Cbs -> Seq(Nat)] /\ hand \in [Cbs -> Seq(Nat)] /\ out \in [Cbs -> Seq(Nat)]
      BY EmptyFacts DEF Init
    <3>2. \A b \in Cbs : Len(que[b]) < QMax
      BY <2>1, EmptySeq DEF Init
    <3>3. QED BY <2>1, <3>1, <3>2 DEF Init, MsgTypes
  <2>8. QED BY <2>3, <2>4, <2>5, <2>6, <2>7 DEF LogTypes
<1>2. Threads /\ WalkSafe
  BY DEF Init, Threads, ThreadFits, WalkSafe
<1>3. Registered
  BY DEF Init, Registered, Named
<1>4. Covered
  BY DEF Init, Covered, LevelsKept, SettingMax, Setting
<1>5. Numbered
  <2>1. Accepted = 1 .. 0
    BY DEF Init, Accepted
  <2>2. 0 \in Nat /\ \A b \in Cbs : idleAt[b] <= 0
    BY DEF Init
  <2>3. QED BY <2>1, <2>2 DEF Numbered
<1>6. MessagesAccounted
  <2> SUFFICES ASSUME NEW b \in Cbs PROVE InOrder(b)
    BY DEF MessagesAccounted
  <2> DEFINE e == << >>
  <2>0. e \in Seq(Nat)
    BY EmptySeq
  <2> HIDE DEF e
  <2>1. out[b] \o hand[b] \o que[b] = << >>
    <3>1. out[b] = e /\ hand[b] = e /\ que[b] = e
      BY DEF Init, e
    <3>2. e \o e = e
      BY <2>0, ConcatEmptySeq DEF e
    <3>3. QED BY <3>1, <3>2 DEF e
  <2>2. QED BY <2>1, EmptyFacts, EmptySeq DEF Init, InOrder
<1>7. Waits
  BY EmptyFacts DEF Init, Waits, WaitFits
<1>8. QED BY <1>1, <1>2, <1>3, <1>4, <1>5, <1>6, <1>7 DEF LogInv

LEMMA ArgFacts ==
  /\ noArg \in Args /\ noArg.cb = NULL
  /\ \A l \in Levels, b \in Cbs \cup {NULL} :
       /\ [noArg EXCEPT !.lvl = l, !.cb = b] \in Args
       /\ [noArg EXCEPT !.lvl = l, !.cb = b].cb = b
  /\ \A n \in Names, l \in Levels :
       /\ [noArg EXCEPT !.name = n, !.lvl = l] \in Args
       /\ [noArg EXCEPT !.name = n, !.lvl = l].name = n
       /\ [noArg EXCEPT !.name = n, !.lvl = l].lvl = l
       /\ [noArg EXCEPT !.name = n, !.lvl = l].cb = NULL
  /\ \A n \in Names, l \in Levels, b \in Cbs \cup {NULL} :
       /\ [noArg EXCEPT !.name = n, !.lvl = l, !.cb = b] \in Args
       /\ [noArg EXCEPT !.name = n, !.lvl = l, !.cb = b].lvl = l
       /\ [noArg EXCEPT !.name = n, !.lvl = l, !.cb = b].cb = b
  /\ \A n \in Names \cup Apnds, b \in Cbs \cup {NULL} :
       /\ [noArg EXCEPT !.cb = b, !.name = n] \in Args
       /\ [noArg EXCEPT !.cb = b, !.name = n].name = n
       /\ [noArg EXCEPT !.cb = b, !.name = n].cb = b
<1> USE LogAssumption DEF LogAssumption
<1>1. None \in Levels /\ 0 \in Int
  BY DEF Levels, None
<1>2. noArg \in Args /\ noArg.cb = NULL
  BY <1>1 DEF noArg, Args
<1>3. ASSUME NEW l \in Levels, NEW b \in Cbs \cup {NULL}
      PROVE  /\ [noArg EXCEPT !.lvl = l, !.cb = b] \in Args
             /\ [noArg EXCEPT !.lvl = l, !.cb = b].cb = b
  BY <1>1 DEF noArg, Args
<1>4. ASSUME NEW n \in Names, NEW l \in Levels
      PROVE  /\ [noArg EXCEPT !.name = n, !.lvl = l] \in Args
             /\ [noArg EXCEPT !.name = n, !.lvl = l].name = n
             /\ [noArg EXCEPT !.name = n, !.lvl = l].lvl = l
             /\ [noArg EXCEPT !.name = n, !.lvl = l].cb = NULL
  BY <1>1 DEF noArg, Args
<1>5. ASSUME NEW n \in Names, NEW l \in Levels, NEW b \in Cbs \cup {NULL}
      PROVE  /\ [noArg EXCEPT !.name = n, !.lvl = l, !.cb = b] \in Args
             /\ [noArg EXCEPT !.name = n, !.lvl = l, !.cb = b].lvl = l
             /\ [noArg EXCEPT !.name = n, !.lvl = l, !.cb = b].cb = b
  BY <1>1 DEF noArg, Args
<1>6. ASSUME NEW n \in Names \cup Apnds, NEW b \in Cbs \cup {NULL}
      PROVE  /\ [noArg EXCEPT !.cb = b, !.name = n] \in Args
             /\ [noArg EXCEPT !.cb = b, !.name = n].name = n
             /\ [noArg EXCEPT !.cb = b, !.name = n].cb = b
  BY <1>1 DEF noArg, Args
<1>7. QED BY <1>2, <1>3, <1>4, <1>5, <1>6

LEMMA BeginTypes ==
  ASSUME TableTypes, CallTypes, NEW c \in Callers, NEW label \in PcLabels, NEW a \in Args,
         Begin(c, label, a),
         label \in {"clear", "init", "reg", "write"} => a.name \in Names,
         label \in {"regApnd", "deregApnd"} => a.name \in Apnds
  PROVE  CallTypes' /\ calls' \in 0 .. MaxCalls
<1>1. calls' \in 0 .. MaxCalls
  BY LogAssumption DEF LogAssumption, TableTypes, Begin
<1>2. pc' \in [Callers -> PcLabels] /\ pc'[c] = label /\ \A d \in Callers : d # c => pc'[d] = pc[d]
  BY DEF CallTypes, Begin, Goto
<1>3. arg' \in [Callers -> Args] /\ arg'[c] = a /\ \A d \in Callers : d # c => arg'[d] = arg[d]
  BY DEF CallTypes, Begin
<1>4. QED BY <1>1, <1>2, <1>3 DEF CallTypes

LEMMA GotoTypes ==
  ASSUME CallTypes, NEW c \in Callers, NEW label \in PcLabels, Goto(c, label), arg' = arg,
         label \in {"clear", "init", "reg", "write"} => arg[c].name \in Names,
         label \notin {"regApnd", "deregApnd"}
  PROVE  CallTypes'
<1>1. pc' \in [Callers -> PcLabels] /\ pc'[c] = label /\ \A d \in Callers : d # c => pc'[d] = pc[d]
  BY DEF CallTypes, Goto
<1>2. QED BY <1>1 DEF CallTypes

LEMMA ReturnTypes ==
  ASSUME TableTypes, CallTypes, NEW c \in Callers, Return(c)
  PROVE  CallTypes' /\ globMutx' \in Callers \cup {NULL} /\ calls' = calls
<1>1. pc' \in [Callers -> PcLabels] /\ pc'[c] = "idle" /\ \A d \in Callers : d # c => pc'[d] = pc[d]
  BY DEF CallTypes, Return, Goto, PcLabels
<1>2. arg' \in [Callers -> Args] /\ \A d \in Callers : d # c => arg'[d] = arg[d]
  BY ArgFacts DEF CallTypes, Return
<1>3. globMutx' \in Callers \cup {NULL} /\ calls' = calls
  BY DEF TableTypes, Return
<1>4. QED BY <1>1, <1>2, <1>3 DEF CallTypes

LEMMA TypesSame ==
  /\ CallTypes /\ UNCHANGED <<pc, arg>> => CallTypes'
  /\ CbTypes /\ UNCHANGED cbVars => CbTypes'
  /\ ThrTypes /\ UNCHANGED <<thr, cncl, thrMutx, walk>> => ThrTypes'
  /\ MsgTypes /\ UNCHANGED <<que, hand, out, first, acc, overrun, dropped, idleAt>> => MsgTypes'
BY DEF CallTypes, CbTypes, cbVars, ThrTypes, MsgTypes

(* Memory errors change nothing else.                                      *)
LEMMA TypesMemErr ==
  ASSUME LogTypes, NEW c \in Callers, MemErr(c)
  PROVE  LogTypes'
<1>1. CallTypes' /\ CbTypes' /\ ThrTypes' /\ MsgTypes'
  BY TypesSame DEF LogTypes, MemErr, callVars, thrVars, histVars
<1>2. TableTypes'
  BY DEF LogTypes, TableTypes, MemErr, globVars, callVars, histVars
<1>3. QED BY <1>1, <1>2 DEF LogTypes

LEMMA TypesCall ==
  ASSUME LogTypes, NEW c \in Callers, Call(c)
  PROVE  LogTypes'
<1> USE LogAssumption DEF LogAssumption, LogTypes
<1>0. /\ \A n \in Names : slot[n] \in Cbs \cup {NULL}
      /\ \A b \in Cbs : lvl[b] \in Levels
      /\ {"clear", "init", "spin", "setLvl", "write", "regApnd", "deregApnd", "join"} \subseteq PcLabels
  BY DEF TableTypes, CbTypes, PcLabels
<1>1. ASSUME NEW l \in Levels, InitDflt(c, l) PROVE LogTypes'
  <2>2. CallTypes' /\ calls' \in 0 .. MaxCalls
    <3> DEFINE r == [noArg EXCEPT !.lvl = l, !.cb = slot[Default]]
    <3>0. slot[Default] \in Cbs \cup {NULL}
      BY <1>0
    <3>1. r \in Args /\ r.name \in Names
      <4>1. r \in Args  BY <3>0, ArgFacts
      <4>2. r.name = Default  BY DEF noArg
      <4>3. QED BY <4>1, <4>2
    <3>2. Begin(c, "clear", r)
      BY <1>1 DEF InitDflt
    <3> HIDE DEF r
    <3>3. QED BY <1>0, <3>1, <3>2, BeginTypes
  <2>3. CbTypes' /\ ThrTypes' /\ MsgTypes'
    BY <1>1, TypesSame DEF InitDflt, thrVars, histVars
  <2>4. TableTypes'
    BY <1>1, <2>2 DEF InitDflt, TableTypes, globVars, histVars
  <2>5. QED BY <2>2, <2>3, <2>4
<1>2. ASSUME NEW n \in Names, NEW l \in Levels, InitNamed(c, n, l) PROVE LogTypes'
  <2>2. CallTypes' /\ calls' \in 0 .. MaxCalls
    <3> DEFINE r == [noArg EXCEPT !.name = n, !.lvl = l]
    <3>1. r \in Args /\ r.name = n
      BY ArgFacts, Zenon
    <3>2. Begin(c, "init", r)
      BY <1>2 DEF InitNamed
    <3> HIDE DEF r
    <3>3. QED BY <1>0, <3>1, <3>2, BeginTypes
  <2>3. CbTypes' /\ ThrTypes' /\ MsgTypes'
    BY <1>2, TypesSame DEF InitNamed, thrVars, histVars
  <2>4. TableTypes'
    BY <1>2, <2>2 DEF InitNamed, TableTypes, globVars, histVars
  <2>5. QED BY <2>2, <2>3, <2>4
<1>3. ASSUME NEW n \in Names, NEW l \in Levels, SetLogLvl(c, n, l) PROVE LogTypes'
  <2> DEFINE rest == maxLogLvl[lvl[slot[n]]] - 1
             label == IF rest = 0 /\ lvl[slot[n]] # None THEN "spin" ELSE "setLvl"
  <2>1. slot[n] \in Cbs /\ lvl[slot[n]] \in Levels /\ rest \in Int /\ label \in {"spin", "setLvl"}
    BY <1>0, <1>3 DEF SetLogLvl, TableTypes
  <2>3. CallTypes' /\ calls' \in 0 .. MaxCalls
    <3> DEFINE r == [noArg EXCEPT !.name = n, !.lvl = l, !.cb = slot[n]]
    <3>0. slot[n] \in Cbs \cup {NULL}
      BY <1>0
    <3>1. r \in Args
      BY <3>0, ArgFacts, Zenon
    <3>2. Begin(c, label, r)
      BY <1>3 DEF SetLogLvl
    <3> HIDE DEF label, r
    <3>3. label \in PcLabels /\ label \notin {"clear", "init", "reg", "write", "regApnd", "deregApnd"}
      BY <2>1, <1>0
    <3>4. QED BY <3>1, <3>2, <3>3, BeginTypes
  <2>4. CbTypes' /\ ThrTypes' /\ MsgTypes'
    BY <1>3, TypesSame DEF SetLogLvl, thrVars
  <2>5. maxLogLvl' = [maxLogLvl EXCEPT ![lvl[slot[n]]] = rest] /\ maxLogLvlVal' \in Levels
    BY <1>3, <2>1 DEF SetLogLvl, TableTypes
  <2>6. maxLogLvl' \in [Levels -> Int]
    <3> HIDE DEF rest
    <3>1. QED BY <2>1, <2>5 DEF TableTypes
  <2>7. TableTypes'
    BY <1>3, <2>3, <2>5, <2>6 DEF SetLogLvl, TableTypes
  <2>8. QED BY <2>3, <2>4, <2>7
<1>4. ASSUME NEW n \in Names, NEW l \in Levels, LogMacro(c, n, l) PROVE LogTypes'
  <2>2. CallTypes' /\ calls' \in 0 .. MaxCalls
    <3> DEFINE r == [noArg EXCEPT !.name = n, !.lvl = l]
    <3>1. r \in Args /\ r.name = n
      BY ArgFacts, Zenon
    <3>2. Begin(c, "write", r)
      BY <1>4 DEF LogMacro
    <3> HIDE DEF r
    <3>3. QED BY <1>0, <3>1, <3>2, BeginTypes
  <2>3. CbTypes' /\ ThrTypes' /\ MsgTypes'
    BY <1>4, TypesSame DEF LogMacro, thrVars, histVars
  <2>4. TableTypes'
    BY <1>4, <2>2 DEF LogMacro, TableTypes, globVars, histVars
  <2>5. QED BY <2>2, <2>3, <2>4
<1>5. ASSUME NEW n \in Names, NEW a \in Apnds, CallApnd(c, n, a) PROVE LogTypes'
  <2>2. CallTypes' /\ calls' \in 0 .. MaxCalls
    <3> DEFINE r == [noArg EXCEPT !.cb = slot[n], !.name = a]
    <3>1. PICK op \in {"regApnd", "deregApnd"} : Begin(c, op, r)
      BY <1>5 DEF CallApnd
    <3>2. a \in Names \cup Apnds /\ op \in PcLabels /\ op \notin {"clear", "init", "reg", "write"}
      BY <1>0
    <3>3. r \in Args /\ r.name = a
      <4>1. slot[n] \in Cbs \cup {NULL}
        BY <1>0
      <4>2. QED BY <3>2, <4>1, ArgFacts, Zenon
    <3> HIDE DEF r
    <3>4. QED BY <3>1, <3>2, <3>3, BeginTypes
  <2>3. CbTypes' /\ ThrTypes' /\ MsgTypes'
    BY <1>5, TypesSame DEF CallApnd, thrVars, histVars
  <2>4. TableTypes'
    BY <1>5, <2>2 DEF CallApnd, TableTypes, histVars
  <2>5. QED BY <2>2, <2>3, <2>4
<1>6. CASE DstryNone(c)
  BY <1>6, TypesMemErr DEF DstryNone
<1>7. ASSUME NEW n \in Names, DstryDir(c, n) PROVE LogTypes'
  <2>1. CallTypes' /\ ThrTypes' /\ MsgTypes'
    BY <1>7, TypesSame DEF DstryDir, thrVars, histVars
  <2>2. CbTypes'
    <3>1. apnds' \in [Cbs -> Seq(Apnds)]
      BY <1>7, EmptyFacts DEF DstryDir, CbTypes
    <3>2. QED BY <1>7, <3>1 DEF DstryDir, CbTypes
  <2>3. TableTypes'
    BY <1>7 DEF DstryDir, TableTypes, histVars
  <2>4. QED BY <2>1, <2>2, <2>3
<1>8. ASSUME NEW n \in Names, DstryThrd(c, n) PROVE LogTypes'
  <2>2. CallTypes' /\ calls' \in 0 .. MaxCalls
    <3> DEFINE r == [noArg EXCEPT !.cb = slot[n], !.name = n]
    <3>1. r \in Args
      BY <1>0, ArgFacts
    <3>2. Begin(c, "join", r)
      BY <1>8 DEF DstryThrd
    <3> HIDE DEF r
    <3>3. QED BY <1>0, <3>1, <3>2, BeginTypes
  <2>3. CbTypes' /\ MsgTypes'
    BY <1>8, TypesSame DEF DstryThrd, histVars
  <2>4. ThrTypes'
    BY <1>8 DEF DstryThrd, ThrTypes
  <2>5. TableTypes'
    BY <1>8, <2>2 DEF DstryThrd, TableTypes, histVars
  <2>6. QED BY <2>2, <2>3, <2>4, <2>5
<1>9. QED BY <1>1, <1>2, <1>3, <1>4, <1>5, <1>6, <1>7, <1>8 DEF Call

LEMMA TargetFacts ==
  ASSUME TableTypes, NEW n \in Names
  PROVE  Target(n) \in Cbs \cup {NULL} /\ (Target(n) # NULL => \E k \in Names : slot[k] = Target(n))
BY LogAssumption DEF LogAssumption, TableTypes, Target

LEMMA TypesGoOn ==
  ASSUME LogTypes, Numbered, Registered, NEW c \in Callers, GoOn(c)
  PROVE  LogTypes'
<1> USE LogAssumption DEF LogAssumption, LogTypes
<1>0. /\ pc[c] \in PcLabels /\ arg[c] \in Args /\ arg[c].lvl \in Levels
      /\ arg[c].cb \in Cbs \cup {NULL} /\ arg[c].name \in Names \cup Apnds
      /\ {"clear", "init", "reg", "cnt", "cntWr", "maxTst", "maxWr", "joining"} \subseteq PcLabels
  BY DEF CallTypes, PcLabels, Args
<1>1. CASE InitClear(c)
  <2>1. CbTypes' /\ ThrTypes' /\ MsgTypes'
    BY <1>1, TypesSame DEF InitClear, thrVars, histVars
  <2>2. slot' \in [Names -> Cbs \cup {NULL}]
    BY <1>1 DEF InitClear, TableTypes
  <2>3. CASE arg[c].cb # NULL
    <3>1. Return(c)
      BY <1>1, <2>3 DEF InitClear
    <3>2. QED BY <1>1, <2>1, <2>2, <3>1, ReturnTypes DEF InitClear, TableTypes, histVars
  <2>4. CASE arg[c].cb = NULL
    <3>1. Goto(c, "init") /\ UNCHANGED <<globMutx, arg, calls>>
      BY <1>1, <2>4 DEF InitClear
    <3>2. arg[c].name \in Names
      BY <1>1 DEF InitClear, CallTypes
    <3>3. CallTypes'
      BY <1>0, <3>1, <3>2, GotoTypes
    <3>4. QED BY <1>1, <2>1, <2>2, <3>1, <3>3 DEF InitClear, TableTypes, histVars
  <2>5. QED BY <2>3, <2>4
<1>2. CASE InitCb(c)
  <2>1. PICK b \in Cbs \ used, w \in WrTypes, a \in {<< >>} \cup {<<x>> : x \in Apnds} :
          /\ live' = live \cup {b}
          /\ used' = used \cup {b}
          /\ wrType' = [wrType EXCEPT ![b] = w]
          /\ lvl' = [lvl EXCEPT ![b] = arg[c].lvl]
          /\ apnds' = [apnds EXCEPT ![b] = a]
          /\ thr' = [thr EXCEPT ![b] = IF w = "THRD" THEN "pop" ELSE "none"]
          /\ arg' = [arg EXCEPT ![c].cb = b]
    BY <1>2 DEF InitCb
  <2>2. a \in Seq(Apnds)
    <3>1. CASE a = << >>  BY <3>1, EmptyFacts
    <3>2. CASE \E x \in Apnds : a = <<x>>  BY <3>2
    <3>3. QED BY <3>1, <3>2
  <2>3. CbTypes'
    BY <1>0, <2>1, <2>2 DEF CbTypes
  <2>4. ThrTypes'
    BY <1>2, <2>1 DEF InitCb, ThrTypes, ThrLabels
  <2>5. MsgTypes'
    BY <1>2, TypesSame DEF InitCb, histVars
  <2>6. TableTypes'
    BY <1>2 DEF InitCb, TableTypes, globVars, histVars
  <2>7. CallTypes'
    <3>1. [arg[c] EXCEPT !.cb = b] \in Args /\ [arg[c] EXCEPT !.cb = b].name = arg[c].name
      BY <1>0 DEF Args
    <3>2. arg' \in [Callers -> Args] /\ arg'[c].name = arg[c].name
          /\ \A d \in Callers : d # c => arg'[d] = arg[d]
      BY <2>1, <3>1 DEF CallTypes
    <3>3. pc' \in [Callers -> PcLabels] /\ pc'[c] = "reg" /\ \A d \in Callers : d # c => pc'[d] = pc[d]
      BY <1>0, <1>2 DEF InitCb, CallTypes, Goto
    <3>4. pc[c] = "init"
      BY <1>2 DEF InitCb
    <3>5. QED BY <3>2, <3>3, <3>4 DEF CallTypes
  <2>8. QED BY <2>3, <2>4, <2>5, <2>6, <2>7
<1>3. CASE InitReg(c)
  <2>1. CbTypes' /\ ThrTypes' /\ MsgTypes'
    BY <1>3, TypesSame DEF InitReg, thrVars, histVars
  <2>2. arg[c].name \in Names
    BY <1>3 DEF InitReg, CallTypes
  <2>3. CASE arg[c].name # Default /\ slot[arg[c].name] # NULL
    <3>1. Return(c) /\ UNCHANGED slot
      BY <1>3, <2>3 DEF InitReg
    <3>2. QED BY <1>3, <2>1, <3>1, ReturnTypes DEF InitReg, TableTypes, histVars
  <2>4. CASE ~(arg[c].name # Default /\ slot[arg[c].name] # NULL)
    <3>1. Goto(c, "cnt") /\ UNCHANGED <<globMutx, arg, calls>>
          /\ slot' = [slot EXCEPT ![arg[c].name] = arg[c].cb]
      BY <1>3, <2>4 DEF InitReg
    <3>2. CallTypes'
      BY <1>0, <3>1, GotoTypes
    <3>3. slot' \in [Names -> Cbs \cup {NULL}]
      BY <1>0, <3>1 DEF TableTypes
    <3>4. QED BY <1>3, <2>1, <3>1, <3>2, <3>3 DEF InitReg, TableTypes, histVars
  <2>5. QED BY <2>3, <2>4
<1>4. CASE CntRead(c)
  <2>1. CbTypes' /\ ThrTypes' /\ MsgTypes'
    BY <1>4, TypesSame DEF CntRead, thrVars
  <2>2. CallTypes'
    <3> DEFINE k == maxLogLvl[arg[c].lvl]
    <3>1. k \in Int
      BY <1>0 DEF TableTypes
    <3>2. [arg[c] EXCEPT !.tmp = k] \in Args /\ [arg[c] EXCEPT !.tmp = k].name = arg[c].name
      BY <1>0, <3>1 DEF Args
    <3>3. arg' \in [Callers -> Args] /\ \A d \in Callers : d # c => arg'[d] = arg[d]
      BY <1>4, <3>2 DEF CntRead, CallTypes
    <3>4. pc' \in [Callers -> PcLabels] /\ pc'[c] = "cntWr" /\ \A d \in Callers : d # c => pc'[d] = pc[d]
      BY <1>0, <1>4 DEF CntRead, CallTypes, Goto
    <3>5. QED BY <3>3, <3>4 DEF CallTypes
  <2>3. mixed' \in BOOLEAN
    BY <1>4 DEF CntRead
  <2>4. TableTypes'
    BY <1>4, <2>3 DEF CntRead, TableTypes, globVars
  <2>5. QED BY <2>1, <2>2, <2>4
<1>5. CASE CntWrite(c)
  <2>1. CbTypes' /\ ThrTypes' /\ MsgTypes'
    BY <1>5, TypesSame DEF CntWrite, thrVars, histVars
  <2>2. CallTypes'
    BY <1>0, <1>5, GotoTypes DEF CntWrite
  <2>3. maxLogLvl' \in [Levels -> Int]
    <3>1. arg[c].tmp + 1 \in Int
      BY <1>0 DEF Args
    <3>2. QED BY <1>0, <1>5, <3>1 DEF CntWrite, TableTypes
  <2>4. QED BY <1>5, <2>1, <2>2, <2>3 DEF CntWrite, TableTypes, histVars
<1>6. CASE MaxTest(c)
  <2>1. CbTypes' /\ ThrTypes' /\ MsgTypes'
    BY <1>6, TypesSame DEF MaxTest, thrVars, histVars
  <2>2. CASE maxLogLvlVal < arg[c].lvl
    <3>1. Goto(c, "maxWr") /\ UNCHANGED <<globMutx, arg, calls>>
      BY <1>6, <2>2 DEF MaxTest
    <3>2. CallTypes'
      BY <1>0, <3>1, GotoTypes
    <3>3. QED BY <1>6, <2>1, <3>1, <3>2 DEF MaxTest, TableTypes, histVars
  <2>3. CASE ~(maxLogLvlVal < arg[c].lvl)
    <3>1. Return(c)
      BY <1>6, <2>3 DEF MaxTest
    <3>2. QED BY <1>6, <2>1, <3>1, ReturnTypes DEF MaxTest, TableTypes, histVars
  <2>4. QED BY <2>2, <2>3
<1>7. CASE MaxWrite(c)
  <2>1. CbTypes' /\ ThrTypes' /\ MsgTypes'
    BY <1>7, TypesSame DEF MaxWrite, thrVars, histVars
  <2>2. QED BY <1>0, <1>7, <2>1, ReturnTypes DEF MaxWrite, TableTypes, histVars
<1>8. CASE SetLvl(c)
  <2>1. ThrTypes' /\ MsgTypes'
    BY <1>8, TypesSame DEF SetLvl, thrVars, histVars
  <2>2. CallTypes'
    BY <1>0, <1>8, GotoTypes DEF SetLvl
  <2>3. CbTypes'
    BY <1>0, <1>8 DEF SetLvl, CbTypes
  <2>4. QED BY <1>8, <2>1, <2>2, <2>3 DEF SetLvl, TableTypes, globVars, histVars
<1>10. CASE ApndDo(c)
  <2>1. ThrTypes' /\ MsgTypes'
    BY <1>10, TypesSame DEF ApndDo, thrVars, histVars
  <2>2. Return(c)
    BY <1>10 DEF ApndDo
  <2>3. CbTypes'
    <3> DEFINE s == apnds[arg[c].cb]
    <3>1. arg[c].cb \in used /\ arg[c].name \in Apnds
      BY <1>10 DEF ApndDo, Registered, CallTypes
    <3>2. s \in Seq(Apnds)
      BY <3>1 DEF CbTypes
    <3>3. ApndList(pc[c], s, arg[c].name) \in Seq(Apnds)
      <4> DEFINE i == PlaceIn(s, arg[c].name)
      <4>1. arg[c].name \in ToSet(s) => i \in 1 .. Len(s)
        BY <3>2, SeqFacts DEF PlaceIn
      <4>2. arg[c].name \in ToSet(s) => RemoveAt(s, i) \in Seq(Apnds)
        BY <3>2, <4>1, RemoveAtFacts
      <4>3. Append(s, arg[c].name) \in Seq(Apnds)
        BY <3>1, <3>2, AppendFacts
      <4>4. pc[c] \in {"regApnd", "deregApnd"}
        BY <1>10 DEF ApndDo
      <4>5. QED BY <3>2, <4>2, <4>3, <4>4 DEF ApndList
    <3>4. apnds' \in [Cbs -> Seq(Apnds)]
      BY <1>10, <3>3 DEF ApndDo, CbTypes
    <3>5. QED BY <1>10, <3>4 DEF ApndDo, CbTypes
  <2>4. QED BY <1>10, <2>1, <2>2, <2>3, ReturnTypes DEF ApndDo, TableTypes, histVars
<1>11. CASE DstryTid(c)
  <2>1. CASE thr[arg[c].cb] = "gone"
    BY <1>11, <2>1, TypesMemErr DEF DstryTid
  <2>2. CASE thr[arg[c].cb] # "gone"
    <3>1. Goto(c, "joining") /\ UNCHANGED <<globVars, cbVars, thrVars, arg, calls, memErr, histVars>>
      BY <1>11, <2>2 DEF DstryTid
    <3>2. CallTypes' /\ CbTypes' /\ ThrTypes' /\ MsgTypes'
      BY <1>0, <3>1, GotoTypes, TypesSame DEF thrVars, histVars
    <3>3. QED BY <3>1, <3>2 DEF TableTypes, globVars, histVars
  <2>3. QED BY <2>1, <2>2
<1>12. CASE DstryJoin(c)
  <2>1. ThrTypes' /\ MsgTypes'
    BY <1>12, TypesSame DEF DstryJoin, thrVars, histVars
  <2>2. CbTypes'
    BY <1>12 DEF DstryJoin, CbTypes
  <2>3. QED BY <1>12, <2>1, <2>2, ReturnTypes DEF DstryJoin, TableTypes, histVars
<1>9. CASE LogWrite(c)
  <2> DEFINE b == Target(arg[c].name)
             m == Cardinality(Accepted) + 1
  <2>1. Return(c) /\ UNCHANGED <<slot, maxLogLvl, maxLogLvlVal, cbVars, first, thr, cncl, thrMutx, hand, walk,
                                 memErr, dropped, idleAt, mixed>>
    BY <1>9 DEF LogWrite
  <2>2. TableTypes' /\ CallTypes' /\ CbTypes' /\ ThrTypes'
    BY <2>1, ReturnTypes, TypesSame DEF TableTypes
  <2>3. b \in Cbs \cup {NULL}
    <3>1. arg[c].name \in Names
      BY <1>9 DEF LogWrite, CallTypes
    <3>2. QED BY <3>1, TargetFacts
  <2>4. m \in Nat
    BY FS_Interval DEF Numbered
  <2>5. MsgTypes'
    <3> HIDE DEF b, m
    <3>1. CASE UNCHANGED <<que, acc, out, overrun>>
      BY <2>1, <3>1, TypesSame DEF MsgTypes
    <3>2. CASE /\ b \in Cbs
               /\ out' = [out EXCEPT ![b] = Append(@, m)]
               /\ acc' = [acc EXCEPT ![b] = @ \cup {m}]
               /\ UNCHANGED <<que, overrun>>
      <4>1. out[b] \in Seq(Nat) /\ acc[b] \in SUBSET Nat
        BY <3>2 DEF MsgTypes
      <4>2. Append(out[b], m) \in Seq(Nat) /\ acc[b] \cup {m} \in SUBSET Nat
        BY <2>4, <4>1, AppendFacts
      <4>3. QED BY <2>1, <3>2, <4>2 DEF MsgTypes
    <3>3. CASE /\ b \in Cbs
               /\ Push(b, m)
               /\ acc' = [acc EXCEPT ![b] = @ \cup {m}]
               /\ UNCHANGED out
      <4>1. que[b] \in Seq(Nat) /\ acc[b] \in SUBSET Nat /\ overrun[b] \in SUBSET Nat /\ Len(que[b]) < QMax
        BY <3>3 DEF MsgTypes
      <4>2. /\ Append(que[b], m) \in Seq(Nat) /\ Len(Append(que[b], m)) = Len(que[b]) + 1
            /\ Len(que[b]) \in Nat /\ acc[b] \cup {m} \in SUBSET Nat
            /\ overrun[b] \cup ToSet(que[b]) \cup {m} \in SUBSET Nat
            /\ << >> \in Seq(Nat) /\ Len(<< >>) = 0
        BY <2>4, <4>1, AppendFacts, SeqFacts, EmptySeq
      <4>3. \E q \in Seq(Nat), o \in SUBSET Nat :
              /\ Len(q) < QMax
              /\ que' = [que EXCEPT ![b] = q]
              /\ overrun' = [overrun EXCEPT ![b] = o]
        <5>1. CASE Len(que[b]) = QMax - 1
          <6>1. /\ que' = [que EXCEPT ![b] = << >>]
                /\ overrun' = [overrun EXCEPT ![b] = overrun[b] \cup ToSet(que[b]) \cup {m}]
            BY <3>3, <5>1 DEF Push
          <6>2. 0 < QMax
            OBVIOUS
          <6>3. QED BY <4>2, <6>1, <6>2
        <5>2. CASE Len(que[b]) # QMax - 1
          <6>1. Len(Append(que[b], m)) < QMax
            BY <4>1, <4>2, <5>2
          <6>2. overrun' = [overrun EXCEPT ![b] = overrun[b]]
            BY <3>3, <5>2 DEF Push, MsgTypes
          <6>3. que' = [que EXCEPT ![b] = Append(que[b], m)]
            BY <3>3, <5>2 DEF Push
          <6>4. QED BY <4>1, <4>2, <6>1, <6>2, <6>3
        <5>3. QED BY <5>1, <5>2
      <4>4. que' \in [Cbs -> Seq(Nat)] /\ overrun' \in [Cbs -> SUBSET Nat] /\ acc' \in [Cbs -> SUBSET Nat]
            /\ \A d \in Cbs : Len(que'[d]) < QMax
        BY <3>3, <4>2, <4>3 DEF MsgTypes
      <4>5. QED BY <2>1, <3>3, <4>4 DEF MsgTypes
    <3>4. QED BY <1>9, <2>3, <3>1, <3>2, <3>3 DEF LogWrite, b, m
  <2>6. QED BY <2>2, <2>5
<1>13. CASE CntBad(c)
  BY <1>13, TypesMemErr DEF CntBad
<1>14. QED
  BY <1>1, <1>2, <1>3, <1>4, <1>5, <1>6, <1>7, <1>8, <1>9, <1>10, <1>11, <1>12, <1>13 DEF GoOn

LEMMA TypesThread ==
  ASSUME LogTypes, Numbered, NEW b \in Cbs, LogThread(b)
  PROVE  LogTypes'
<1> USE LogAssumption DEF LogAssumption, LogTypes
<1>0. /\ que[b] \in Seq(Nat) /\ hand[b] \in Seq(Nat) /\ out[b] \in Seq(Nat) /\ Len(que[b]) < QMax
      /\ apnds[b] \in Seq(Apnds) /\ walk[b] \in Seq(Apnds)
      /\ {"pop", "wait", "cancelled", "gone", "hand", "walk"} \subseteq ThrLabels
  BY DEF MsgTypes, CbTypes, ThrTypes, ThrLabels
<1>1. CASE ThrPop(b)
  <2>1. CallTypes' /\ CbTypes'
    BY <1>1, TypesSame DEF ThrPop, callVars
  <2>2. ThrTypes'
    BY <1>0, <1>1 DEF ThrPop, ThrGoto, ThrTypes
  <2>3. TableTypes'
    BY <1>1 DEF ThrPop, TableTypes, globVars, callVars, histVars
  <2>4. /\ Tail(que[b]) \in Seq(Nat) /\ <<Head(que[b])>> \in Seq(Nat)
        /\ Len(Tail(que[b])) < QMax /\ (first[b] + 1) % QMax \in 0 .. QMax - 1
    <3>1. que[b] # << >>
      BY <1>1 DEF ThrPop
    <3>2. Tail(que[b]) \in Seq(Nat) /\ <<Head(que[b])>> \in Seq(Nat) /\ Len(Tail(que[b])) = Len(que[b]) - 1
      BY <1>0, <3>1, TailFacts
    <3>3. Len(que[b]) \in Nat /\ first[b] \in Nat
      BY <1>0, SeqFacts DEF MsgTypes
    <3>4. (first[b] + 1) % QMax \in 0 .. QMax - 1
      BY <3>3
    <3>5. QED BY <1>0, <3>2, <3>3, <3>4
  <2>5. MsgTypes'
    <3>1. que' \in [Cbs -> Seq(Nat)] /\ hand' \in [Cbs -> Seq(Nat)] /\ first' \in [Cbs -> 0 .. QMax - 1]
      BY <1>1, <2>4 DEF ThrPop, MsgTypes
    <3>2. \A d \in Cbs : Len(que'[d]) < QMax
      BY <1>1, <2>4 DEF ThrPop, MsgTypes
    <3>3. QED BY <1>1, <3>1, <3>2 DEF ThrPop, MsgTypes, histVars
  <2>6. QED BY <2>1, <2>2, <2>3, <2>5
<1>2. CASE ThrEmpty(b)
  <2>1. CallTypes' /\ CbTypes'
    BY <1>2, TypesSame DEF ThrEmpty, callVars
  <2>2. ThrTypes'
    BY <1>0, <1>2 DEF ThrEmpty, ThrGoto, ThrTypes
  <2>3. TableTypes'
    BY <1>2 DEF ThrEmpty, TableTypes, globVars, callVars
  <2>4. Cardinality(Accepted) \in Nat
    BY FS_Interval DEF Numbered
  <2>5. MsgTypes'
    BY <1>2, <2>4 DEF ThrEmpty, MsgTypes
  <2>6. QED BY <2>1, <2>2, <2>3, <2>5
<1>3. CASE ThrWake(b) \/ ThrCancel(b)
  <2>1. CallTypes' /\ CbTypes' /\ MsgTypes'
    BY <1>3, TypesSame DEF ThrWake, ThrCancel, callVars, histVars
  <2>2. ThrTypes'
    BY <1>0, <1>3, ZenonT(60) DEF ThrWake, ThrCancel, ThrGoto, ThrTypes
  <2>3. TableTypes'
    BY <1>3 DEF ThrWake, ThrCancel, TableTypes, globVars, callVars, histVars
  <2>4. QED BY <2>1, <2>2, <2>3
<1>4. CASE ThrClean(b)
  <2>1. CallTypes'
    BY <1>4, TypesSame DEF ThrClean, callVars
  <2>2. ThrTypes'
    BY <1>0, <1>4 DEF ThrClean, ThrGoto, ThrTypes
  <2>3. TableTypes'
    BY <1>4 DEF ThrClean, TableTypes, globVars, callVars
  <2>4. CbTypes'
    <3>1. apnds' \in [Cbs -> Seq(Apnds)]
      BY <1>4, EmptyFacts DEF ThrClean, CbTypes
    <3>2. QED BY <1>4, <3>1 DEF ThrClean, CbTypes
  <2>5. MsgTypes'
    <3>1. dropped[b] \cup ToSet(que[b]) \in SUBSET Nat
      BY <1>0, SeqFacts DEF MsgTypes
    <3>2. dropped' \in [Cbs -> SUBSET Nat]
      BY <1>4, <3>1 DEF ThrClean, MsgTypes
    <3>3. << >> \in Seq(Nat) /\ Len(<< >>) < QMax
      BY EmptySeq
    <3>4. que' \in [Cbs -> Seq(Nat)] /\ \A d \in Cbs : Len(que'[d]) < QMax
      BY <1>4, <3>3 DEF ThrClean, MsgTypes
    <3>5. QED BY <1>4, <3>2, <3>4 DEF ThrClean, MsgTypes
  <2>6. QED BY <2>1, <2>2, <2>3, <2>4, <2>5
<1>5. CASE ThrLock(b)
  <2>1. CallTypes' /\ CbTypes' /\ MsgTypes'
    BY <1>5, TypesSame DEF ThrLock, callVars, histVars
  <2>2. ThrTypes'
    BY <1>0, <1>5 DEF ThrLock, ThrGoto, ThrTypes
  <2>3. TableTypes'
    BY <1>5 DEF ThrLock, TableTypes, globVars, callVars, histVars
  <2>4. QED BY <2>1, <2>2, <2>3
<1>6. CASE ThrWrite(b)
  <2>1. CallTypes' /\ CbTypes' /\ MsgTypes'
    BY <1>6, TypesSame DEF ThrWrite, callVars, histVars
  <2>2. ThrTypes'
    <3>1. Tail(walk[b]) \in Seq(Apnds)
      BY <1>0, <1>6, TailFacts DEF ThrWrite
    <3>2. QED BY <1>6, <3>1 DEF ThrWrite, ThrTypes
  <2>3. TableTypes'
    BY <1>6 DEF ThrWrite, TableTypes, globVars, callVars, histVars
  <2>4. QED BY <2>1, <2>2, <2>3
<1>7. CASE ThrWritten(b)
  <2>1. CallTypes' /\ CbTypes'
    BY <1>7, TypesSame DEF ThrWritten, callVars
  <2>2. ThrTypes'
    BY <1>0, <1>7 DEF ThrWritten, ThrGoto, ThrTypes
  <2>3. TableTypes'
    BY <1>7 DEF ThrWritten, TableTypes, globVars, callVars
  <2>4. MsgTypes'
    <3>1. out[b] \o hand[b] \in Seq(Nat) /\ << >> \in Seq(Nat)
      BY <1>0, ConcatFacts, EmptyFacts
    <3>2. out' \in [Cbs -> Seq(Nat)] /\ hand' \in [Cbs -> Seq(Nat)]
      BY <1>7, <3>1 DEF ThrWritten, MsgTypes
    <3>3. QED BY <1>7, <3>2 DEF ThrWritten, MsgTypes
  <2>5. QED BY <2>1, <2>2, <2>3, <2>4
<1>8. QED BY <1>1, <1>2, <1>3, <1>4, <1>5, <1>6, <1>7 DEF LogThread

LEMMA TypesNext ==
  ASSUME LogTypes, Numbered, Registered, [Next]_vars
  PROVE  LogTypes'
<1>1. CASE UNCHANGED vars
  <2>1. CallTypes' /\ CbTypes' /\ ThrTypes' /\ MsgTypes'
    BY <1>1, TypesSame DEF LogTypes, vars, cbVars, thrVars, callVars, histVars
  <2>2. TableTypes'
    BY <1>1 DEF LogTypes, TableTypes, vars, globVars, callVars, histVars
  <2>3. QED BY <2>1, <2>2 DEF LogTypes
<1>2. CASE \E c \in Callers : Call(c) \/ GoOn(c)
  BY <1>2, TypesCall, TypesGoOn
<1>3. CASE \E b \in Cbs : LogThread(b)
  BY <1>3, TypesThread
<1>4. QED BY <1>1, <1>2, <1>3 DEF Next

-----------------------------------------------------------------------------
(* The threads: only their own steps move them, once they are made. *)

LEMMA ThreadsSame == Threads /\ UNCHANGED <<thr, wrType, used, cncl, thrMutx, walk>> => Threads'
BY DEF Threads, ThreadFits

LEMMA ThreadsNext ==
  ASSUME LogTypes, Registered, Threads, [Next]_vars
  PROVE  Threads'
<1> USE LogAssumption DEF LogAssumption
<1>1. CASE UNCHANGED vars
  BY <1>1, ThreadsSame DEF vars, cbVars, thrVars
<1>2. ASSUME NEW c \in Callers, Call(c) PROVE Threads'
  <2>1. CASE \E n \in Names : DstryThrd(c, n)
    <3>1. PICK n \in Names : DstryThrd(c, n)
      BY <2>1
    <3>2. slot[n] \in Cbs /\ slot[n] \in used
      BY <3>1 DEF DstryThrd, LogTypes, TableTypes, CbTypes, Registered, Named
    <3>3. \A b \in Cbs : cncl'[b] = IF b = slot[n] THEN TRUE ELSE cncl[b]
      BY <3>1, <3>2 DEF DstryThrd, LogTypes, ThrTypes
    <3>4. UNCHANGED <<thr, wrType, used, thrMutx, walk, apnds>>
      BY <3>1, SMTT(30) DEF DstryThrd, cbVars
    <3>5. QED BY <3>2, <3>3, <3>4 DEF Threads, ThreadFits
  <2>2. CASE ~\E n \in Names : DstryThrd(c, n)
    BY <1>2, <2>2, ThreadsSame DEF Call, InitDflt, InitNamed, SetLogLvl, LogMacro, CallApnd, DstryNone,
       MemErr, DstryDir, cbVars, thrVars
  <2>3. QED BY <2>1, <2>2
<1>3. ASSUME NEW c \in Callers, GoOn(c) PROVE Threads'
  <2>1. CASE InitCb(c)
    <3>1. PICK b \in Cbs \ used, w \in WrTypes :
            /\ used' = used \cup {b}
            /\ wrType' = [wrType EXCEPT ![b] = w]
            /\ thr' = [thr EXCEPT ![b] = IF w = "THRD" THEN "pop" ELSE "none"]
      BY <2>1 DEF InitCb
    <3>2. UNCHANGED <<cncl, thrMutx, walk>>
      BY <2>1 DEF InitCb
    <3>3. /\ wrType'[b] = w /\ thr'[b] = IF w = "THRD" THEN "pop" ELSE "none"
          /\ \A d \in Cbs : d # b => wrType'[d] = wrType[d] /\ thr'[d] = thr[d]
      BY <3>1 DEF LogTypes, CbTypes, ThrTypes
    <3>4. ThreadFits(b)'
      <4>1. thr[b] = "none" /\ ~cncl[b]
        BY DEF Threads, ThreadFits
      <4>2. ~thrMutx[b] /\ walk[b] = << >>
        BY <4>1 DEF Threads, ThreadFits
      <4>3. w \in {"DIR", "THRD"}
        OBVIOUS
      <4>4. b \in used'
        BY <3>1
      <4>5. QED BY <3>2, <3>3, <4>2, <4>3, <4>4 DEF ThreadFits
    <3>5. ASSUME NEW d \in Cbs, d # b PROVE ThreadFits(d)'
      BY <3>1, <3>2, <3>3, <3>5 DEF Threads, ThreadFits
    <3>6. QED BY <3>4, <3>5 DEF Threads
  <2>2. CASE ~InitCb(c)
    BY <1>3, <2>2, ThreadsSame DEF GoOn, InitClear, InitReg, CntBad, CntRead, CntWrite, MaxTest,
       MaxWrite, SetLvl, LogWrite, ApndDo, DstryTid, DstryJoin, MemErr, cbVars, thrVars
  <2>3. QED BY <2>1, <2>2
<1>4. ASSUME NEW b \in Cbs, LogThread(b) PROVE Threads'
  <2>1. /\ UNCHANGED <<wrType, used, cncl>>
        /\ \A d \in Cbs : d # b => thr'[d] = thr[d] /\ thrMutx'[d] = thrMutx[d] /\ walk'[d] = walk[d]
    BY <1>4 DEF LogThread, ThrPop, ThrEmpty, ThrWake, ThrCancel, ThrClean, ThrLock, ThrWrite, ThrWritten,
       ThrGoto, cbVars, LogTypes, ThrTypes
  <2>2. ThreadFits(b)
    BY DEF Threads
  <2>3. thr[b] # "none"
    BY <1>4 DEF LogThread, ThrPop, ThrEmpty, ThrWake, ThrCancel, ThrClean, ThrLock, ThrWrite, ThrWritten
  <2>4. ThreadFits(b)'
    <3> USE DEF ThrGoto, LogTypes, ThrTypes
    <3>1. CASE ThrPop(b) \/ ThrEmpty(b) \/ ThrWake(b) \/ ThrCancel(b) \/ ThrClean(b)
      <4>1. /\ thr'[b] \in {"pop", "wait", "cancelled", "gone", "hand"} /\ thr[b] # "walk"
            /\ thr'[b] \in {"cancelled", "gone"} => cncl[b]
            /\ UNCHANGED <<thrMutx, walk>>
        BY <3>1, <2>2 DEF ThrPop, ThrEmpty, ThrWake, ThrCancel, ThrClean, ThreadFits
      <4>2. QED BY <2>1, <2>2, <2>3, <4>1 DEF ThreadFits
    <3>2. CASE ThrLock(b)
      <4>1. thr'[b] = "walk" /\ thrMutx'[b] = TRUE
        BY <3>2 DEF ThrLock
      <4>2. QED BY <2>1, <2>2, <2>3, <4>1 DEF ThreadFits
    <3>3. CASE ThrWrite(b)
      <4>1. thr'[b] = "walk" /\ thr[b] = "walk" /\ thrMutx' = thrMutx
        BY <3>3 DEF ThrWrite
      <4>2. QED BY <2>1, <2>2, <2>3, <4>1 DEF ThreadFits
    <3>4. CASE ThrWritten(b)
      <4>1. thr'[b] = "pop" /\ thrMutx'[b] = FALSE /\ walk'[b] = << >>
        BY <3>4 DEF ThrWritten
      <4>2. QED BY <2>1, <2>2, <2>3, <4>1 DEF ThreadFits
    <3>5. QED BY <1>4, <3>1, <3>2, <3>3, <3>4 DEF LogThread
  <2>5. ASSUME NEW d \in Cbs, d # b PROVE ThreadFits(d)'
    <3>1. thr'[d] = thr[d] /\ thrMutx'[d] = thrMutx[d] /\ walk'[d] = walk[d] /\ ThreadFits(d)
      BY <2>1, <2>5 DEF Threads
    <3>2. QED BY <2>1, <3>1 DEF ThreadFits
  <2>6. QED BY <2>4, <2>5 DEF Threads
<1>5. QED BY <1>1, <1>2, <1>3, <1>4 DEF Next

(* The thread walks a list that nobody changes.                            *)
LEMMA WalkNext ==
  ASSUME LogTypes, Registered, Threads, WalkSafe, [Next]_vars
  PROVE  WalkSafe'
<1> USE LogAssumption DEF LogAssumption
<1>1. CASE UNCHANGED <<walk, apnds>>
  BY <1>1 DEF WalkSafe
<1>2. ASSUME NEW c \in Callers, NEW n \in Names, DstryDir(c, n) PROVE WalkSafe'
  <2>1. slot[n] \in Cbs /\ wrType[slot[n]] = "DIR"
    BY <1>2 DEF DstryDir, LogTypes, TableTypes
  <2>2. walk[slot[n]] = << >> /\ ToSet(walk[slot[n]]) = {}
    BY <2>1, EmptyFacts DEF Threads, ThreadFits
  <2>3. walk' = walk /\ \A d \in Cbs : d # slot[n] => apnds'[d] = apnds[d]
    BY <1>2 DEF DstryDir, thrVars, LogTypes, CbTypes
  <2>4. QED BY <2>2, <2>3 DEF WalkSafe
<1>3. ASSUME NEW c \in Callers, InitCb(c) PROVE WalkSafe'
  <2>1. PICK b \in Cbs \ used : \E s : apnds' = [apnds EXCEPT ![b] = s]
    BY <1>3 DEF InitCb
  <2>2. walk[b] = << >> /\ ToSet(walk[b]) = {}
    BY EmptyFacts DEF Threads, ThreadFits
  <2>3. walk' = walk /\ \A d \in Cbs : d # b => apnds'[d] = apnds[d]
    BY <1>3, <2>1 DEF InitCb, LogTypes, CbTypes
  <2>4. QED BY <2>2, <2>3 DEF WalkSafe
<1>4. ASSUME NEW c \in Callers, ApndDo(c) PROVE WalkSafe'
  <2> DEFINE b == arg[c].cb
  <2>1. walk' = walk /\ ~thrMutx[b] /\ \A d \in Cbs : d # b => apnds'[d] = apnds[d]
    BY <1>4 DEF ApndDo, thrVars, LogTypes, CbTypes
  <2>2. b \in Cbs => ToSet(walk[b]) = {}
    BY <2>1, EmptyFacts DEF Threads, ThreadFits
  <2>3. QED BY <2>1, <2>2 DEF WalkSafe
<1>5. ASSUME NEW b \in Cbs, LogThread(b) PROVE WalkSafe'
  <2>1. \A d \in Cbs : d # b => walk'[d] = walk[d] /\ apnds'[d] = apnds[d]
    BY <1>5 DEF LogThread, ThrPop, ThrEmpty, ThrWake, ThrCancel, ThrClean, ThrLock, ThrWrite, ThrWritten,
       cbVars, LogTypes, ThrTypes, CbTypes
  <2>2. ToSet(walk'[b]) \subseteq ToSet(apnds'[b])
    <3>1. CASE UNCHANGED <<walk, apnds>>
      BY <3>1 DEF WalkSafe
    <3>2. CASE ThrClean(b)
      <4>1. walk' = walk /\ walk[b] = << >>
        BY <3>2 DEF ThrClean, Threads, ThreadFits
      <4>2. QED BY <4>1, EmptyFacts
    <3>3. CASE ThrLock(b)
      BY <3>3 DEF ThrLock, cbVars, LogTypes, ThrTypes
    <3>4. CASE ThrWrite(b)
      <4>1. walk[b] \in Seq(Apnds) /\ walk[b] # << >> /\ walk'[b] = Tail(walk[b]) /\ apnds' = apnds
        BY <3>4 DEF ThrWrite, cbVars, LogTypes, ThrTypes
      <4>2. ToSet(Tail(walk[b])) \subseteq ToSet(walk[b])
        BY <4>1, TailFacts
      <4>3. QED BY <4>1, <4>2 DEF WalkSafe
    <3>5. QED
      BY <1>5, <3>1, <3>2, <3>3, <3>4 DEF LogThread, ThrPop, ThrEmpty, ThrWake, ThrCancel, ThrWritten, cbVars
  <2>3. QED BY <2>1, <2>2 DEF WalkSafe
<1>6. QED
  <2>1. CASE UNCHANGED vars
    BY <1>1, <2>1 DEF vars, cbVars, thrVars
  <2>2. ASSUME NEW c \in Callers, Call(c) PROVE WalkSafe'
    <3>1. (\E n \in Names : DstryDir(c, n)) \/ UNCHANGED <<walk, apnds>>
      BY <2>2 DEF Call, InitDflt, InitNamed, SetLogLvl, LogMacro, CallApnd, DstryNone,
         MemErr, DstryThrd, cbVars, thrVars
    <3>2. QED BY <1>1, <1>2, <3>1, SMTT(30)
  <2>3. ASSUME NEW c \in Callers, GoOn(c) PROVE WalkSafe'
    <3>1. InitCb(c) \/ ApndDo(c) \/ UNCHANGED <<walk, apnds>>
      BY <2>3 DEF GoOn, InitClear, InitReg, CntBad, CntRead, CntWrite, MaxTest, MaxWrite, SetLvl,
         LogWrite, DstryTid, DstryJoin, MemErr, cbVars, thrVars
    <3>2. QED BY <1>1, <1>3, <1>4, <3>1
  <2>4. QED BY <1>5, <2>1, <2>2, <2>3 DEF Next

-----------------------------------------------------------------------------
(* Names and loggers *)

(* The other callers stay where they are.                                  *)
OthersSame(c) == \A d \in Callers : d # c => pc'[d] = pc[d] /\ arg'[d] = arg[d]

LEMMA CallersMove ==
  ASSUME LogTypes, NEW c \in Callers, Call(c) \/ GoOn(c)
  PROVE  OthersSame(c)
<1> USE DEF OthersSame, LogTypes, CallTypes
<1>1. CASE Call(c)
  BY <1>1, ZenonT(60) DEF Call, InitDflt, InitNamed, SetLogLvl, LogMacro, CallApnd, DstryNone, MemErr, DstryDir, DstryThrd,
     Begin, Goto, callVars
<1>2. CASE GoOn(c)
  BY <1>2 DEF GoOn, InitClear, InitCb, InitReg, CntBad, CntRead, CntWrite, MaxTest, MaxWrite, SetLvl,
     LogWrite, ApndDo, DstryTid, DstryJoin, MemErr, Goto, Return, callVars
<1>3. QED BY <1>1, <1>2

RegSafe(c) ==
  /\ pc[c] # "reg"
  /\ pc[c] \in {"join", "joining"} => arg[c].cb # NULL /\ cncl[arg[c].cb]
  /\ pc[c] \in {"cnt", "cntWr", "maxTst", "maxWr", "setLvl", "regApnd", "deregApnd"} => arg[c].cb \in used

(* A step that gives no logger a name, and none a caller to register it.   *)
LEMMA RegFrame ==
  ASSUME LogTypes, Registered, NEW c \in Callers, OthersSame(c), RegSafe(c)',
         \A n \in Names : slot'[n] \in {slot[n], NULL},
         used \subseteq used',
         \A b \in Cbs : cncl[b] => cncl'[b],
         \A b \in Cbs : Named(b)' /\ Named(b) => (b \in live => b \in live') /\ (cncl'[b] => cncl[b])
  PROVE  Registered'
<1>0. NULL \notin Cbs
  BY LogAssumption DEF LogAssumption
<1>1. \A b \in Cbs : Named(b)' => Named(b)
  BY <1>0 DEF Named, OthersSame, RegSafe
<1>2. \A b \in Cbs : Named(b)' => b \in live' /\ ~cncl'[b]
  BY <1>1 DEF Registered
<1>3. \A n, k \in Names : slot'[n] = slot'[k] /\ slot'[n] # NULL => n = k
  BY DEF Registered
<1>4. ASSUME NEW d \in Callers, pc'[d] = "reg"
      PROVE  /\ arg'[d].cb # NULL
             /\ \A n \in Names : slot'[n] # arg'[d].cb
             /\ \A e \in Callers : pc'[e] = "reg" /\ arg'[e].cb = arg'[d].cb => e = d
  <2>1. d # c /\ \A e \in Callers : pc'[e] = "reg" => e # c
    BY <1>4 DEF RegSafe
  <2>2. pc[d] = "reg" /\ arg'[d] = arg[d] /\ \A e \in Callers : pc'[e] = "reg" => pc[e] = "reg" /\ arg'[e] = arg[e]
    BY <1>4, <2>1 DEF OthersSame
  <2>3. QED BY <2>2 DEF Registered
<1>5. \A d \in Callers : pc'[d] \in {"join", "joining"} => arg'[d].cb # NULL /\ cncl'[arg'[d].cb]
  <2> SUFFICES ASSUME NEW d \in Callers, d # c, pc'[d] \in {"join", "joining"}
               PROVE  arg'[d].cb # NULL /\ cncl'[arg'[d].cb]
    BY DEF RegSafe
  <2>1. pc[d] \in {"join", "joining"} /\ arg'[d] = arg[d] /\ arg[d] \in Args
    BY DEF OthersSame, LogTypes, CallTypes
  <2>2. arg[d].cb # NULL /\ cncl[arg[d].cb] /\ arg[d].cb \in Cbs
    BY <2>1 DEF Registered, Args
  <2>3. QED BY <2>1, <2>2
<1>6. \A d \in Callers : pc'[d] \in {"cnt", "cntWr", "maxTst", "maxWr", "setLvl", "regApnd", "deregApnd"} =>
        arg'[d].cb \in used'
  BY DEF OthersSame, RegSafe, Registered
<1>7. QED BY <1>2, <1>3, <1>4, <1>5, <1>6 DEF Registered

LEMMA RegisteredCall ==
  ASSUME LogTypes, Registered, NEW c \in Callers, Call(c)
  PROVE  Registered'
<1> USE LogAssumption DEF LogAssumption
<1>0. /\ OthersSame(c) /\ \A n \in Names : slot[n] \in Cbs \cup {NULL}
      /\ pc \in [Callers -> PcLabels] /\ arg \in [Callers -> Args]
      /\ slot \in [Names -> Cbs \cup {NULL}] /\ cncl \in [Cbs -> BOOLEAN]
  BY CallersMove DEF LogTypes, TableTypes, CallTypes, ThrTypes
<1>1. ASSUME NEW l \in Levels, InitDflt(c, l) PROVE Registered'
  <2>1. RegSafe(c)'
    BY <1>0, <1>1 DEF InitDflt, Begin, Goto, RegSafe
  <2>2. QED BY <1>0, <1>1, <2>1, RegFrame DEF InitDflt, globVars, cbVars, thrVars
<1>2. ASSUME NEW n \in Names, NEW l \in Levels, InitNamed(c, n, l) \/ LogMacro(c, n, l) PROVE Registered'
  <2>1. RegSafe(c)'
    BY <1>0, <1>2 DEF InitNamed, LogMacro, Begin, Goto, RegSafe
  <2>2. QED BY <1>0, <1>2, <2>1, RegFrame DEF InitNamed, LogMacro, globVars, cbVars, thrVars
<1>3. ASSUME NEW n \in Names, NEW l \in Levels, SetLogLvl(c, n, l) PROVE Registered'
  <2> DEFINE r == [noArg EXCEPT !.name = n, !.lvl = l, !.cb = slot[n]]
  <2>1. slot[n] \in Cbs /\ slot[n] \in used
    BY <1>0, <1>3 DEF SetLogLvl, Registered, Named, LogTypes, CbTypes
  <2>2. r.cb = slot[n]
    BY DEF noArg
  <2>3. arg'[c] = r /\ pc'[c] \in {"spin", "setLvl"} /\ used' = used
    BY <1>0, <1>3 DEF SetLogLvl, Begin, Goto, cbVars
  <2> HIDE DEF r
  <2>4. RegSafe(c)'
    BY <2>1, <2>2, <2>3 DEF RegSafe
  <2>5. QED BY <1>0, <1>3, <2>4, RegFrame DEF SetLogLvl, cbVars, thrVars
<1>4. ASSUME NEW n \in Names, NEW a \in Apnds, CallApnd(c, n, a) PROVE Registered'
  <2> DEFINE r == [noArg EXCEPT !.cb = slot[n], !.name = a]
  <2>1. slot[n] \in Cbs /\ slot[n] \in used
    BY <1>0, <1>4 DEF CallApnd, Registered, Named, LogTypes, CbTypes
  <2>2. r.cb = slot[n]
    BY DEF noArg
  <2>3. arg'[c] = r /\ pc'[c] \in {"regApnd", "deregApnd"} /\ used' = used
    BY <1>0, <1>4 DEF CallApnd, Begin, Goto, cbVars
  <2> HIDE DEF r
  <2>4. RegSafe(c)'
    BY <2>1, <2>2, <2>3 DEF RegSafe
  <2>5. QED BY <1>0, <1>4, <2>4, RegFrame DEF CallApnd, cbVars, thrVars
<1>5. CASE DstryNone(c)
  <2>1. RegSafe(c)'
    BY <1>5 DEF DstryNone, MemErr, callVars, RegSafe
  <2>2. QED BY <1>0, <1>5, <2>1, RegFrame DEF DstryNone, MemErr, globVars, cbVars, thrVars
<1>6. ASSUME NEW n \in Names, DstryDir(c, n) \/ DstryThrd(c, n) PROVE Registered'
  <2>1. PICK b \in Cbs : b = slot[n] /\ b # NULL
    BY <1>0, <1>6 DEF DstryDir, DstryThrd
  <2>2. slot' = [slot EXCEPT ![n] = NULL] /\ used' = used
    BY <1>6 DEF DstryDir, DstryThrd, cbVars
  <2>3. /\ RegSafe(c)' /\ live' \in {live, live \ {b}}
        /\ \A d \in Cbs : cncl'[d] \in {cncl[d], d = b}
        /\ \A d \in Cbs : cncl[d] => cncl'[d]
    <3>1. CASE DstryDir(c, n)
      BY <2>1, <3>1 DEF DstryDir, thrVars, RegSafe
    <3>2. CASE DstryThrd(c, n)
      <4> DEFINE r == [noArg EXCEPT !.cb = slot[n], !.name = n]
      <4>1. r.cb = b
        BY <2>1 DEF noArg
      <4>2. arg'[c] = r /\ pc'[c] = "join"
        BY <1>0, <3>2 DEF DstryThrd, Begin, Goto
      <4> HIDE DEF r
      <4>3. live' = live /\ \A d \in Cbs : cncl'[d] = IF d = b THEN TRUE ELSE cncl[d]
        BY <1>0, <2>1, <3>2 DEF DstryThrd, cbVars
      <4>4. RegSafe(c)'
        BY <2>1, <4>1, <4>2, <4>3 DEF RegSafe
      <4>5. QED BY <1>0, <4>3, <4>4
    <3>3. QED BY <1>6, <3>1, <3>2
  <2>4. ~Named(b)'
    <3>1. \A k \in Names : slot'[k] # b
      BY <1>0, <2>1, <2>2 DEF Registered
    <3>2. \A d \in Callers : pc'[d] = "reg" => arg'[d].cb # b
      BY <1>0, <2>1, <2>3 DEF RegSafe, OthersSame, Registered
    <3>3. QED BY <3>1, <3>2 DEF Named
  <2>5. \A d \in Cbs : Named(d)' /\ Named(d) => (d \in live => d \in live') /\ (cncl'[d] => cncl[d])
    BY <2>3, <2>4
  <2>6. \A k \in Names : slot'[k] \in {slot[k], NULL}
    BY <1>0, <2>2
  <2>7. QED BY <1>0, <2>2, <2>3, <2>5, <2>6, RegFrame
<1>7. QED BY <1>1, <1>2, <1>3, <1>4, <1>5, <1>6 DEF Call

(* A logger is made, and not registered yet: nobody else knows it.         *)
LEMMA RegisteredMade ==
  ASSUME LogTypes, Registered, Threads, NEW c \in Callers, InitCb(c)
  PROVE  Registered'
<1> USE LogAssumption DEF LogAssumption
<1>1. PICK b \in Cbs \ used : live' = live \cup {b} /\ used' = used \cup {b} /\ arg' = [arg EXCEPT ![c].cb = b]
  BY DEF InitCb
<1>2. OthersSame(c) /\ pc'[c] = "reg" /\ slot' = slot /\ cncl' = cncl
  BY CallersMove DEF InitCb, GoOn, Goto, globVars, LogTypes, CallTypes
<1>3. arg'[c].cb = b
  <2>1. arg \in [Callers -> Args] /\ arg'[c] = [arg[c] EXCEPT !.cb = b]
    BY <1>1 DEF LogTypes, CallTypes
  <2>2. arg[c] \in Args
    BY <2>1
  <2>3. QED BY <2>1, <2>2 DEF Args
<1>4. ~Named(b) /\ ~cncl[b] /\ b # NULL
  BY DEF Registered, LogTypes, CbTypes, Threads, ThreadFits
<1>5. \A d \in Cbs : Named(d)' => Named(d) \/ d = b
  BY <1>2, <1>3 DEF Named, OthersSame
<1>6. \A d \in Cbs : Named(d)' => d \in live' /\ ~cncl'[d]
  BY <1>1, <1>2, <1>4, <1>5 DEF Registered
<1>7. \A n, k \in Names : slot'[n] = slot'[k] /\ slot'[n] # NULL => n = k
  BY <1>2 DEF Registered
<1>8. \A n \in Names : slot'[n] # b
  BY <1>2, <1>4 DEF Named
<1>9. \A d \in Callers : d # c /\ pc'[d] = "reg" => pc[d] = "reg" /\ arg'[d] = arg[d] /\ arg'[d].cb # b
  BY <1>2, <1>4 DEF OthersSame, Named
<1>10. \A d \in Callers : pc'[d] = "reg" =>
         /\ arg'[d].cb # NULL
         /\ \A n \in Names : slot'[n] # arg'[d].cb
         /\ \A e \in Callers : pc'[e] = "reg" /\ arg'[e].cb = arg'[d].cb => e = d
  BY <1>2, <1>3, <1>4, <1>8, <1>9 DEF Registered
<1>11. \A d \in Callers : pc'[d] \in {"join", "joining"} => arg'[d].cb # NULL /\ cncl'[arg'[d].cb]
  BY <1>2 DEF OthersSame, Registered
<1>12. \A d \in Callers : pc'[d] \in {"cnt", "cntWr", "maxTst", "maxWr", "setLvl", "regApnd", "deregApnd"} =>
         arg'[d].cb \in used'
  BY <1>1, <1>2 DEF OthersSame, Registered
<1>13. QED BY <1>6, <1>7, <1>10, <1>11, <1>12 DEF Registered

(* It is registered: the caller hands it over to the name.                 *)
LEMMA RegisteredNamed ==
  ASSUME LogTypes, Registered, NEW c \in Callers, InitReg(c), pc'[c] = "cnt"
  PROVE  Registered'
<1> USE LogAssumption DEF LogAssumption
<1>1. /\ pc[c] = "reg" /\ arg[c].name \in Names /\ arg[c].cb \in Cbs
      /\ OthersSame(c) /\ UNCHANGED <<live, used, cncl>>
  <2>1. pc[c] = "reg" /\ UNCHANGED <<live, used, cncl>>
    BY DEF InitReg, cbVars, thrVars
  <2>2. arg[c] \in Args /\ arg[c].name \in Names /\ arg[c].cb # NULL
    BY <2>1 DEF LogTypes, CallTypes, Registered
  <2>3. OthersSame(c)
    BY CallersMove DEF GoOn
  <2>4. QED BY <2>1, <2>2, <2>3 DEF Args
<1>2. slot' = [slot EXCEPT ![arg[c].name] = arg[c].cb] /\ arg' = arg
  BY DEF InitReg, Return, Goto, LogTypes, CallTypes
<1>3. PICK n \in Names, b \in Cbs : n = arg[c].name /\ b = arg[c].cb
  BY <1>1
<1>4. slot'[n] = b /\ \A k \in Names : k # n => slot'[k] = slot[k]
  BY <1>2, <1>3 DEF LogTypes, TableTypes
<1>5. Named(b) /\ b \in live /\ b # NULL /\ \A k \in Names : slot[k] # b
  BY <1>1, <1>3 DEF Named, Registered
<1>6. \A d \in Callers : pc'[d] = "reg" => d # c /\ pc[d] = "reg" /\ arg'[d].cb # b
  BY <1>1, <1>2, <1>3 DEF OthersSame, Registered
<1>7. \A d \in Cbs : Named(d)' => Named(d)
  BY <1>2, <1>4, <1>5, <1>6 DEF Named
<1>8. \A d \in Cbs : Named(d)' => d \in live' /\ ~cncl'[d]
  BY <1>1, <1>7 DEF Registered
<1>9. \A j, k \in Names : slot'[j] = slot'[k] /\ slot'[j] # NULL => j = k
  BY <1>4, <1>5 DEF Registered
<1>10. \A d \in Callers : pc'[d] = "reg" =>
         /\ arg'[d].cb # NULL
         /\ \A k \in Names : slot'[k] # arg'[d].cb
         /\ \A e \in Callers : pc'[e] = "reg" /\ arg'[e].cb = arg'[d].cb => e = d
  BY <1>2, <1>4, <1>6 DEF Registered
<1>11. \A d \in Callers : pc'[d] \in {"join", "joining"} => arg'[d].cb # NULL /\ cncl'[arg'[d].cb]
  BY <1>1 DEF OthersSame, Registered
<1>12. \A d \in Callers : pc'[d] \in {"cnt", "cntWr", "maxTst", "maxWr", "setLvl", "regApnd", "deregApnd"} =>
         arg'[d].cb \in used'
  <2>1. arg'[c].cb \in used'
    BY <1>1, <1>2, <1>3, <1>5 DEF LogTypes, CbTypes
  <2>2. QED BY <1>1, <2>1 DEF OthersSame, Registered
<1>13. QED BY <1>8, <1>9, <1>10, <1>11, <1>12 DEF Registered

LEMMA RegisteredGoOn ==
  ASSUME LogTypes, Registered, Threads, NEW c \in Callers, GoOn(c)
  PROVE  Registered'
<1> USE LogAssumption DEF LogAssumption
<1>0. /\ OthersSame(c) /\ \A n \in Names : slot[n] \in Cbs \cup {NULL}
      /\ pc \in [Callers -> PcLabels] /\ arg \in [Callers -> Args] /\ arg[c] \in Args
      /\ slot \in [Names -> Cbs \cup {NULL}]
  BY CallersMove DEF LogTypes, TableTypes, CallTypes
<1>1. CASE InitClear(c)
  <2>1. RegSafe(c)'
    BY <1>0, <1>1 DEF InitClear, Return, Goto, RegSafe
  <2>2. \A n \in Names : slot'[n] \in {slot[n], NULL}
    BY <1>0, <1>1 DEF InitClear
  <2>3. QED BY <1>0, <1>1, <2>1, <2>2, RegFrame DEF InitClear, cbVars, thrVars
<1>2. CASE InitCb(c)
  BY <1>2, RegisteredMade
<1>3. CASE InitReg(c)
  <2>1. CASE pc'[c] = "cnt"
    BY <1>3, <2>1, RegisteredNamed
  <2>2. CASE pc'[c] # "cnt"
    <3>1. Return(c) /\ UNCHANGED slot
      BY <1>0, <1>3, <2>2 DEF InitReg, Goto
    <3>2. RegSafe(c)'
      BY <1>0, <3>1 DEF Return, Goto, RegSafe
    <3>3. QED BY <1>0, <1>3, <3>1, <3>2, RegFrame DEF InitReg, cbVars, thrVars
  <2>3. QED BY <2>1, <2>2
<1>4. CASE CntRead(c)
  <2>1. pc'[c] = "cntWr" /\ used' = used /\ arg[c].cb \in used
    BY <1>0, <1>4 DEF CntRead, Goto, Registered, cbVars
  <2>2. arg'[c].cb = arg[c].cb
    <3>1. arg'[c] = [arg[c] EXCEPT !.tmp = maxLogLvl[arg[c].lvl]]
      BY <1>0, <1>4 DEF CntRead
    <3>2. QED BY <1>0, <3>1 DEF Args
  <2>3. RegSafe(c)'
    BY <2>1, <2>2 DEF RegSafe
  <2>4. QED BY <1>0, <1>4, <2>3, RegFrame DEF CntRead, globVars, cbVars, thrVars
<1>5. CASE CntWrite(c) \/ SetLvl(c)
  <2>1. arg' = arg /\ pc'[c] \in {"maxTst", "cnt"} /\ UNCHANGED <<slot, live, used, cncl>>
    BY <1>0, <1>5 DEF CntWrite, SetLvl, Goto, globVars, cbVars, thrVars
  <2>2. arg[c].cb \in used
    BY <1>5 DEF CntWrite, SetLvl, Registered
  <2>3. RegSafe(c)'
    BY <2>1, <2>2 DEF RegSafe
  <2>4. QED BY <1>0, <2>1, <2>3, RegFrame
<1>6. CASE MaxTest(c) \/ MaxWrite(c)
  <2>1. UNCHANGED <<slot, live, used, cncl>>
    BY <1>6 DEF MaxTest, MaxWrite, cbVars, thrVars
  <2>2. pc'[c] = "idle" \/ (pc'[c] = "maxWr" /\ arg' = arg /\ pc[c] = "maxTst")
    BY <1>0, <1>6 DEF MaxTest, MaxWrite, Return, Goto
  <2>3. RegSafe(c)'
    BY <2>1, <2>2 DEF RegSafe, Registered
  <2>4. QED BY <1>0, <2>1, <2>3, RegFrame
<1>7. CASE LogWrite(c) \/ ApndDo(c)
  <2>1. UNCHANGED <<slot, live, used, cncl>> /\ pc'[c] = "idle"
    BY <1>0, <1>7 DEF LogWrite, ApndDo, Return, Goto, cbVars, thrVars
  <2>2. RegSafe(c)'
    BY <2>1 DEF RegSafe
  <2>3. QED BY <1>0, <2>1, <2>2, RegFrame
<1>8. CASE DstryTid(c)
  <2>1. arg' = arg /\ pc'[c] \in {"join", "joining"} /\ UNCHANGED <<slot, live, used, cncl>> /\ pc[c] = "join"
    BY <1>0, <1>8 DEF DstryTid, MemErr, Goto, globVars, cbVars, thrVars, callVars
  <2>2. RegSafe(c)'
    BY <2>1 DEF RegSafe, Registered
  <2>3. QED BY <1>0, <2>1, <2>2, RegFrame
<1>9. CASE DstryJoin(c)
  <2>1. /\ UNCHANGED <<slot, used, cncl>> /\ pc'[c] = "idle" /\ pc[c] = "joining"
        /\ live' = live \ {arg[c].cb}
    BY <1>0, <1>9 DEF DstryJoin, Return, Goto, thrVars
  <2>2. RegSafe(c)'
    BY <2>1 DEF RegSafe
  <2>3. \A b \in Cbs : Named(b) => b # arg[c].cb
    BY <2>1 DEF Registered
  <2>4. QED BY <1>0, <2>1, <2>2, <2>3, RegFrame
<1>10. CASE CntBad(c)
  BY <1>10 DEF CntBad, MemErr, globVars, cbVars, thrVars, callVars, Registered, Named
<1>11. QED BY <1>1, <1>2, <1>3, <1>4, <1>5, <1>6, <1>7, <1>8, <1>9, <1>10 DEF GoOn

LEMMA RegisteredNext ==
  ASSUME LogTypes, Registered, Threads, [Next]_vars
  PROVE  Registered'
<1>1. CASE UNCHANGED <<slot, pc, arg, live, used, cncl>>
  BY <1>1 DEF Registered, Named
<1>2. ASSUME NEW b \in Cbs, LogThread(b) PROVE UNCHANGED <<slot, pc, arg, live, used, cncl>>
  BY <1>2 DEF LogThread, ThrPop, ThrEmpty, ThrWake, ThrCancel, ThrClean, ThrLock, ThrWrite, ThrWritten,
     globVars, cbVars, callVars
<1>3. UNCHANGED vars => UNCHANGED <<slot, pc, arg, live, used, cncl>>
  BY DEF vars, globVars, cbVars, thrVars, callVars
<1>4. QED BY <1>1, <1>2, <1>3, RegisteredCall, RegisteredGoOn DEF Next

-----------------------------------------------------------------------------
(* The level of the macros *)

(* A caller that sets no logger up moves, or a logger that has no name is  *)
(* made: the others keep their levels.                                     *)
LEMMA LevelsFrame ==
  ASSUME LevelsKept, Registered, LogTypes, NEW c \in Callers, OthersSame(c),
         ~Setting(c), pc'[c] # "setLvl", ~SettingMax(c)',
         Setting(c)' => arg'[c].cb \in used' /\ lvl'[arg'[c].cb] = arg'[c].lvl,
         \A n \in Names : slot'[n] \in {slot[n], NULL},
         used \subseteq used', \A b \in used : lvl'[b] = lvl[b], maxLogLvlVal' = maxLogLvlVal
  PROVE  LevelsKept'
<1>1. \A d \in Callers : SettingMax(d)' => d # c /\ SettingMax(d)
  BY DEF OthersSame, SettingMax
<1>2. \A d \in Callers : d # c => Setting(d)' = Setting(d) /\ arg'[d] = arg[d]
  BY DEF OthersSame, Setting
<1>3. \A b : SetUp(b) => SetUp(b)'
  BY <1>2 DEF SetUp, Setting
<1>4. \A n \in Names, b \in Cbs : slot[n] = b => b \in used
  BY DEF Registered, Named, LogTypes, CbTypes
<1>5. \A n \in Names, b \in Cbs : slot'[n] = b /\ ~SetUp(b)' => lvl'[b] <= maxLogLvlVal'
  <2> SUFFICES ASSUME NEW n \in Names, NEW b \in Cbs, slot'[n] = b, ~SetUp(b)'
               PROVE  lvl'[b] <= maxLogLvlVal'
    OBVIOUS
  <2>0. b # NULL
    BY LogAssumption DEF LogAssumption
  <2>1. slot[n] = b /\ ~SetUp(b) /\ b \in used
    BY <1>3, <1>4, <2>0
  <2>2. lvl[b] <= maxLogLvlVal
    BY <2>1 DEF LevelsKept
  <2>3. QED BY <2>1, <2>2
<1>6. \A d \in Callers : Setting(d)' => arg'[d].cb \in used' /\ lvl'[arg'[d].cb] = arg'[d].lvl
  BY <1>2 DEF LevelsKept
<1>7. \A d \in Callers : pc'[d] # "setLvl"
  BY DEF OthersSame, LevelsKept
<1>8. \A d \in Callers : pc'[d] = "maxWr" => maxLogLvlVal' < arg'[d].lvl
  <2>1. pc'[c] # "maxWr"
    BY DEF SettingMax
  <2>2. QED BY <2>1 DEF OthersSame, LevelsKept
<1>9. QED BY <1>1, <1>5, <1>6, <1>7, <1>8 DEF LevelsKept

LEMMA CoveredCall ==
  ASSUME LogTypes, Registered, LevelsKept, NEW c \in Callers, Call(c), ~mixed'
  PROVE  LevelsKept'
<1>1. OthersSame(c) /\ \A n \in Names : ~SetLogLvl(c, n, arg[c].lvl)
  BY CallersMove DEF SetLogLvl
<1>2. /\ pc[c] = "idle" /\ pc'[c] \in {"idle", "clear", "init", "write", "regApnd", "deregApnd", "join"}
      /\ UNCHANGED <<used, lvl, maxLogLvlVal>>
  <2> USE DEF LogTypes, CallTypes, Begin, Goto
  <2>1. CASE \E l \in Levels : InitDflt(c, l)
    BY <2>1 DEF InitDflt, cbVars, globVars
  <2>2. CASE \E n \in Names, l \in Levels : InitNamed(c, n, l) \/ SetLogLvl(c, n, l) \/ LogMacro(c, n, l)
    BY <2>2 DEF InitNamed, SetLogLvl, LogMacro, cbVars, globVars
  <2>3. CASE \E n \in Names, a \in Apnds : CallApnd(c, n, a)
    BY <2>3 DEF CallApnd, cbVars
  <2>4. CASE DstryNone(c)
    BY <2>4 DEF DstryNone, MemErr, cbVars, globVars, callVars
  <2>5. CASE \E n \in Names : DstryDir(c, n) \/ DstryThrd(c, n)
    BY <2>5 DEF DstryDir, DstryThrd, cbVars
  <2>6. QED BY <2>1, <2>2, <2>3, <2>4, <2>5 DEF Call
<1>3. \A n \in Names : slot'[n] \in {slot[n], NULL}
  <2>1. slot' = slot \/ \E n \in Names : slot' = [slot EXCEPT ![n] = NULL]
    BY DEF Call, InitDflt, InitNamed, SetLogLvl, LogMacro, CallApnd, DstryNone, MemErr, DstryDir, DstryThrd, globVars
  <2>2. QED BY <2>1, SMTT(30) DEF LogTypes, TableTypes
<1>4. QED
  <2>1. ~Setting(c) /\ pc'[c] # "setLvl" /\ ~SettingMax(c)' /\ ~Setting(c)'
    BY <1>2 DEF Setting, SettingMax
  <2>2. QED BY <1>1, <1>2, <1>3, <2>1, LevelsFrame

LEMMA CoveredGoOn ==
  ASSUME LogTypes, Registered, LevelsKept, NEW c \in Callers, GoOn(c), ~mixed'
  PROVE  LevelsKept'
<1> USE LogAssumption DEF LogAssumption
<1>0. /\ OthersSame(c)
      /\ pc \in [Callers -> PcLabels] /\ arg \in [Callers -> Args] /\ arg[c] \in Args
      /\ slot \in [Names -> Cbs \cup {NULL}]
      /\ \A n \in Names, b \in Cbs : slot[n] = b => b \in used
  BY CallersMove DEF LogTypes, TableTypes, CallTypes, CbTypes, Registered, Named
<1>1. CASE InitClear(c) \/ LogWrite(c) \/ ApndDo(c) \/ DstryTid(c) \/ DstryJoin(c)
  <2>1. UNCHANGED <<used, lvl, maxLogLvlVal>> /\ (slot' = slot \/ slot' = [slot EXCEPT ![Default] = NULL])
    BY <1>1 DEF InitClear, LogWrite, ApndDo, DstryTid, DstryJoin, MemErr, cbVars, globVars
  <2>2. pc[c] \in {"clear", "write", "regApnd", "deregApnd", "join", "joining"}
        /\ pc'[c] \in {"idle", "init", "join", "joining"}
    BY <1>0, <1>1 DEF InitClear, LogWrite, ApndDo, DstryTid, DstryJoin, MemErr, Return, Goto, callVars
  <2>3. ~Setting(c) /\ pc'[c] # "setLvl" /\ ~SettingMax(c)' /\ ~Setting(c)'
    BY <2>2 DEF Setting, SettingMax
  <2>4. \A n \in Names : slot'[n] \in {slot[n], NULL}
    BY <1>0, <2>1
  <2>5. QED BY <1>0, <2>1, <2>3, <2>4, LevelsFrame
<1>2. CASE InitCb(c)
  <2>1. PICK b \in Cbs \ used : /\ used' = used \cup {b} /\ arg' = [arg EXCEPT ![c].cb = b]
                               /\ lvl' = [lvl EXCEPT ![b] = arg[c].lvl]
    BY <1>2 DEF InitCb
  <2>2. pc[c] = "init" /\ pc'[c] = "reg" /\ slot' = slot /\ maxLogLvlVal' = maxLogLvlVal
    BY <1>0, <1>2 DEF InitCb, Goto, globVars
  <2>3. arg'[c].cb = b /\ arg'[c].lvl = arg[c].lvl
    <3>1. arg'[c] = [arg[c] EXCEPT !.cb = b]
      BY <1>0, <2>1
    <3>2. QED BY <1>0, <3>1 DEF Args
  <2>4. lvl'[b] = arg[c].lvl /\ \A d \in used : lvl'[d] = lvl[d]
    BY <2>1 DEF LogTypes, CbTypes
  <2>5. ~Setting(c) /\ pc'[c] # "setLvl" /\ ~SettingMax(c)' /\ arg'[c].cb \in used'
        /\ lvl'[arg'[c].cb] = arg'[c].lvl
    BY <2>1, <2>2, <2>3, <2>4 DEF Setting, SettingMax
  <2>6. QED BY <1>0, <2>1, <2>2, <2>4, <2>5, LevelsFrame
<1>3. CASE InitReg(c) \/ CntRead(c) \/ CntWrite(c) \/ MaxTest(c) \/ MaxWrite(c)
  <2>0. Setting(c) /\ UNCHANGED <<used, lvl>>
    BY <1>3 DEF InitReg, CntRead, CntWrite, MaxTest, MaxWrite, Setting, cbVars
  <2>1. PICK b \in used, l \in Levels : b = arg[c].cb /\ l = arg[c].lvl /\ lvl[b] = l
    BY <1>0, <2>0 DEF LevelsKept, Args
  <2>2. \A d \in Callers : d # c => pc'[d] = pc[d] /\ arg'[d] = arg[d]
    BY <1>0 DEF OthersSame
  <2>3. \A x \in Cbs : SetUp(x) => x = b \/ SetUp(x)'
    BY <2>1, <2>2 DEF SetUp
  <2>4. SUFFICES /\ pc'[c] # "setLvl"
                 /\ SettingMax(c)' => \A d \in Callers : SettingMax(d) => d = c
                 /\ Setting(c)' => arg'[c].cb = b /\ arg'[c].lvl = l
                 /\ \A d \in Callers : pc'[d] = "maxWr" => maxLogLvlVal' < arg'[d].lvl
                 /\ \A n \in Names, x \in Cbs : slot'[n] = x /\ ~SetUp(x)' => lvl[x] <= maxLogLvlVal'
    <3>1. \A d \in Callers : pc'[d] # "setLvl"
      BY <2>2, <2>4 DEF LevelsKept
    <3>2. \A d, e \in Callers : SettingMax(d)' /\ SettingMax(e)' => d = e
      BY <2>2, <2>4 DEF LevelsKept, SettingMax
    <3>3. \A d \in Callers : Setting(d)' => arg'[d].cb \in used' /\ lvl'[arg'[d].cb] = arg'[d].lvl
      BY <2>0, <2>1, <2>2, <2>4 DEF LevelsKept, Setting
    <3>4. QED BY <2>0, <2>4, <3>1, <3>2, <3>3 DEF LevelsKept
  <2>5. CASE InitReg(c)
    <3>1. maxLogLvlVal' = maxLogLvlVal /\ pc[c] = "reg" /\ arg[c].name \in Names
      BY <2>5 DEF InitReg, LogTypes, CallTypes
    <3>2. \A n \in Names : slot[n] # b
      BY <2>1, <3>1 DEF Registered
    <3>3. CASE Return(c) /\ slot' = slot
      <4>1. pc'[c] = "idle"
        BY <1>0, <3>3 DEF Return, Goto
      <4>2. QED BY <2>2, <2>3, <3>1, <3>2, <3>3, <4>1 DEF LevelsKept, SettingMax, Setting
    <3>4. CASE Goto(c, "cnt") /\ arg' = arg /\ slot' = [slot EXCEPT ![arg[c].name] = b]
      <4>1. pc'[c] = "cnt" /\ arg'[c].cb = b /\ arg'[c].lvl = l
        BY <2>1, <1>0, <3>4 DEF Goto
      <4>2. SetUp(b)'
        BY <4>1 DEF SetUp
      <4>3. \A n \in Names : slot'[n] = b \/ slot'[n] = slot[n]
        BY <1>0, <3>4
      <4>4. \A n \in Names, x \in Cbs : slot'[n] = x /\ ~SetUp(x)' => lvl[x] <= maxLogLvlVal'
        BY <2>3, <3>1, <3>2, <4>2, <4>3 DEF LevelsKept
      <4>5. QED BY <2>2, <3>1, <4>1, <4>4 DEF LevelsKept, SettingMax
    <3>5. QED BY <2>1, <2>5, <3>3, <3>4 DEF InitReg
  <2>6. CASE CntRead(c)
    <3>1. /\ pc'[c] = "cntWr" /\ slot' = slot /\ maxLogLvlVal' = maxLogLvlVal
          /\ \A d \in Callers : ~SettingMax(d)
      BY <1>0, <2>6 DEF CntRead, Goto, globVars
    <3>2. arg'[c].cb = b /\ arg'[c].lvl = l
      <4>1. arg'[c] = [arg[c] EXCEPT !.tmp = maxLogLvl[arg[c].lvl]]
        BY <1>0, <2>6 DEF CntRead
      <4>2. QED BY <2>1, <1>0, <4>1 DEF Args
    <3>3. SetUp(b)'
      BY <3>1, <3>2 DEF SetUp
    <3>4. QED BY <2>2, <2>3, <3>1, <3>2, <3>3 DEF LevelsKept
  <2>7. CASE CntWrite(c)
    <3>1. /\ pc'[c] = "maxTst" /\ slot' = slot /\ maxLogLvlVal' = maxLogLvlVal /\ arg' = arg
          /\ SettingMax(c)
      BY <1>0, <2>7 DEF CntWrite, Goto, SettingMax
    <3>2. SetUp(b)'
      BY <2>1, <3>1 DEF SetUp
    <3>3. QED BY <2>1, <2>2, <2>3, <3>1, <3>2 DEF LevelsKept
  <2>8. CASE MaxTest(c)
    <3>1. slot' = slot /\ maxLogLvlVal' = maxLogLvlVal /\ SettingMax(c)
      BY <2>8 DEF MaxTest, SettingMax
    <3>2. CASE maxLogLvlVal < l
      <4>1. pc'[c] = "maxWr" /\ arg' = arg
        BY <2>1, <1>0, <2>8, <3>2 DEF MaxTest, Goto
      <4>2. SetUp(b)'
        BY <2>1, <4>1 DEF SetUp
      <4>3. QED BY <2>1, <2>2, <2>3, <3>1, <3>2, <4>1, <4>2 DEF LevelsKept
    <3>3. CASE ~(maxLogLvlVal < l)
      <4>1. pc'[c] = "idle"
        BY <2>1, <1>0, <2>8, <3>3 DEF MaxTest, Return, Goto
      <4>2. lvl[b] <= maxLogLvlVal
        BY <2>1, <3>3 DEF LogTypes, TableTypes, Levels
      <4>3. QED BY <2>2, <2>3, <3>1, <4>1, <4>2 DEF LevelsKept, SettingMax, Setting
    <3>4. QED BY <3>2, <3>3
  <2>9. CASE MaxWrite(c)
    <3>1. slot' = slot /\ maxLogLvlVal' = l /\ pc[c] = "maxWr" /\ pc'[c] = "idle"
      BY <2>1, <1>0, <2>9 DEF MaxWrite, Return, Goto
    <3>2. SettingMax(c) /\ maxLogLvlVal < l
      BY <2>1, <3>1 DEF SettingMax, LevelsKept
    <3>3. \A d \in Callers : pc'[d] # "maxWr"
      <4>1. \A d \in Callers : d # c => ~SettingMax(d)
        BY <3>2 DEF LevelsKept
      <4>2. QED BY <2>2, <3>1, <4>1 DEF SettingMax
    <3>4. \A x \in Cbs : lvl[x] \in Levels
      BY DEF LogTypes, CbTypes
    <3>5. \A n \in Names, x \in Cbs : slot'[n] = x /\ ~SetUp(x)' => lvl[x] <= maxLogLvlVal'
      <4> SUFFICES ASSUME NEW n \in Names, NEW x \in Cbs, slot[n] = x, ~SetUp(x)'
                   PROVE  lvl[x] <= l
        BY <3>1
      <4>1. CASE x = b
        BY <2>1, <4>1 DEF Levels
      <4>2. CASE x # b
        <5>1. lvl[x] <= maxLogLvlVal
          BY <2>3, <4>2 DEF LevelsKept
        <5>2. QED BY <2>1, <3>2, <3>4, <5>1 DEF Levels, LogTypes, TableTypes
      <4>3. QED BY <4>1, <4>2
    <3>6. QED BY <3>1, <3>3, <3>5 DEF SettingMax, Setting
  <2>10. QED BY <1>3, <2>5, <2>6, <2>7, <2>8, <2>9
<1>4. CASE SetLvl(c)
  BY <1>4 DEF SetLvl, LevelsKept
<1>5. CASE CntBad(c)
  BY <1>5 DEF CntBad, MemErr, globVars, cbVars, callVars, LevelsKept, Setting, SettingMax, SetUp
<1>6. QED BY <1>1, <1>2, <1>3, <1>4, <1>5 DEF GoOn

LEMMA CoveredNext ==
  ASSUME LogTypes, Registered, Covered, [Next]_vars
  PROVE  Covered'
<1>1. mixed => mixed'
  <2>1. ASSUME NEW c \in Callers, Call(c) PROVE mixed => mixed'
    BY <2>1 DEF Call, InitDflt, InitNamed, SetLogLvl, LogMacro, CallApnd, DstryNone, MemErr, DstryDir,
       DstryThrd, histVars
  <2>2. ASSUME NEW c \in Callers, GoOn(c) PROVE mixed => mixed'
    BY <2>2 DEF GoOn, InitClear, InitCb, InitReg, CntBad, CntRead, CntWrite, MaxTest, MaxWrite, SetLvl,
       LogWrite, ApndDo, DstryTid, DstryJoin, MemErr, histVars
  <2>3. ASSUME NEW b \in Cbs, LogThread(b) PROVE mixed => mixed'
    BY <2>3 DEF LogThread, ThrPop, ThrEmpty, ThrWake, ThrCancel, ThrClean, ThrLock, ThrWrite, ThrWritten, histVars
  <2>4. UNCHANGED vars => mixed' = mixed
    BY DEF vars, histVars
  <2>5. QED BY <2>1, <2>2, <2>3, <2>4 DEF Next
<1> SUFFICES ASSUME ~mixed', LevelsKept PROVE LevelsKept'
  BY <1>1 DEF Covered
<1>2. CASE UNCHANGED <<slot, pc, arg, used, lvl, maxLogLvlVal>>
  BY <1>2 DEF LevelsKept, SettingMax, Setting, SetUp
<1>3. ASSUME NEW b \in Cbs, LogThread(b) PROVE UNCHANGED <<slot, pc, arg, used, lvl, maxLogLvlVal>>
  BY <1>3 DEF LogThread, ThrPop, ThrEmpty, ThrWake, ThrCancel, ThrClean, ThrLock, ThrWrite, ThrWritten,
     globVars, cbVars, callVars
<1>4. UNCHANGED vars => UNCHANGED <<slot, pc, arg, used, lvl, maxLogLvlVal>>
  BY DEF vars, globVars, cbVars, callVars
<1>5. QED BY <1>2, <1>3, <1>4, CoveredCall, CoveredGoOn DEF Next

-----------------------------------------------------------------------------
(* The messages *)

(* What InOrder says of a line s, the messages a accepted, and those lost  *)
(* in the queue and at the end, o and d.                                   *)
Fits(s, a, o, d) == Sorted(s) /\ a = ToSet(s) \cup o \cup d /\ ToSet(s) \cap (o \cup d) = {}

LEMMA InOrderFits ==
  ASSUME NEW b
  PROVE  InOrder(b) <=> Fits(out[b] \o hand[b] \o que[b], acc[b], overrun[b], dropped[b])
BY DEF InOrder, Fits, Sorted

LEMMA FitsAppend ==
  ASSUME NEW s \in Seq(Nat), NEW a \in SUBSET Nat, NEW o, NEW d, Fits(s, a, o, d),
         NEW m \in Nat, \A y \in a : y < m
  PROVE  Fits(Append(s, m), a \cup {m}, o, d)
<1>1. Sorted(s) /\ a = ToSet(s) \cup o \cup d /\ ToSet(s) \cap (o \cup d) = {} /\ m \notin a
  BY DEF Fits
<1>2. Sorted(Append(s, m))
  BY <1>1, SortedAppend
<1>3. ToSet(Append(s, m)) = ToSet(s) \cup {m}
  BY AppendFacts
<1>4. QED BY <1>1, <1>2, <1>3 DEF Fits

LEMMA FitsCut ==
  ASSUME NEW p \in Seq(Nat), NEW q \in Seq(Nat), NEW a \in SUBSET Nat, NEW o, NEW d, Fits(p \o q, a, o, d)
  PROVE  /\ Fits(p, a, o, d \cup ToSet(q))
         /\ \A m \in Nat : (\A y \in a : y < m) => Fits(p, a \cup {m}, o \cup ToSet(q) \cup {m}, d)
<1>1. /\ Sorted(p) /\ ToSet(p) \cap ToSet(q) = {} /\ ToSet(p \o q) = ToSet(p) \cup ToSet(q)
      /\ a = ToSet(p \o q) \cup o \cup d /\ ToSet(p \o q) \cap (o \cup d) = {}
  BY SortedPrefix, ConcatFacts DEF Fits
<1>2. ASSUME NEW m \in Nat, \A y \in a : y < m PROVE m \notin a
  BY <1>2
<1>3. QED BY <1>1, <1>2 DEF Fits

LEMMA OrderSame ==
  ASSUME NEW b, InOrder(b), out'[b] = out[b], hand'[b] = hand[b], que'[b] = que[b], acc'[b] = acc[b],
         overrun'[b] = overrun[b], dropped'[b] = dropped[b]
  PROVE  InOrder(b)'
BY DEF InOrder

Messages == Numbered /\ MessagesAccounted /\ Waits

LEMMA MessagesSame ==
  ASSUME Messages, UNCHANGED <<que, hand, out, acc, overrun, dropped, idleAt, thr>>
  PROVE  Messages'
<1>1. Numbered'
  BY DEF Messages, Numbered, Accepted
<1>2. MessagesAccounted'
  BY OrderSame DEF Messages, MessagesAccounted
<1>3. Waits'
  BY DEF Messages, Waits, WaitFits
<1>4. QED BY <1>1, <1>2, <1>3 DEF Messages

(* The next number is above all that were accepted, and the messages stay  *)
(* numbered when it is.                                                    *)
LEMMA NextNumber ==
  ASSUME LogTypes, Numbered, NEW b \in Cbs, NEW m, m = Cardinality(Accepted) + 1
  PROVE  /\ m \in Nat /\ \A d \in Cbs : (\A y \in acc[d] : y < m) /\ idleAt[d] < m
         /\ acc' = [acc EXCEPT ![b] = @ \cup {m}] /\ idleAt' = idleAt => Numbered'
<1>1. PICK n \in Nat : Accepted = 1 .. n /\ \A d \in Cbs : idleAt[d] <= n
  BY DEF Numbered
<1>2. m = n + 1
  <2>1. 1 \in Int /\ n \in Int
    BY <1>1
  <2>2. Cardinality(1 .. n) = IF 1 > n THEN 0 ELSE n - 1 + 1
    BY <2>1, FS_Interval, Zenon
  <2>3. Cardinality(1 .. n) = n
    BY <1>1, <2>2
  <2>4. QED BY <1>1, <2>3
<1>3. \A d \in Cbs : acc[d] \subseteq 1 .. n
  BY <1>1 DEF Accepted
<1>4. \A d \in Cbs : idleAt[d] \in Nat
  BY DEF LogTypes, MsgTypes
<1>5. ASSUME acc' = [acc EXCEPT ![b] = @ \cup {m}], idleAt' = idleAt PROVE Numbered'
  <2>1. acc'[b] = acc[b] \cup {m} /\ \A d \in Cbs : d # b => acc'[d] = acc[d]
    BY <1>5 DEF LogTypes, MsgTypes
  <2>2. Accepted' = Accepted \cup {m}
    BY <2>1 DEF Accepted
  <2>3. (1 .. n) \cup {n + 1} = 1 .. n + 1
    BY <1>1
  <2>4. n + 1 \in Nat /\ Accepted' = 1 .. n + 1 /\ \A d \in Cbs : idleAt'[d] <= n + 1
    BY <1>1, <1>2, <1>4, <1>5, <2>2, <2>3
  <2>5. QED BY <2>4 DEF Numbered
<1>6. m \in Nat /\ \A d \in Cbs : (\A y \in acc[d] : y < m) /\ idleAt[d] < m
  BY <1>1, <1>2, <1>3, <1>4
<1>7. QED BY <1>5, <1>6

(* The numbers of the messages that are somewhere.                         *)
LEMMA PartsFacts ==
  ASSUME LogTypes, Messages, NEW b \in Cbs
  PROVE  /\ out[b] \in Seq(Nat) /\ hand[b] \in Seq(Nat) /\ que[b] \in Seq(Nat)
         /\ out[b] \o hand[b] \in Seq(Nat) /\ out[b] \o hand[b] \o que[b] \in Seq(Nat)
         /\ Fits(out[b] \o hand[b] \o que[b], acc[b], overrun[b], dropped[b])
         /\ acc[b] \in SUBSET Nat
         /\ ToSet(out[b]) \subseteq acc[b] /\ ToSet(que[b]) \subseteq acc[b]
<1> DEFINE p == out[b] \o hand[b]
<1>1. out[b] \in Seq(Nat) /\ hand[b] \in Seq(Nat) /\ que[b] \in Seq(Nat) /\ acc[b] \in SUBSET Nat
  BY DEF LogTypes, MsgTypes
<1>2. p \in Seq(Nat) /\ ToSet(p) = ToSet(out[b]) \cup ToSet(hand[b])
  BY <1>1, ConcatFacts
<1>3. Fits(out[b] \o hand[b] \o que[b], acc[b], overrun[b], dropped[b])
  BY InOrderFits DEF Messages, MessagesAccounted
<1> HIDE DEF p
<1>4. p \o que[b] \in Seq(Nat) /\ ToSet(p \o que[b]) = ToSet(p) \cup ToSet(que[b])
  BY <1>1, <1>2, ConcatFacts
<1>5. Fits(p \o que[b], acc[b], overrun[b], dropped[b])
  BY <1>3 DEF p
<1>6. ToSet(out[b]) \subseteq acc[b] /\ ToSet(que[b]) \subseteq acc[b]
  BY <1>2, <1>4, <1>5 DEF Fits
<1>7. QED BY <1>1, <1>2, <1>3, <1>4, <1>6 DEF p

(* A message is accepted: it goes to the end of its line, or the queue is  *)
(* lost with it.  The logger it goes to has a name, so that its thread has *)
(* not ended.                                                              *)
LEMMA MessagesWritten ==
  ASSUME LogTypes, Registered, Threads, Messages, NEW c \in Callers, LogWrite(c)
  PROVE  Messages'
<1> USE LogAssumption DEF LogAssumption
<1>1. CASE UNCHANGED <<que, acc, out, overrun>>
  BY <1>1, MessagesSame DEF LogWrite
<1>2. CASE ~UNCHANGED <<que, acc, out, overrun>>
  <2>1. PICK b \in Cbs : b = Target(arg[c].name)
    <3>1. arg[c].name \in Names
      BY DEF LogWrite, LogTypes, CallTypes
    <3>2. Target(arg[c].name) # NULL
      BY <1>2 DEF LogWrite
    <3>3. QED BY <3>1, <3>2, TargetFacts DEF LogTypes
  <2>2. thr[b] \notin {"cancelled", "gone"} /\ ThreadFits(b) /\ WaitFits(b) /\ dropped[b] = {}
    <3>1. \E k \in Names : slot[k] = b
      BY <2>1, TargetFacts DEF LogWrite, LogTypes, CallTypes
    <3>2. ~cncl[b]
      BY <3>1 DEF Registered, Named
    <3>3. QED BY <3>2 DEF Threads, ThreadFits, Messages, Waits, WaitFits
  <2>3. PICK m : m = Cardinality(Accepted) + 1
    OBVIOUS
  <2>4. m \in Nat /\ \A d \in Cbs : (\A y \in acc[d] : y < m) /\ idleAt[d] < m
    BY <2>3, NextNumber DEF Messages
  <2>5. UNCHANGED <<hand, dropped, idleAt, thr>>
    BY DEF LogWrite
  <2>6. /\ acc' = [acc EXCEPT ![b] = @ \cup {m}]
        /\ \/ /\ wrType[b] = "DIR" /\ out' = [out EXCEPT ![b] = Append(@, m)]
              /\ UNCHANGED <<que, overrun>>
           \/ wrType[b] # "DIR" /\ Push(b, m) /\ out' = out
    BY <1>2, <2>1, <2>3 DEF LogWrite
  <2>7. Numbered'
    BY <2>3, <2>5, <2>6, NextNumber DEF Messages
  <2>8. /\ acc'[b] = acc[b] \cup {m}
        /\ \A d \in Cbs : d # b => /\ acc'[d] = acc[d] /\ out'[d] = out[d] /\ que'[d] = que[d]
                                   /\ overrun'[d] = overrun[d]
    BY <2>6 DEF Push, LogTypes, MsgTypes
  <2> DEFINE p == out[b] \o hand[b]
             s == p \o que[b]
  <2>9. /\ p \in Seq(Nat) /\ s \in Seq(Nat) /\ que[b] \in Seq(Nat) /\ out[b] \in Seq(Nat)
        /\ Fits(s, acc[b], overrun[b], dropped[b]) /\ acc[b] \in SUBSET Nat
        /\ ToSet(out[b]) \subseteq acc[b] /\ ToSet(que[b]) \subseteq acc[b]
    BY PartsFacts
  <2>10. InOrder(b)' /\ WaitFits(b)'
    <3>1. CASE wrType[b] = "DIR" /\ out' = [out EXCEPT ![b] = Append(@, m)] /\ UNCHANGED <<que, overrun>>
      <4>1. thr[b] = "none" /\ hand[b] = << >> /\ que[b] = << >>
        BY <2>2, <3>1 DEF ThreadFits, WaitFits
      <4>2. out'[b] = Append(out[b], m)
        BY <3>1 DEF LogTypes, MsgTypes
      <4>3. out[b] \o << >> = out[b]
        BY <2>9, ConcatEmptySeq
      <4>4. Append(out[b], m) \in Seq(Nat)
        BY <2>4, <2>9, AppendFacts
      <4>5. Append(out[b], m) \o << >> = Append(out[b], m)
        BY <4>4, ConcatEmptySeq, Zenon
      <4>6. s = out[b]
        BY <4>1, <4>3
      <4>7. out'[b] \o hand'[b] \o que'[b] = Append(s, m)
        BY <2>5, <3>1, <4>1, <4>2, <4>5, <4>6
      <4> HIDE DEF s
      <4>8. Fits(Append(s, m), acc[b] \cup {m}, overrun[b], dropped[b])
        BY <2>4, <2>9, FitsAppend
      <4>9. InOrder(b)'
        <5>1. Fits(out'[b] \o hand'[b] \o que'[b], acc'[b], overrun'[b], dropped'[b])
          BY <2>5, <2>8, <3>1, <4>7, <4>8
        <5>2. QED BY <5>1 DEF InOrder, Fits, Sorted
      <4>10. WaitFits(b)'
        BY <2>2, <2>5, <3>1, <4>1 DEF WaitFits
      <4>11. QED BY <4>9, <4>10
    <3>2. CASE wrType[b] # "DIR" /\ Push(b, m) /\ out' = out
      <4>1. thr[b] # "none"
        BY <2>2, <3>2 DEF ThreadFits, LogTypes, CbTypes
      <4>2. CASE Len(que[b]) = QMax - 1
        <5>1. que'[b] = << >> /\ overrun'[b] = overrun[b] \cup ToSet(que[b]) \cup {m}
          BY <3>2, <4>2 DEF Push, LogTypes, MsgTypes
        <5>2. p \o << >> = p
          BY <2>9, ConcatEmptySeq, Zenon
        <5>3. out'[b] \o hand'[b] \o que'[b] = p
          BY <2>5, <3>2, <5>1, <5>2
        <5> HIDE DEF p
        <5>4. Fits(p, acc[b] \cup {m}, overrun[b] \cup ToSet(que[b]) \cup {m}, dropped[b])
          BY <2>4, <2>9, FitsCut
        <5>5. InOrder(b)'
          <6>1. Fits(out'[b] \o hand'[b] \o que'[b], acc'[b], overrun'[b], dropped'[b])
            BY <2>5, <2>8, <5>1, <5>3, <5>4
          <6>2. QED BY <6>1 DEF InOrder, Fits, Sorted
        <5>6. WaitFits(b)'
          BY <2>2, <2>5, <3>2, <4>1, <5>1, EmptyFacts DEF WaitFits
        <5>7. QED BY <5>5, <5>6
      <4>3. CASE Len(que[b]) # QMax - 1
        <5>1. que'[b] = Append(que[b], m) /\ overrun' = overrun
          BY <3>2, <4>3 DEF Push, LogTypes, MsgTypes
        <5>2. out'[b] \o hand'[b] \o que'[b] = p \o Append(que[b], m)
          BY <2>5, <3>2, <5>1
        <5> HIDE DEF p
        <5>3. p \o Append(que[b], m) = Append(s, m)
          BY <2>4, <2>9, AppendEnd, SMTT(30)
        <5> HIDE DEF s
        <5>4. Fits(Append(s, m), acc[b] \cup {m}, overrun[b], dropped[b])
          BY <2>4, <2>9, FitsAppend
        <5>5. InOrder(b)'
          <6>1. Fits(out'[b] \o hand'[b] \o que'[b], acc'[b], overrun'[b], dropped'[b])
            BY <2>5, <2>8, <5>1, <5>2, <5>3, <5>4
          <6>2. QED BY <6>1 DEF InOrder, Fits, Sorted
        <5>6. WaitFits(b)'
          <6>1. ToSet(que'[b]) = ToSet(que[b]) \cup {m}
            BY <2>4, <2>9, <5>1, AppendFacts
          <6>2. m > idleAt[b]
            BY <2>4 DEF LogTypes, MsgTypes
          <6>3. QED BY <2>2, <2>5, <3>2, <4>1, <6>1, <6>2 DEF WaitFits
        <5>7. QED BY <5>5, <5>6
      <4>4. QED BY <4>2, <4>3
    <3>3. QED BY <2>6, <3>1, <3>2
  <2>11. ASSUME NEW d \in Cbs, d # b PROVE InOrder(d)' /\ WaitFits(d)'
    <3>1. InOrder(d) /\ WaitFits(d)
      BY DEF Messages, MessagesAccounted, Waits
    <3>2. InOrder(d)'
      BY <2>5, <2>8, <2>11, <3>1, OrderSame
    <3>3. WaitFits(d)'
      BY <2>5, <2>8, <2>11, <3>1 DEF WaitFits
    <3>4. QED BY <3>2, <3>3
  <2>12. QED BY <2>7, <2>10, <2>11 DEF Messages, MessagesAccounted, Waits
<1>3. QED BY <1>1, <1>2

(* A step of the thread of b: the other loggers are left alone.            *)
LEMMA MessagesOthers ==
  ASSUME LogTypes, Messages, NEW b \in Cbs, InOrder(b)', WaitFits(b)', Numbered',
         \A d \in Cbs : d # b => /\ out'[d] = out[d] /\ hand'[d] = hand[d] /\ que'[d] = que[d]
                                 /\ acc'[d] = acc[d] /\ overrun'[d] = overrun[d] /\ dropped'[d] = dropped[d]
                                 /\ idleAt'[d] = idleAt[d] /\ thr'[d] = thr[d]
  PROVE  Messages'
<1>1. ASSUME NEW d \in Cbs, d # b PROVE InOrder(d)' /\ WaitFits(d)'
  <2>1. InOrder(d) /\ WaitFits(d)
    BY DEF Messages, MessagesAccounted, Waits
  <2>2. InOrder(d)'
    BY <1>1, <2>1, OrderSame
  <2>3. WaitFits(d)'
    BY <1>1, <2>1 DEF WaitFits
  <2>4. QED BY <2>2, <2>3
<1>2. QED BY <1>1 DEF Messages, MessagesAccounted, Waits

LEMMA NumberedSame == Numbered /\ UNCHANGED <<acc, idleAt>> => Numbered'
BY DEF Numbered, Accepted

LEMMA MessagesThread ==
  ASSUME LogTypes, Threads, Messages, NEW b \in Cbs, LogThread(b)
  PROVE  Messages'
<1> DEFINE p == out[b] \o hand[b]
           s == p \o que[b]
<1>0. /\ p \in Seq(Nat) /\ s \in Seq(Nat) /\ que[b] \in Seq(Nat) /\ out[b] \in Seq(Nat) /\ hand[b] \in Seq(Nat)
      /\ Fits(s, acc[b], overrun[b], dropped[b]) /\ acc[b] \in SUBSET Nat
      /\ ToSet(out[b]) \subseteq acc[b] /\ ToSet(que[b]) \subseteq acc[b]
      /\ ThreadFits(b) /\ WaitFits(b) /\ InOrder(b)
  BY PartsFacts DEF Threads, Messages, Waits, MessagesAccounted
<1>1. CASE ThrPop(b)
  <2>1. /\ thr[b] = "pop" /\ que[b] # << >> /\ hand[b] = << >> /\ dropped[b] = {}
        /\ hand'[b] = <<Head(que[b])>> /\ que'[b] = Tail(que[b]) /\ thr'[b] = "hand"
        /\ UNCHANGED <<out, acc, overrun, dropped, idleAt>>
    BY <1>0, <1>1 DEF ThrPop, ThrGoto, histVars, WaitFits, LogTypes, MsgTypes, ThrTypes
  <2>2. /\ <<Head(que[b])>> \in Seq(Nat) /\ Tail(que[b]) \in Seq(Nat)
        /\ que[b] = <<Head(que[b])>> \o Tail(que[b])
    BY <1>0, <2>1, TailFacts
  <2>3. out[b] \o <<Head(que[b])>> \o Tail(que[b]) = out[b] \o (<<Head(que[b])>> \o Tail(que[b]))
    <3>1. out[b] \in Seq(Nat) /\ <<Head(que[b])>> \in Seq(Nat) /\ Tail(que[b]) \in Seq(Nat)
      BY <1>0, <2>2
    <3>2. \A u, v, w \in Seq(Nat) : (u \o v) \o w = u \o (v \o w)
      BY ConcatAssociative, SMTT(30)
    <3>3. QED BY <3>1, <3>2, Zenon
  <2>4. p = out[b]
    <3>1. out[b] \o << >> = out[b]
      BY <1>0, ConcatEmptySeq
    <3>2. QED BY <2>1, <3>1
  <2>5. out'[b] \o hand'[b] \o que'[b] = s
    BY <2>1, <2>2, <2>3, <2>4
  <2>6. InOrder(b)'
    <3> HIDE DEF s
    <3>1. Fits(out'[b] \o hand'[b] \o que'[b], acc'[b], overrun'[b], dropped'[b])
      BY <1>0, <2>1, <2>5
    <3>2. QED BY <3>1 DEF InOrder, Fits, Sorted
  <2>7. WaitFits(b)'
    BY <2>1 DEF WaitFits
  <2>8. Numbered'
    BY <2>1, NumberedSame DEF Messages
  <2>9. QED BY <1>1, <2>6, <2>7, <2>8, MessagesOthers DEF ThrPop, ThrGoto, histVars, LogTypes, MsgTypes, ThrTypes
<1>2. CASE ThrEmpty(b)
  <2>1. /\ thr[b] = "pop" /\ que[b] = << >> /\ hand[b] = << >> /\ dropped[b] = {}
        /\ thr'[b] \in {"wait", "cancelled"} /\ idleAt'[b] = Cardinality(Accepted)
        /\ UNCHANGED <<que, hand, out, acc, overrun, dropped>>
    BY <1>0, <1>2 DEF ThrEmpty, ThrGoto, WaitFits, LogTypes, MsgTypes, ThrTypes
  <2>2. PICK n \in Nat : Accepted = 1 .. n /\ \A d \in Cbs : idleAt[d] <= n
    BY DEF Messages, Numbered
  <2>3. Cardinality(Accepted) = n
    <3>1. Accepted = 1 .. n /\ 1 \in Int /\ n \in Int
      BY <2>2
    <3>2. Cardinality(1 .. n) = IF 1 > n THEN 0 ELSE n - 1 + 1
      BY <3>1, FS_Interval, Zenon
    <3>3. QED BY <2>2, <3>2
  <2>4. acc[b] \subseteq 1 .. n
    BY <2>2 DEF Accepted
  <2>5. Numbered'
    <3>1. Accepted' = Accepted
      BY <2>1 DEF Accepted
    <3>2. \A d \in Cbs : idleAt'[d] <= n
      BY <1>2, <2>2, <2>3 DEF ThrEmpty, LogTypes, MsgTypes
    <3>3. QED BY <2>2, <3>1, <3>2 DEF Numbered
  <2>6. WaitFits(b)'
    <3>1. \A m \in ToSet(out[b]) : m <= n
      BY <1>0, <2>4
    <3>2. ToSet(que[b]) = {}
      BY <2>1, EmptyFacts
    <3>3. QED BY <2>1, <2>3, <3>1, <3>2 DEF WaitFits
  <2>7. InOrder(b)'
    BY <1>0, <2>1, OrderSame
  <2>8. QED BY <1>2, <2>5, <2>6, <2>7, MessagesOthers DEF ThrEmpty, ThrGoto, LogTypes, MsgTypes, ThrTypes
<1>3. CASE ThrWake(b) \/ ThrCancel(b)
  <2>1. /\ thr[b] = "wait" /\ thr'[b] \in {"pop", "cancelled"}
        /\ UNCHANGED <<que, hand, out, acc, overrun, dropped, idleAt>>
    BY <1>3 DEF ThrWake, ThrCancel, ThrGoto, histVars, LogTypes, ThrTypes
  <2>2. WaitFits(b)'
    BY <1>0, <2>1 DEF WaitFits
  <2>3. InOrder(b)' /\ Numbered'
    BY <1>0, <2>1, OrderSame, NumberedSame DEF Messages
  <2>4. QED BY <1>3, <2>1, <2>2, <2>3, MessagesOthers DEF ThrWake, ThrCancel, ThrGoto, LogTypes, ThrTypes
<1>4. CASE ThrClean(b)
  <2>1. /\ thr[b] = "cancelled" /\ hand[b] = << >> /\ dropped[b] = {} /\ thr'[b] = "gone"
        /\ que'[b] = << >> /\ dropped'[b] = dropped[b] \cup ToSet(que[b])
        /\ UNCHANGED <<hand, out, acc, overrun, idleAt>>
    BY <1>0, <1>4 DEF ThrClean, ThrGoto, WaitFits, LogTypes, MsgTypes, ThrTypes
  <2>2. p \o << >> = p
    BY <1>0, ConcatEmptySeq, Zenon
  <2>3. out'[b] \o hand'[b] \o que'[b] = p
    BY <2>1, <2>2
  <2>4. InOrder(b)'
    <3> HIDE DEF p
    <3>1. Fits(p, acc[b], overrun[b], dropped[b] \cup ToSet(que[b]))
      BY <1>0, FitsCut
    <3>2. Fits(out'[b] \o hand'[b] \o que'[b], acc'[b], overrun'[b], dropped'[b])
      BY <2>1, <2>3, <3>1
    <3>3. QED BY <3>2 DEF InOrder, Fits, Sorted
  <2>5. WaitFits(b)'
    BY <1>0, <2>1, EmptyFacts DEF WaitFits
  <2>6. Numbered'
    BY <2>1, NumberedSame DEF Messages
  <2>7. QED BY <1>4, <2>4, <2>5, <2>6, MessagesOthers DEF ThrClean, ThrGoto, LogTypes, MsgTypes, ThrTypes
<1>5. CASE ThrLock(b) \/ ThrWrite(b)
  <2>1. /\ thr[b] \in {"hand", "walk"} /\ thr'[b] = "walk"
        /\ UNCHANGED <<que, hand, out, acc, overrun, dropped, idleAt>>
    BY <1>5 DEF ThrLock, ThrWrite, ThrGoto, histVars, LogTypes, ThrTypes
  <2>2. WaitFits(b)'
    BY <1>0, <2>1 DEF WaitFits
  <2>3. InOrder(b)' /\ Numbered'
    BY <1>0, <2>1, OrderSame, NumberedSame DEF Messages
  <2>4. QED BY <1>5, <2>1, <2>2, <2>3, MessagesOthers DEF ThrLock, ThrWrite, ThrGoto, LogTypes, ThrTypes
<1>6. CASE ThrWritten(b)
  <2>1. /\ thr[b] = "walk" /\ dropped[b] = {} /\ thr'[b] = "pop"
        /\ out'[b] = p /\ hand'[b] = << >>
        /\ UNCHANGED <<que, acc, overrun, dropped, idleAt>>
    BY <1>0, <1>6 DEF ThrWritten, ThrGoto, WaitFits, LogTypes, MsgTypes, ThrTypes
  <2>2. p \o << >> = p
    BY <1>0, ConcatEmptySeq, Zenon
  <2>3. out'[b] \o hand'[b] \o que'[b] = s
    BY <2>1, <2>2
  <2>4. InOrder(b)'
    <3> HIDE DEF s
    <3>1. Fits(out'[b] \o hand'[b] \o que'[b], acc'[b], overrun'[b], dropped'[b])
      BY <1>0, <2>1, <2>3
    <3>2. QED BY <3>1 DEF InOrder, Fits, Sorted
  <2>5. WaitFits(b)'
    BY <2>1 DEF WaitFits
  <2>6. Numbered'
    BY <2>1, NumberedSame DEF Messages
  <2>7. QED BY <1>6, <2>4, <2>5, <2>6, MessagesOthers DEF ThrWritten, ThrGoto, LogTypes, MsgTypes, ThrTypes
<1>7. QED BY <1>1, <1>2, <1>3, <1>4, <1>5, <1>6 DEF LogThread

LEMMA MessagesNext ==
  ASSUME LogTypes, Registered, Threads, Messages, [Next]_vars
  PROVE  Messages'
<1>1. UNCHANGED vars => UNCHANGED <<que, hand, out, acc, overrun, dropped, idleAt, thr>>
  BY SMTT(30) DEF vars, thrVars, histVars
<1>2. ASSUME NEW c \in Callers, Call(c) PROVE UNCHANGED <<que, hand, out, acc, overrun, dropped, idleAt, thr>>
  BY <1>2 DEF Call, InitDflt, InitNamed, SetLogLvl, LogMacro, CallApnd, DstryNone, MemErr, DstryDir, DstryThrd,
     thrVars, histVars
<1>3. ASSUME NEW c \in Callers, InitCb(c) PROVE Messages'
  <2>1. UNCHANGED <<que, hand, out, acc, overrun, dropped, idleAt>>
    BY <1>3 DEF InitCb, histVars
  <2>2. PICK b \in Cbs \ used : \E l \in {"pop", "none"} : thr' = [thr EXCEPT ![b] = l]
    BY <1>3 DEF InitCb
  <2>3. thr[b] = "none" /\ thr'[b] \in {"pop", "none"}
        /\ \A d \in Cbs : d # b => thr'[d] = thr[d]
    BY <2>2 DEF Threads, ThreadFits, LogTypes, ThrTypes
  <2>4. WaitFits(b)
    BY DEF Messages, Waits
  <2>5. WaitFits(b)'
    BY <2>1, <2>3, <2>4 DEF WaitFits
  <2>6. InOrder(b)' /\ Numbered'
    BY <2>1, OrderSame, NumberedSame DEF Messages, MessagesAccounted
  <2>7. QED BY <2>1, <2>3, <2>5, <2>6, MessagesOthers
<1>4. ASSUME NEW c \in Callers, GoOn(c)
      PROVE  InitCb(c) \/ LogWrite(c) \/ UNCHANGED <<que, hand, out, acc, overrun, dropped, idleAt, thr>>
  BY <1>4 DEF GoOn, InitClear, InitReg, CntBad, CntRead, CntWrite, MaxTest, MaxWrite, SetLvl, ApndDo,
     DstryTid, DstryJoin, MemErr, thrVars, histVars
<1>5. QED BY <1>1, <1>2, <1>3, <1>4, MessagesSame, MessagesWritten, MessagesThread DEF Next

-----------------------------------------------------------------------------
(* Theorems *)

LEMMA LogInvNext == LogInv /\ [Next]_vars => LogInv'
<1> SUFFICES ASSUME LogInv, [Next]_vars PROVE LogInv'
  OBVIOUS
<1>1. LogTypes /\ Threads /\ WalkSafe /\ Registered /\ Covered /\ Messages /\ Numbered
  BY DEF LogInv, Messages
<1>2. LogTypes'
  BY <1>1, TypesNext
<1>3. Threads' /\ WalkSafe' /\ Registered' /\ Covered'
  BY <1>1, ThreadsNext, WalkNext, RegisteredNext, CoveredNext
<1>4. Messages'
  BY <1>1, MessagesNext
<1>5. QED BY <1>2, <1>3, <1>4 DEF LogInv, Messages

(* The invariant the others follow from: what the table, the callers, the  *)
(* threads of the loggers and the messages have to do with one another.    *)
THEOREM LogInductive == Spec => []LogInv
<1>1. QED BY LogInvInit, LogInvNext, PTL DEF Spec

LEMMA LogInvTypes == LogInv => TypeOK
<1> SUFFICES ASSUME LogInv PROVE TypeOK
  OBVIOUS
<1>1. \A b \in Cbs : ToSet(apnds[b]) \subseteq Apnds
  BY SeqFacts DEF LogInv, LogTypes, CbTypes
<1>2. QED
  BY <1>1 DEF LogInv, LogTypes, TableTypes, CallTypes, CbTypes, ThrTypes, MsgTypes, PcLabels, ThrLabels, TypeOK

(* The variables have their types.                                         *)
THEOREM LogTypeCorrect == Spec => []TypeOK
<1>1. QED BY LogInductive, LogInvTypes, PTL

LEMMA LogInvAccounting == LogInv => Accounting
<1> SUFFICES ASSUME LogInv PROVE Accounting
  OBVIOUS
<1>1. OnlyLateDropped
  <2> SUFFICES ASSUME NEW b \in Cbs, dropped[b] # {}
               PROVE  /\ \A m \in dropped[b] : m > idleAt[b]
                      /\ \A m \in ToSet(out[b]) : m <= idleAt[b]
    BY DEF OnlyLateDropped
  <2>1. WaitFits(b)
    BY DEF LogInv, Waits
  <2>2. QED BY <2>1 DEF WaitFits
<1>2. QED BY <1>1 DEF LogInv, Accounting

(* loglib_apiLogWrite, loglibInt_thrdMain, thrd_clnThrd: every message that *)
(* was accepted is written, in hand or queued, in the order of acceptance,  *)
(* or was lost in the queue, or freed at the end although it came after     *)
(* the thread had found its queue empty, whatever callers and threads do.   *)
THEOREM MessagesStayAccounted == Spec => []Accounting
<1>1. QED BY LogInductive, LogInvAccounting, PTL

LEMMA LogInvMemory == LogInv => MemoryHeld
<1> SUFFICES ASSUME LogInv PROVE MemoryHeld
  OBVIOUS
<1>1. NamesLive
  <2> SUFFICES ASSUME NEW n \in Names, slot[n] # NULL
               PROVE  slot[n] \in live /\ ~cncl[slot[n]] /\ thr[slot[n]] \notin {"cancelled", "gone"}
    BY DEF NamesLive
  <2>1. slot[n] \in Cbs
    BY DEF LogInv, LogTypes, TableTypes
  <2>2. slot[n] \in live /\ ~cncl[slot[n]]
    BY <2>1 DEF LogInv, Registered, Named
  <2>3. QED BY <2>1, <2>2 DEF LogInv, Threads, ThreadFits
<1>2. QED BY <1>1 DEF LogInv, MemoryHeld

(* loglib_apiDeregApnd, loglib_apiDstry: no appender that a thread has yet  *)
(* to reach is freed, and a name leads to an allocated logger whose thread  *)
(* runs, for any callers and loggers.                                       *)
THEOREM MemoryStaysHeld == Spec => []MemoryHeld
<1>1. QED BY LogInductive, LogInvMemory, PTL

LEMMA LogInvCovers == LogInv => MaxCovers
<1>1. LogInv => \A n \in Names : slot[n] # NULL => slot[n] \in Cbs
  BY DEF LogInv, LogTypes, TableTypes
<1>2. QED BY <1>1 DEF LogInv, Covered, LevelsKept, MaxCovers

(* loglibInt_globSetMaxLogLvl: as long as no level is changed and no two    *)
(* callers are past the counter at once, the macros let through whatever a  *)
(* registered logger would write.                                           *)
THEOREM MaxKeepsCovering == Spec => []MaxCovers
<1>1. QED BY LogInductive, LogInvCovers, PTL
-----------------------------------------------------------------------------
(***************************************************************************)
(* LogFile, for any number of hours, of files and of restarts, and for     *)
(* messages of any length up to some longest one.                          *)
(*                                                                         *)
(* Each file is a piece of what was written to its place (Pieces): the     *)
(* pieces follow one another from the highest number down to 0, whose end  *)
(* is the end of what was written.  Renaming moves all pieces up by one    *)
(* because the numbers in use have no gap (NoGap), so the one lost is the  *)
(* oldest, and only when all are in use (LostLast).                        *)
(***************************************************************************)

Msgs == [id : Nat, tm : Hour, len : Lens]
Files == [Number -> Seq(Msgs)]

(* start says where in w, what was written, each of the files fs begins.   *)
Pieces(fs, w, start) ==
  /\ start \in [Number -> Nat]
  /\ start[0] + Len(fs[0]) = Len(w)
  /\ \A i \in Number : fs[i] = SubSeq(w, start[i] + 1, start[i] + Len(fs[i]))
  /\ \A i \in Number \ {0} : start[i] + Len(fs[i]) = start[i - 1]
  /\ \A i, j \in Number : i < j => start[j] <= start[i]

LostLast(fs, start) == start[Keep + 1] # 0 => \A i \in Number \ {0} : fs[i] # NoFile

NoGap(fs) == \A i, j \in Number \ {0} : i < j /\ fs[j] # NoFile => fs[i] # NoFile

FileTyped ==
  /\ files \in [Place -> Files] /\ written \in [Place -> Seq(Msgs)]
  /\ now \in Hour /\ lastTms \in Hour /\ tm \in Hour /\ fpPlace \in Place
  /\ open \in BOOLEAN /\ dirFailed \in BOOLEAN
  /\ logSize \in Nat /\ cnt \in Nat

HourOK(fs, w) == NoGap(fs) /\ \E start : Pieces(fs, w, start) /\ LostLast(fs, start)

SpillOK(fs, w) == (\A i \in Number \ {0, 1} : fs[i] = NoFile) /\ \E start : Pieces(fs, w, start)

InPieces(fs, w) == SpillOK(fs[Spill], w[Spill]) /\ \A h \in Hour : HourOK(fs[h], w[h])

NoneTooLarge(fs) == \A h \in Place, i \in Number : FileSize(fs[h][i]) <= MaxLogSize + Max(Lens)

AsideTooLarge(fs) == \A h \in Hour, i \in Number \ {0} : fs[h][i] # NoFile => FileSize(fs[h][i]) > MaxLogSize

(* The count is not less than the file, which is of the hour of the last   *)
(* make.                                                                   *)
Counted ==
  open /\ ~dirFailed => FileSize(files[fpPlace][0]) <= logSize /\ fpPlace \in {lastTms, Spill}

FileInv ==
  /\ FileTyped /\ Counted /\ NotEarlier
  /\ InPieces(files, written)
  /\ dirFailed \/ NoneTooLarge(files)
  /\ AsideTooLarge(files)

-----------------------------------------------------------------------------
(* Recursive functions *)

LEMMA LeastNumber ==
  ASSUME NEW S, S \subseteq Nat, S # {}
  PROVE  \E i \in S : \A j \in S : i <= j
<1> DEFINE R == OpToRel(<, Nat)
<1>1. IsWellFoundedOn(R, Nat)
  BY NatLessThanWellFounded
<1>2. \A i, j \in Nat : <<i, j>> \in R <=> i < j
  BY DEF OpToRel
<1> HIDE DEF R
<1>3. PICK i \in S : \A j \in S : ~(<<j, i>> \in R)
  BY <1>1, WFMin
<1>4. ASSUME NEW j \in S PROVE i <= j
  <2>1. i \in Nat /\ j \in Nat /\ ~(<<j, i>> \in R)
    BY <1>3
  <2>2. ~(j < i)
    BY <2>1, <1>2
  <2>3. QED BY <2>1, <2>2
<1>5. QED BY <1>4

(* sum adds up the lengths of the messages of f. *)
Sums(f, n, sum) == sum = [k \in 0 .. n |-> IF k = 0 THEN 0 ELSE sum[k - 1] + f[k].len]

LEMMA SumsExist ==
  ASSUME NEW f, NEW n \in Nat
  PROVE  \E sum : Sums(f, n, sum)
<1> DEFINE S == {k \in Nat : ~\E sum : Sums(f, k, sum)}
<1> SUFFICES ASSUME S # {} PROVE FALSE
  OBVIOUS
<1>1. PICK k \in S : \A j \in S : k <= j
  BY LeastNumber
<1>2. CASE k = 0
  <2> DEFINE sum == [i \in 0 .. k |-> 0]
  <2>1. sum = [i \in 0 .. k |-> IF i = 0 THEN 0 ELSE sum[i - 1] + f[i].len]
    BY <1>2
  <2>2. QED BY <1>1, <2>1 DEF Sums
<1>3. CASE k # 0
  <2>1. k \in Nat /\ k - 1 \in Nat /\ k - 1 \notin S
    BY <1>1, <1>3
  <2>2. PICK s : Sums(f, k - 1, s)
    BY <2>1
  <2> DEFINE sum == [i \in 0 .. k |-> IF i = k THEN s[k - 1] + f[k].len ELSE s[i]]
  <2>3. \A i \in 0 .. k - 1 : s[i] = IF i = 0 THEN 0 ELSE s[i - 1] + f[i].len
    BY <2>2 DEF Sums
  <2>4. ASSUME NEW i \in 0 .. k PROVE sum[i] = IF i = 0 THEN 0 ELSE sum[i - 1] + f[i].len
    <3>1. CASE i = k
      BY <1>3, <2>1, <3>1
    <3>2. CASE i # k
      BY <2>1, <2>3, <3>2
    <3>3. QED BY <3>1, <3>2
  <2>5. sum = [i \in 0 .. k |-> IF i = 0 THEN 0 ELSE sum[i - 1] + f[i].len]
    BY <2>4
  <2> HIDE DEF sum
  <2>6. Sums(f, k, sum)
    BY <2>5 DEF Sums
  <2>7. QED BY <1>1, <2>6
<1>4. QED BY <1>2, <1>3

LEMMA SumsAgree ==
  ASSUME NEW f \in Seq(Msgs), NEW g \in Seq(Msgs), NEW n \in Nat, n <= Len(f), n <= Len(g),
         \A i \in 1 .. n : f[i] = g[i], NEW s, Sums(f, Len(f), s), NEW t, Sums(g, Len(g), t)
  PROVE  s[n] = t[n] /\ s[n] \in Nat
<1>1. /\ \A k \in 0 .. Len(f) : s[k] = IF k = 0 THEN 0 ELSE s[k - 1] + f[k].len
      /\ \A k \in 0 .. Len(g) : t[k] = IF k = 0 THEN 0 ELSE t[k - 1] + g[k].len
      /\ Len(f) \in Nat /\ Len(g) \in Nat
      /\ \A k \in 1 .. Len(f) : f[k].len \in Nat
  <2>1. s = [k \in 0 .. Len(f) |-> IF k = 0 THEN 0 ELSE s[k - 1] + f[k].len]
    BY DEF Sums
  <2>2. t = [k \in 0 .. Len(g) |-> IF k = 0 THEN 0 ELSE t[k - 1] + g[k].len]
    BY DEF Sums
  <2>3. \A k \in 1 .. Len(f) : f[k] \in Msgs
    OBVIOUS
  <2>4. \A m \in Msgs : m.len \in Nat
    BY FileAssumption DEF Msgs
  <2>5. \A k \in 0 .. Len(f) : s[k] = IF k = 0 THEN 0 ELSE s[k - 1] + f[k].len
    BY <2>1
  <2>6. \A k \in 0 .. Len(g) : t[k] = IF k = 0 THEN 0 ELSE t[k - 1] + g[k].len
    BY <2>2
  <2>7. QED BY <2>3, <2>4, <2>5, <2>6
<1> DEFINE S == {k \in Nat : k <= n /\ ~(s[k] = t[k] /\ s[k] \in Nat)}
<1> SUFFICES ASSUME S # {} PROVE FALSE
  OBVIOUS
<1>2. PICK k \in S : \A j \in S : k <= j
  BY LeastNumber
<1>3. CASE k = 0
  BY <1>1, <1>2, <1>3
<1>4. CASE k # 0
  <2>1. k \in 1 .. n /\ k - 1 \in Nat /\ k - 1 <= n /\ k \in 0 .. Len(f) /\ k \in 0 .. Len(g) /\ k \in 1 .. Len(f)
    BY <1>1, <1>2, <1>4
  <2>2. k - 1 \notin S
    BY <1>2, <2>1
  <2>3. s[k - 1] = t[k - 1] /\ s[k - 1] \in Nat
    BY <2>1, <2>2
  <2>4. s[k] = s[k - 1] + f[k].len /\ t[k] = t[k - 1] + g[k].len /\ f[k] = g[k] /\ f[k].len \in Nat
    BY <1>1, <1>4, <2>1
  <2>5. s[k] = t[k] /\ s[k] \in Nat
    BY <2>3, <2>4
  <2>6. QED BY <1>2, <2>5
<1>5. QED BY <1>3, <1>4

LEMMA FileSizeIs ==
  ASSUME NEW f \in Seq(Msgs)
  PROVE  \E sum : Sums(f, Len(f), sum) /\ FileSize(f) = sum[Len(f)]
<1> DEFINE sum == CHOOSE s : Sums(f, Len(f), s)
<1>1. Sums(f, Len(f), sum)
  BY SumsExist
<1>2. FileSize(f) = sum[Len(f)]
  BY DEF FileSize, Sums
<1>3. QED BY <1>1, <1>2

LEMMA FileSizes ==
  /\ FileSize(NoFile) = 0
  /\ \A f \in Seq(Msgs) : FileSize(f) \in Nat
  /\ \A f \in Seq(Msgs), m \in Msgs : FileSize(Append(f, m)) = FileSize(f) + m.len
<1>1. ASSUME NEW f \in Seq(Msgs) PROVE FileSize(f) \in Nat /\ (f = NoFile => FileSize(f) = 0)
  <2>1. PICK s : Sums(f, Len(f), s) /\ FileSize(f) = s[Len(f)]
    BY FileSizeIs
  <2>2. Len(f) \in Nat
    OBVIOUS
  <2>3. s[Len(f)] \in Nat
    BY <2>1, <2>2, SumsAgree
  <2>4. f = NoFile => Len(f) = 0
    BY DEF NoFile
  <2>5. s[0] = 0
    BY <2>1, <2>2 DEF Sums
  <2>6. QED BY <2>1, <2>3, <2>4, <2>5
<1>2. ASSUME NEW f \in Seq(Msgs), NEW m \in Msgs PROVE FileSize(Append(f, m)) = FileSize(f) + m.len
  <2> DEFINE g == Append(f, m)
  <2>1. /\ g \in Seq(Msgs) /\ Len(g) = Len(f) + 1 /\ Len(f) \in Nat
        /\ \A i \in 1 .. Len(f) : f[i] = g[i]
        /\ g[Len(f) + 1] = m
    OBVIOUS
  <2> HIDE DEF g
  <2>2. PICK s : Sums(f, Len(f), s) /\ FileSize(f) = s[Len(f)]
    BY FileSizeIs
  <2>3. PICK t : Sums(g, Len(g), t) /\ FileSize(g) = t[Len(g)]
    BY <2>1, FileSizeIs
  <2>4. Len(f) <= Len(f) /\ Len(f) <= Len(g)
    BY <2>1
  <2>5. s[Len(f)] = t[Len(f)]
    BY <2>1, <2>2, <2>3, <2>4, SumsAgree
  <2>6. t[Len(f) + 1] = t[Len(f)] + m.len
    <3>1. Len(f) + 1 \in 0 .. Len(g) /\ Len(f) + 1 # 0 /\ (Len(f) + 1) - 1 = Len(f)
      BY <2>1
    <3>2. QED BY <2>1, <2>3, <3>1 DEF Sums
  <2>7. QED BY <2>1, <2>2, <2>3, <2>5, <2>6 DEF g
<1>3. NoFile \in Seq(Msgs)
  BY DEF NoFile
<1>4. QED BY <1>1, <1>2, <1>3

-----------------------------------------------------------------------------
(* Renaming *)

LEMMA NumberIs ==
  /\ Keep \in Nat /\ Number = 0 .. Keep + 1 /\ Number \subseteq Nat
  /\ Hours \in Nat /\ Hour = 0 .. Hours /\ Place = 0 .. Hours + 1 /\ Spill = Hours + 1
  /\ Hour \subseteq Place /\ Spill \in Place /\ Spill \notin Hour /\ \A h \in Place : h \in Hour \/ h = Spill
BY FileAssumption DEF Number, Hour, Place, Spill

(* The files after the k highest numbers were renamed. *)
Stage(fs, k) == [i \in Number |-> IF i > Keep + 1 - k THEN fs[i - 1]
                                  ELSE IF i = Keep + 1 - k /\ k > 0 THEN NoFile ELSE fs[i]]

LEMMA StageNext ==
  ASSUME NEW fs \in Files, NoGap(fs), fs[0] # NoFile, NEW k \in 0 .. Keep
  PROVE  Stage(fs, k + 1) = Rename(Stage(fs, k), Keep - k)
<1> DEFINE r == Stage(fs, k)
           n == Keep - k
<1>1. /\ Keep \in Nat /\ Number = 0 .. Keep + 1 /\ k \in Nat /\ n \in 0 .. Keep
      /\ n + 1 = Keep + 1 - k /\ n = Keep + 1 - (k + 1) /\ k + 1 > 0
  BY NumberIs
<1>2. /\ \A i \in Number : r[i] = IF i > n + 1 THEN fs[i - 1] ELSE IF i = n + 1 /\ k > 0 THEN NoFile ELSE fs[i]
      /\ r = [i \in Number |-> r[i]]
  BY <1>1 DEF Stage
<1>3. \A i \in Number : Stage(fs, k + 1)[i] = IF i > n THEN fs[i - 1] ELSE IF i = n THEN NoFile ELSE fs[i]
  BY <1>1 DEF Stage
<1>4. Stage(fs, k + 1) = [i \in Number |-> IF i > n THEN fs[i - 1] ELSE IF i = n THEN NoFile ELSE fs[i]]
  <2>1. Stage(fs, k + 1) = [i \in Number |-> Stage(fs, k + 1)[i]]
    BY DEF Stage
  <2> HIDE DEF n
  <2>2. QED BY <1>3, <2>1
<1> HIDE DEF r, n
<1>5. n \in Number /\ n + 1 \in Number /\ r[n] = fs[n]
  <2>1. n \in Number /\ n + 1 \in Number /\ ~(n > n + 1) /\ n # n + 1
    BY <1>1
  <2>2. QED BY <1>2, <2>1
<1>6. CASE fs[n] = NoFile
  <2>1. Rename(r, n) = r
    BY <1>5, <1>6 DEF Rename
  <2>2. k = 0 => fs[n + 1] = NoFile
    <3>1. n # 0 /\ n < n + 1 /\ n + 1 # 0
      BY <1>1, <1>6
    <3>2. QED BY <1>5, <1>6, <3>1 DEF NoGap
  <2>3. \A i \in Number : (IF i > n THEN fs[i - 1] ELSE IF i = n THEN NoFile ELSE fs[i]) = r[i]
    <3> TAKE i \in Number
    <3>1. CASE i = n + 1
      BY <1>1, <1>2, <1>6, <2>2, <3>1
    <3>2. CASE i # n + 1
      BY <1>1, <1>2, <1>6, <3>2
    <3>3. QED BY <3>1, <3>2
  <2>4. QED BY <1>2, <1>4, <2>1, <2>3 DEF r, n
<1>7. CASE fs[n] # NoFile
  <2>1. Rename(r, n) = [r EXCEPT ![n + 1] = fs[n], ![n] = NoFile]
    BY <1>5, <1>7 DEF Rename
  <2>2. \A i \in Number : (IF i > n THEN fs[i - 1] ELSE IF i = n THEN NoFile ELSE fs[i])
                        = (IF i = n THEN NoFile ELSE IF i = n + 1 THEN fs[n] ELSE r[i])
    BY <1>1, <1>2
  <2>3. Rename(r, n) = [i \in Number |-> IF i = n THEN NoFile ELSE IF i = n + 1 THEN fs[n] ELSE r[i]]
    BY <1>1, <1>2, <1>5, <2>1
  <2>4. QED BY <1>4, <2>2, <2>3 DEF r, n
<1>8. QED BY <1>6, <1>7

(* Without a gap the renaming moves every file up by one. *)
LEMMA RotateIs ==
  ASSUME NEW fs \in Files, NoGap(fs), fs[0] # NoFile
  PROVE  Rotate(fs) = [i \in Number |-> IF i = 0 THEN NoFile ELSE fs[i - 1]]
<1> DEFINE F(g) == [k \in 0 .. Keep + 1 |-> IF k = 0 THEN fs ELSE Rename(g[k - 1], Keep + 1 - k)]
           f == [k \in 0 .. Keep + 1 |-> Stage(fs, k)]
           m == CHOOSE g : g = F(g)
<1>1. Keep \in Nat /\ Number = 0 .. Keep + 1
  BY NumberIs
<1>2. Stage(fs, 0) = fs
  BY <1>1 DEF Stage, Files
<1>3. \A k \in 1 .. Keep + 1 : Stage(fs, k) = Rename(Stage(fs, k - 1), Keep + 1 - k)
  <2> TAKE k \in 1 .. Keep + 1
  <2>1. k - 1 \in 0 .. Keep /\ (k - 1) + 1 = k /\ Keep - (k - 1) = Keep + 1 - k
    BY <1>1
  <2>2. Stage(fs, (k - 1) + 1) = Rename(Stage(fs, k - 1), Keep - (k - 1))
    BY <2>1, StageNext
  <2>3. QED BY <2>1, <2>2
<1>4. f = F(f)
  <2>1. ASSUME NEW k \in 0 .. Keep + 1
        PROVE  Stage(fs, k) = IF k = 0 THEN fs ELSE Rename(f[k - 1], Keep + 1 - k)
    <3>1. CASE k = 0
      BY <1>2, <3>1
    <3>2. CASE k # 0
      <4>1. k \in 1 .. Keep + 1 /\ k - 1 \in 0 .. Keep + 1
        BY <1>1, <3>2
      <4>2. f[k - 1] = Stage(fs, k - 1)
        BY <4>1
      <4>3. QED BY <1>3, <3>2, <4>1, <4>2
    <3>3. QED BY <3>1, <3>2
  <2>2. QED BY <2>1
<1>5. Rotate(fs) = m[Keep + 1]
  BY DEF Rotate
<1>6. m = F(m)
  <2> HIDE DEF f, F
  <2>1. QED BY <1>4
<1> HIDE DEF m
<1>7. \A k \in 0 .. Keep + 1 : m[k] = IF k = 0 THEN fs ELSE Rename(m[k - 1], Keep + 1 - k)
  BY <1>6
<1> DEFINE S == {k \in Nat : k <= Keep + 1 /\ m[k] # Stage(fs, k)}
<1>8. S = {}
  <2> SUFFICES ASSUME S # {} PROVE FALSE
    OBVIOUS
  <2>1. PICK k \in S : \A j \in S : k <= j
    BY LeastNumber
  <2>2. CASE k = 0
    BY <1>1, <1>2, <1>7, <2>1, <2>2
  <2>3. CASE k # 0
    <3>1. k \in 1 .. Keep + 1 /\ k \in 0 .. Keep + 1 /\ k - 1 \in Nat /\ k - 1 <= Keep + 1
      BY <1>1, <2>1, <2>3
    <3>2. k - 1 \notin S
      BY <2>1, <3>1
    <3>3. m[k - 1] = Stage(fs, k - 1)
      BY <3>1, <3>2
    <3>4. m[k] = Rename(m[k - 1], Keep + 1 - k)
      BY <1>7, <2>3, <3>1
    <3>5. m[k] = Stage(fs, k)
      BY <1>3, <3>1, <3>3, <3>4
    <3>6. QED BY <2>1, <3>5
  <2>4. QED BY <2>2, <2>3
<1>9. m[Keep + 1] = Stage(fs, Keep + 1)
  <2>1. Keep + 1 \in Nat /\ Keep + 1 <= Keep + 1
    BY <1>1
  <2>2. QED BY <1>8, <2>1
<1>10. Stage(fs, Keep + 1) = [i \in Number |-> IF i = 0 THEN NoFile ELSE fs[i - 1]]
  <2>1. \A i \in Number : /\ i > Keep + 1 - (Keep + 1) <=> i # 0
                          /\ i = Keep + 1 - (Keep + 1) /\ Keep + 1 > 0 <=> i = 0
    BY <1>1
  <2>2. QED BY <2>1 DEF Stage
<1>11. QED BY <1>5, <1>9, <1>10

-----------------------------------------------------------------------------
(* Pieces *)

LEMMA PieceFacts ==
  ASSUME NEW fs \in Files, NEW w \in Seq(Msgs), NEW start, Pieces(fs, w, start)
  PROVE  /\ \A i \in Number : start[i] \in Nat /\ Len(fs[i]) \in Nat /\ start[i] + Len(fs[i]) <= Len(w)
         /\ \A i \in Number : fs[i] \in Seq(Msgs) /\ (fs[i] = NoFile <=> Len(fs[i]) = 0)
         /\ 0 \in Number /\ Keep + 1 \in Number /\ Len(w) \in Nat /\ start[0] + Len(fs[0]) = Len(w)
<1>1. Keep \in Nat /\ Number = 0 .. Keep + 1
  BY NumberIs
<1>2. \A i \in Number : fs[i] \in Seq(Msgs)
  BY DEF Files
<1>3. \A i \in Number : Len(fs[i]) \in Nat /\ (fs[i] = NoFile <=> Len(fs[i]) = 0)
  <2> TAKE i \in Number
  <2>1. fs[i] \in Seq(Msgs)
    BY <1>2
  <2>2. QED BY <2>1, EmptySeq DEF NoFile
<1>4. Len(w) \in Nat /\ 0 \in Number /\ Keep + 1 \in Number
  BY <1>1
<1>5. /\ \A i \in Number : start[i] \in Nat
      /\ start[0] + Len(fs[0]) = Len(w)
      /\ \A i \in Number \ {0} : start[i] + Len(fs[i]) = start[i - 1]
      /\ \A i, j \in Number : i < j => start[j] <= start[i]
  BY DEF Pieces
<1>6. \A i \in Number : start[i] + Len(fs[i]) <= Len(w)
  <2> TAKE i \in Number
  <2>1. CASE i = 0
    BY <1>4, <1>5, <2>1
  <2>2. CASE i # 0
    <3>1. i - 1 \in Number /\ (i - 1 = 0 \/ 0 < i - 1)
      BY <1>1, <2>2
    <3>2. start[i - 1] <= start[0]
      BY <1>4, <1>5, <3>1
    <3>3. start[i] + Len(fs[i]) = start[i - 1] /\ start[0] <= Len(w) /\ start[i - 1] \in Nat /\ start[0] \in Nat
      BY <1>3, <1>4, <1>5, <2>2, <3>1
    <3>4. QED BY <1>4, <3>2, <3>3
  <2>3. QED BY <2>1, <2>2
<1>7. QED BY <1>2, <1>3, <1>4, <1>5, <1>6

(* Nothing is written yet. *)
LEMMA EmptyPieces ==
  LET fs == [i \in Number |-> NoFile]
      start == [i \in Number |-> 0]
  IN Pieces(fs, << >>, start) /\ LostLast(fs, start) /\ NoGap(fs)
<1>1. /\ Keep \in Nat /\ Number = 0 .. Keep + 1 /\ 0 \in Number /\ Keep + 1 \in Number
      /\ \A i \in Number \ {0} : i - 1 \in Number
  BY NumberIs
<1>2. Len(NoFile) = 0 /\ SubSeq(<< >>, 1, 0) = NoFile
  BY SubSeqEmpty DEF NoFile
<1>3. QED BY <1>1, <1>2 DEF Pieces, LostLast, NoGap

(* A message is appended to file 0. *)
LEMMA PutPieces ==
  ASSUME NEW fs \in Files, NEW w \in Seq(Msgs), NEW start, Pieces(fs, w, start), NEW m \in Msgs
  PROVE  LET gs == [fs EXCEPT ![0] = Append(fs[0], m)]
         IN /\ gs \in Files /\ gs[0] = Append(fs[0], m) /\ \A i \in Number \ {0} : gs[i] = fs[i]
            /\ Append(w, m) \in Seq(Msgs)
            /\ Pieces(gs, Append(w, m), start)
            /\ LostLast(fs, start) => LostLast(gs, start)
            /\ NoGap(fs) => NoGap(gs)
<1> DEFINE gs == [fs EXCEPT ![0] = Append(fs[0], m)]
           v == Append(w, m)
<1>1. /\ \A i \in Number : start[i] \in Nat /\ Len(fs[i]) \in Nat /\ start[i] + Len(fs[i]) <= Len(w)
      /\ \A i \in Number : fs[i] \in Seq(Msgs)
      /\ 0 \in Number /\ Keep + 1 \in Number /\ Len(w) \in Nat /\ start[0] + Len(fs[0]) = Len(w)
      /\ Keep \in Nat /\ Number = 0 .. Keep + 1
  BY PieceFacts, NumberIs
<1>2. /\ Append(fs[0], m) \in Seq(Msgs) /\ Len(Append(fs[0], m)) = Len(fs[0]) + 1
      /\ v \in Seq(Msgs) /\ Len(v) = Len(w) + 1
      /\ \A j \in 1 .. Len(w) : v[j] = w[j]
      /\ v[Len(w) + 1] = m
  BY <1>1
<1>3. /\ gs \in Files /\ gs[0] = Append(fs[0], m) /\ \A i \in Number \ {0} : gs[i] = fs[i]
  BY <1>1, <1>2 DEF Files
<1> HIDE DEF gs, v
<1>4. \A a, b \in Nat : b <= Len(w) => SubSeq(v, a + 1, b) = SubSeq(w, a + 1, b)
  <2> SUFFICES ASSUME NEW a \in Nat, NEW b \in Nat, b <= Len(w)
               PROVE  SubSeq(v, a + 1, b) = SubSeq(w, a + 1, b)
    OBVIOUS
  <2>1. \A j \in a + 1 .. b : j \in 1 .. Len(w)
    BY <1>1
  <2>2. (\A j \in a + 1 .. b : v[j] = w[j]) /\ (\A j \in a + 1 .. b : v[j] \in Msgs /\ w[j] \in Msgs)
    BY <1>2, <2>1
  <2>3. a + 1 \in Int /\ b \in Int
    OBVIOUS
  <2>4. /\ SubSeq(v, a + 1, b) \in Seq(Msgs) /\ SubSeq(w, a + 1, b) \in Seq(Msgs)
        /\ Len(SubSeq(v, a + 1, b)) = Len(SubSeq(w, a + 1, b))
        /\ Len(SubSeq(v, a + 1, b)) = IF a + 1 <= b THEN b - (a + 1) + 1 ELSE 0
        /\ \A j \in 1 .. b - (a + 1) + 1 : SubSeq(v, a + 1, b)[j] = v[a + 1 + j - 1]
        /\ \A j \in 1 .. b - (a + 1) + 1 : SubSeq(w, a + 1, b)[j] = w[a + 1 + j - 1]
    BY <2>2, <2>3, SubSeqProperties
  <2>5. \A j \in 1 .. Len(SubSeq(v, a + 1, b)) : SubSeq(v, a + 1, b)[j] = SubSeq(w, a + 1, b)[j]
    <3> TAKE j \in 1 .. Len(SubSeq(v, a + 1, b))
    <3>1. j \in 1 .. b - (a + 1) + 1 /\ a + 1 + j - 1 \in a + 1 .. b
      BY <2>4
    <3>2. QED BY <2>2, <2>4, <3>1
  <2>6. QED BY <2>4, <2>5, SeqEqual
<1>5. \A i \in Number : gs[i] = SubSeq(v, start[i] + 1, start[i] + Len(gs[i]))
  <2> TAKE i \in Number
  <2>1. CASE i # 0
    <3>1. gs[i] = fs[i] /\ fs[i] = SubSeq(w, start[i] + 1, start[i] + Len(fs[i]))
      BY <1>3, <2>1 DEF Pieces
    <3>2. start[i] \in Nat /\ start[i] + Len(fs[i]) \in Nat /\ start[i] + Len(fs[i]) <= Len(w)
      BY <1>1
    <3>3. QED BY <1>4, <3>1, <3>2
  <2>2. CASE i = 0
    <3>1. fs[0] = SubSeq(w, start[0] + 1, Len(w)) /\ start[0] \in Nat /\ start[0] <= Len(w)
      BY <1>1 DEF Pieces
    <3>2. start[0] + Len(gs[0]) = Len(v)
      <4>1. Len(gs[0]) = Len(fs[0]) + 1
        BY <1>2, <1>3
      <4>2. start[0] \in Nat /\ Len(fs[0]) \in Nat /\ Len(w) \in Nat /\ start[0] + Len(fs[0]) = Len(w)
        BY <1>1
      <4>3. Len(v) = Len(w) + 1
        BY <1>2
      <4>4. QED BY <4>1, <4>2, <4>3
    <3>3. SubSeq(v, start[0] + 1, Len(v)) = SubSeq(v, start[0] + 1, Len(v) - 1) \o <<v[Len(v)]>>
      <4>1. start[0] + 1 \in 1 .. Len(v) /\ Len(v) \in start[0] + 1 .. Len(v)
        BY <1>1, <1>2, <3>1
      <4>2. QED BY <1>2, <4>1, SubSeqRecursiveSecond
    <3>4. Len(v) - 1 = Len(w) /\ v[Len(v)] = m
      BY <1>1, <1>2
    <3>5. SubSeq(v, start[0] + 1, Len(w)) = fs[0]
      BY <1>1, <1>4, <3>1
    <3>6. fs[0] \o <<m>> = Append(fs[0], m)
      BY <1>1
    <3>7. QED BY <1>3, <2>2, <3>2, <3>3, <3>4, <3>5, <3>6
  <2>3. QED BY <2>1, <2>2
<1>6. Pieces(gs, v, start)
  <2>1. start[0] + Len(gs[0]) = Len(v)
    BY <1>1, <1>2, <1>3
  <2>2. \A i \in Number \ {0} : start[i] + Len(gs[i]) = start[i - 1]
    BY <1>3 DEF Pieces
  <2>3. QED BY <1>5, <2>1, <2>2 DEF Pieces
<1>7. LostLast(fs, start) => LostLast(gs, start)
  BY <1>3 DEF LostLast
<1>8. NoGap(fs) => NoGap(gs)
  BY <1>3 DEF NoGap
<1>9. QED BY <1>2, <1>3, <1>6, <1>7, <1>8 DEF gs, v

(* All files are moved up by one. *)
LEMMA RotatePieces ==
  ASSUME NEW fs \in Files, NEW w \in Seq(Msgs), HourOK(fs, w), fs[0] # NoFile
  PROVE  /\ Rotate(fs) \in Files /\ HourOK(Rotate(fs), w)
         /\ Rotate(fs)[0] = NoFile
         /\ \A i \in Number \ {0} : i - 1 \in Number /\ Rotate(fs)[i] = fs[i - 1]
<1>0. PICK start : Pieces(fs, w, start) /\ LostLast(fs, start)
  BY DEF HourOK
<1> DEFINE gs == Rotate(fs)
           st == [i \in Number |-> IF i = 0 THEN Len(w) ELSE start[i - 1]]
<1>1. /\ \A i \in Number : start[i] \in Nat /\ Len(fs[i]) \in Nat /\ start[i] + Len(fs[i]) <= Len(w)
      /\ \A i \in Number : fs[i] \in Seq(Msgs) /\ (fs[i] = NoFile <=> Len(fs[i]) = 0)
      /\ 0 \in Number /\ Keep + 1 \in Number /\ Len(w) \in Nat /\ start[0] + Len(fs[0]) = Len(w)
      /\ Keep \in Nat /\ Number = 0 .. Keep + 1
  BY <1>0, PieceFacts, NumberIs
<1>2. \A i \in Number \ {0} : i - 1 \in Number
  BY <1>1
<1>3. gs = [i \in Number |-> IF i = 0 THEN NoFile ELSE fs[i - 1]]
  BY RotateIs DEF HourOK
<1> HIDE DEF gs
<1>4. NoFile \in Seq(Msgs) /\ Len(NoFile) = 0
  BY DEF NoFile
<1>5. gs \in Files /\ gs[0] = NoFile /\ \A i \in Number \ {0} : gs[i] = fs[i - 1]
  BY <1>1, <1>2, <1>3, <1>4 DEF Files
<1>6. st[0] = Len(w) /\ \A i \in Number \ {0} : st[i] = start[i - 1]
  BY <1>1
<1>7. st \in [Number -> Nat]
  BY <1>1, <1>2
<1> HIDE DEF st
<1>8. Pieces(gs, w, st)
  <2>1. st[0] + Len(gs[0]) = Len(w)
    BY <1>1, <1>4, <1>5, <1>6
  <2>2. \A i \in Number : gs[i] = SubSeq(w, st[i] + 1, st[i] + Len(gs[i]))
    <3> TAKE i \in Number
    <3>1. CASE i = 0
      <4>1. Len(w) + 1 \in Int /\ Len(w) \in Int /\ Len(w) < Len(w) + 1
        BY <1>1
      <4>2. SubSeq(w, Len(w) + 1, Len(w)) = << >>
        BY <4>1, SubSeqEmpty
      <4>3. QED BY <1>5, <1>6, <2>1, <3>1, <4>2 DEF NoFile
    <3>2. CASE i # 0
      BY <1>0, <1>2, <1>5, <1>6, <3>2 DEF Pieces
    <3>3. QED BY <3>1, <3>2
  <2>3. \A i \in Number \ {0} : st[i] + Len(gs[i]) = st[i - 1]
    <3> TAKE i \in Number \ {0}
    <3>1. CASE i = 1
      BY <1>1, <1>5, <1>6, <3>1
    <3>2. CASE i # 1
      <4>1. i - 1 \in Number \ {0} /\ (i - 1) - 1 = i - 2
        BY <1>1, <3>2
      <4>2. QED BY <1>0, <1>5, <1>6, <4>1 DEF Pieces
    <3>3. QED BY <3>1, <3>2
  <2>4. ASSUME NEW i \in Number, NEW j \in Number, i < j PROVE st[j] <= st[i]
    <3>1. j \in Number \ {0} /\ j - 1 \in Number /\ st[j] = start[j - 1]
      BY <1>1, <1>2, <1>6, <2>4
    <3>2. CASE i = 0
      <4>1. st[i] = Len(w)
        BY <1>6, <3>2
      <4>2. start[j - 1] \in Nat /\ Len(fs[j - 1]) \in Nat /\ start[j - 1] + Len(fs[j - 1]) <= Len(w) /\ Len(w) \in Nat
        BY <1>1, <3>1
      <4>3. QED BY <3>1, <4>1, <4>2
    <3>3. CASE i # 0
      <4>1. i - 1 \in Number /\ st[i] = start[i - 1] /\ i - 1 < j - 1
        BY <1>1, <1>2, <1>6, <2>4, <3>3
      <4>2. QED BY <1>0, <3>1, <4>1 DEF Pieces
    <3>4. QED BY <3>2, <3>3
  <2>5. QED BY <1>7, <2>1, <2>2, <2>3, <2>4 DEF Pieces
<1>9. NoGap(gs)
  <2> SUFFICES ASSUME NEW i \in Number \ {0}, NEW j \in Number \ {0}, i < j, gs[j] # NoFile
               PROVE  gs[i] # NoFile
    BY DEF NoGap
  <2>1. gs[j] = fs[j - 1] /\ gs[i] = fs[i - 1] /\ i - 1 \in Number /\ j - 1 \in Number \ {0} /\ i - 1 < j - 1
    BY <1>1, <1>2, <1>5
  <2>2. CASE i = 1
    BY <2>1, <2>2
  <2>3. CASE i # 1
    <3>1. i - 1 \in Number \ {0}
      BY <1>1, <2>3
    <3>2. QED BY <2>1, <3>1 DEF HourOK, NoGap
  <2>4. QED BY <2>2, <2>3
<1>10. LostLast(gs, st)
  <2> SUFFICES ASSUME st[Keep + 1] # 0, NEW i \in Number \ {0} PROVE gs[i] # NoFile
    BY DEF LostLast
  <2>1. gs[i] = fs[i - 1] /\ i - 1 \in Number
    BY <1>2, <1>5
  <2>2. CASE i = 1
    BY <2>1, <2>2
  <2>3. CASE i # 1
    <3>1. /\ Keep + 1 \in Number \ {0} /\ (Keep + 1) - 1 = Keep /\ Keep \in Number
          /\ i - 1 \in Number \ {0} /\ i - 1 < Keep + 1
      BY <1>1, <2>3
    <3>2. st[Keep + 1] = start[Keep] /\ start[Keep + 1] + Len(fs[Keep + 1]) = start[Keep]
      BY <1>0, <1>6, <3>1 DEF Pieces
    <3>3. start[Keep + 1] # 0 \/ fs[Keep + 1] # NoFile
      <4>1. fs[Keep + 1] = NoFile => Len(fs[Keep + 1]) = 0
        BY <1>1, <3>1
      <4>2. start[Keep] # 0
        BY <3>2
      <4>3. QED BY <3>2, <4>1, <4>2
    <3>4. fs[i - 1] # NoFile
      BY <1>0, <3>1, <3>3 DEF LostLast, HourOK, NoGap
    <3>5. QED BY <2>1, <3>4
  <2>4. QED BY <2>2, <2>3
<1>11. HourOK(gs, w)
  BY <1>8, <1>9, <1>10 DEF HourOK
<1>12. QED BY <1>2, <1>5, <1>11 DEF gs

(* In the working directory file 0 replaces file 1. *)
LEMMA RotateCutPieces ==
  ASSUME NEW fs \in Files, NEW w \in Seq(Msgs), SpillOK(fs, w)
  PROVE  /\ RotateCut(fs) \in Files /\ SpillOK(RotateCut(fs), w) /\ RotateCut(fs)[0] = NoFile
         /\ \A i \in Number : \E j \in Number : RotateCut(fs)[i] = fs[j] \/ RotateCut(fs)[i] = NoFile
<1>0. PICK start : Pieces(fs, w, start)
  BY DEF SpillOK
<1>1. /\ \A i \in Number : start[i] \in Nat /\ Len(fs[i]) \in Nat /\ start[i] + Len(fs[i]) <= Len(w)
      /\ \A i \in Number : fs[i] \in Seq(Msgs) /\ (fs[i] = NoFile <=> Len(fs[i]) = 0)
      /\ 0 \in Number /\ 1 \in Number /\ Len(w) \in Nat /\ start[0] + Len(fs[0]) = Len(w)
      /\ Keep \in Nat /\ Number = 0 .. Keep + 1
  BY <1>0, PieceFacts, NumberIs
<1>2. CASE fs[0] = NoFile
  BY <1>1, <1>2 DEF RotateCut, Rename
<1>3. CASE fs[0] # NoFile
  <2> DEFINE gs == RotateCut(fs)
             st == [i \in Number |-> IF i = 0 THEN Len(w) ELSE start[0]]
  <2>1. NoFile \in Seq(Msgs) /\ Len(NoFile) = 0
    BY DEF NoFile
  <2>2. gs = [fs EXCEPT ![1] = fs[0], ![0] = NoFile]
    BY <1>3 DEF RotateCut, Rename
  <2> HIDE DEF gs
  <2>3. /\ gs \in Files /\ gs[0] = NoFile /\ gs[1] = fs[0]
        /\ \A i \in Number \ {0, 1} : gs[i] = NoFile
    BY <1>1, <2>1, <2>2 DEF Files, SpillOK
  <2>4. st[0] = Len(w) /\ (\A i \in Number \ {0} : st[i] = start[0]) /\ st \in [Number -> Nat]
    BY <1>1
  <2> HIDE DEF st
  <2>5. st[0] + Len(gs[0]) = Len(w)
    BY <1>1, <2>1, <2>3, <2>4
  <2>6. \A i \in Number : gs[i] = SubSeq(w, st[i] + 1, st[i] + Len(gs[i]))
    <3> TAKE i \in Number
    <3>1. CASE i = 1
      <4>1. gs[i] = fs[0] /\ st[i] = start[0]
        BY <1>1, <2>3, <2>4, <3>1
      <4>2. fs[0] = SubSeq(w, start[0] + 1, start[0] + Len(fs[0]))
        BY <1>0, <1>1 DEF Pieces
      <4>3. QED BY <4>1, <4>2
    <3>2. CASE i # 1
      <4>1. gs[i] = << >> /\ Len(gs[i]) = 0 /\ st[i] \in Nat
        BY <2>1, <2>3, <2>4, <3>2 DEF NoFile
      <4>2. st[i] + 1 \in Int /\ st[i] + 0 \in Int /\ st[i] + 0 < st[i] + 1
        BY <4>1
      <4>3. SubSeq(w, st[i] + 1, st[i] + 0) = << >>
        BY <4>2, SubSeqEmpty
      <4>4. QED BY <4>1, <4>3
    <3>3. QED BY <3>1, <3>2
  <2>7. \A i \in Number \ {0} : st[i] + Len(gs[i]) = st[i - 1]
    <3> TAKE i \in Number \ {0}
    <3>1. CASE i = 1
      BY <1>1, <2>3, <2>4, <3>1
    <3>2. CASE i # 1
      <4>1. i - 1 \in Number \ {0} /\ i \in Number \ {0, 1}
        BY <1>1, <3>2
      <4>2. QED BY <1>1, <2>1, <2>3, <2>4, <4>1
    <3>3. QED BY <3>1, <3>2
  <2>8. \A i, j \in Number : i < j => st[j] <= st[i]
    BY <1>1, <2>4
  <2>9. Pieces(gs, w, st)
    BY <2>4, <2>5, <2>6, <2>7, <2>8 DEF Pieces
  <2>10. \A i \in Number : \E j \in Number : gs[i] = fs[j] \/ gs[i] = NoFile
    BY <1>1, <2>3
  <2>11. QED BY <2>3, <2>9, <2>10 DEF SpillOK, gs
<1>4. QED BY <1>2, <1>3

LEMMA LensMax == Max(Lens) \in Nat /\ \A len \in Lens : len \in Nat /\ len <= Max(Lens)
<1>1. \A len \in Lens : len \in Nat
  BY FileAssumption
<1>2. PICK longest \in Lens : \A len \in Lens : len <= longest
  BY FileAssumption
<1>3. \A len \in Lens : longest >= len
  BY <1>1, <1>2
<1>4. Max(Lens) \in Lens /\ \A len \in Lens : Max(Lens) >= len
  BY <1>3 DEF Max
<1>5. QED BY <1>1, <1>4

(* The pieces put one behind the other. *)
LEMMA AllOfIs ==
  ASSUME NEW fs \in Files, NEW w \in Seq(Msgs), NEW start, Pieces(fs, w, start)
  PROVE  AllOf(fs) = SubSeq(w, start[Keep + 1] + 1, Len(w))
<1> DEFINE F(g) == [k \in 0 .. Keep + 2 |-> IF k = 0 THEN << >> ELSE g[k - 1] \o fs[Keep + 2 - k]]
           a == start[Keep + 1]
           End(k) == IF k = 0 THEN a ELSE start[Keep + 2 - k] + Len(fs[Keep + 2 - k])
           f == [k \in 0 .. Keep + 2 |-> SubSeq(w, a + 1, End(k))]
           m == CHOOSE g : g = F(g)
<1>1. /\ \A i \in Number : start[i] \in Nat /\ Len(fs[i]) \in Nat /\ start[i] + Len(fs[i]) <= Len(w)
      /\ 0 \in Number /\ Keep + 1 \in Number /\ Len(w) \in Nat /\ start[0] + Len(fs[0]) = Len(w)
      /\ Keep \in Nat /\ Number = 0 .. Keep + 1
  BY PieceFacts, NumberIs
<1>2. /\ \A i \in Number : fs[i] = SubSeq(w, start[i] + 1, start[i] + Len(fs[i]))
      /\ \A i \in Number \ {0} : start[i] + Len(fs[i]) = start[i - 1]
      /\ \A i, j \in Number : i < j => start[j] <= start[i]
  BY DEF Pieces
<1>3. End(0) = a /\ \A k \in 1 .. Keep + 2 : End(k) = start[Keep + 2 - k] + Len(fs[Keep + 2 - k])
  BY <1>1
<1> HIDE DEF End
<1>4. \A k \in 1 .. Keep + 2 :
         /\ Keep + 2 - k \in Number /\ start[Keep + 2 - k] = End(k - 1)
         /\ a <= End(k - 1) /\ End(k - 1) <= End(k) /\ End(k) <= Len(w)
         /\ End(k - 1) \in Nat /\ End(k) \in Nat
  <2> TAKE k \in 1 .. Keep + 2
  <2> DEFINE i == Keep + 2 - k
  <2>1. i \in Number /\ k \in Int
    BY <1>1
  <2>2. start[i] = End(k - 1)
    <3>1. CASE k = 1
      <4>1. i = Keep + 1 /\ k - 1 = 0
        BY <1>1, <3>1
      <4>2. QED BY <1>3, <4>1
    <3>2. CASE k # 1
      <4>1. /\ k - 1 \in 1 .. Keep + 2 /\ Keep + 2 - (k - 1) = i + 1
            /\ i + 1 \in Number \ {0} /\ (i + 1) - 1 = i
        BY <1>1, <3>2
      <4>2. End(k - 1) = start[i + 1] + Len(fs[i + 1])
        BY <1>3, <4>1
      <4>3. start[i + 1] + Len(fs[i + 1]) = start[(i + 1) - 1]
        BY <1>2, <4>1
      <4>4. QED BY <4>1, <4>2, <4>3
    <3>3. QED BY <3>1, <3>2
  <2>3. a <= start[i]
    <3>1. CASE i = Keep + 1
      BY <1>1, <3>1
    <3>2. CASE i # Keep + 1
      <4>1. i < Keep + 1
        BY <1>1, <2>1, <3>2
      <4>2. QED BY <1>1, <1>2, <2>1, <4>1
    <3>3. QED BY <3>1, <3>2
  <2>4. End(k) = start[i] + Len(fs[i])
    BY <1>3
  <2>5. start[i] \in Nat /\ Len(fs[i]) \in Nat /\ start[i] + Len(fs[i]) <= Len(w)
    BY <1>1, <2>1
  <2>6. a \in Nat
    BY <1>1
  <2> HIDE DEF i, a
  <2>7. /\ a <= End(k - 1) /\ End(k - 1) <= End(k) /\ End(k) <= Len(w)
        /\ End(k - 1) \in Nat /\ End(k) \in Nat
    BY <1>1, <2>2, <2>3, <2>4, <2>5
  <2>8. QED BY <2>1, <2>2, <2>7 DEF i
<1>5. SubSeq(w, a + 1, End(0)) = << >>
  <2>1. a + 1 \in Int /\ End(0) \in Int /\ End(0) < a + 1
    BY <1>1, <1>3
  <2>2. QED BY <2>1, SubSeqEmpty
<1>6. \A k \in 1 .. Keep + 2 : SubSeq(w, a + 1, End(k)) = SubSeq(w, a + 1, End(k - 1)) \o fs[Keep + 2 - k]
  <2> TAKE k \in 1 .. Keep + 2
  <2>0. a \in Nat /\ Len(w) \in Nat
    BY <1>1
  <2>00. /\ a <= End(k - 1) /\ End(k - 1) <= End(k) /\ End(k) <= Len(w)
         /\ End(k - 1) \in Nat /\ End(k) \in Nat
    BY <1>4
  <2>1. /\ a + 1 \in 1 .. Len(w) + 1 /\ End(k - 1) \in (a + 1) - 1 .. Len(w)
        /\ End(k) \in End(k - 1) .. Len(w)
    <3> HIDE DEF a
    <3>1. QED BY <2>0, <2>00
  <2>2. SubSeq(w, a + 1, End(k - 1)) \o SubSeq(w, End(k - 1) + 1, End(k)) = SubSeq(w, a + 1, End(k))
    BY <2>1, ConcatAdjacentSubSeq
  <2>3. fs[Keep + 2 - k] = SubSeq(w, End(k - 1) + 1, End(k))
    BY <1>2, <1>3, <1>4
  <2>4. QED BY <2>2, <2>3
<1>7. f = F(f)
  <2>0. f = [k \in 0 .. Keep + 2 |-> SubSeq(w, a + 1, End(k))]
    OBVIOUS
  <2>1. ASSUME NEW k \in 0 .. Keep + 2
        PROVE  SubSeq(w, a + 1, End(k)) = IF k = 0 THEN << >> ELSE f[k - 1] \o fs[Keep + 2 - k]
    <3>1. CASE k = 0
      BY <1>5, <3>1
    <3>2. CASE k # 0
      <4>1. k \in 1 .. Keep + 2 /\ k - 1 \in 0 .. Keep + 2
        BY <1>1, <3>2
      <4>2. f[k - 1] = SubSeq(w, a + 1, End(k - 1))
        BY <4>1
      <4>3. QED BY <1>6, <3>2, <4>1, <4>2
    <3>3. QED BY <3>1, <3>2
  <2> DEFINE g == [k \in 0 .. Keep + 2 |-> SubSeq(w, a + 1, End(k))]
             h == [k \in 0 .. Keep + 2 |-> IF k = 0 THEN << >> ELSE f[k - 1] \o fs[Keep + 2 - k]]
  <2>2. g = h
    <3> HIDE DEF f
    <3>1. QED BY <2>1
  <2>3. f = g /\ F(f) = h
    OBVIOUS
  <2> HIDE DEF f, g, h, F
  <2>4. QED BY <2>2, <2>3
<1>8. AllOf(fs) = m[Keep + 2]
  BY DEF AllOf
<1>9. m = F(m)
  <2> HIDE DEF f, F
  <2>1. QED BY <1>7
<1> HIDE DEF m
<1>10. \A k \in 0 .. Keep + 2 : m[k] = IF k = 0 THEN << >> ELSE m[k - 1] \o fs[Keep + 2 - k]
  BY <1>9
<1> DEFINE S == {k \in Nat : k <= Keep + 2 /\ m[k] # SubSeq(w, a + 1, End(k))}
<1>11. S = {}
  <2> SUFFICES ASSUME S # {} PROVE FALSE
    OBVIOUS
  <2>1. PICK k \in S : \A j \in S : k <= j
    BY LeastNumber
  <2>2. CASE k = 0
    <3>1. 0 \in 0 .. Keep + 2
      BY <1>1
    <3>2. m[0] = << >>
      BY <1>10, <3>1
    <3>3. m[k] = SubSeq(w, a + 1, End(k))
      BY <1>5, <2>2, <3>2
    <3>4. QED BY <2>1, <3>3
  <2>3. CASE k # 0
    <3>1. k \in 1 .. Keep + 2 /\ k \in 0 .. Keep + 2 /\ k - 1 \in Nat /\ k - 1 <= Keep + 2
      BY <1>1, <2>1, <2>3
    <3>2. k - 1 \notin S
      BY <2>1, <3>1
    <3>3. m[k - 1] = SubSeq(w, a + 1, End(k - 1))
      BY <3>1, <3>2
    <3>4. m[k] = m[k - 1] \o fs[Keep + 2 - k]
      BY <1>10, <2>3, <3>1
    <3>5. m[k] = SubSeq(w, a + 1, End(k))
      BY <1>6, <3>1, <3>3, <3>4
    <3>6. QED BY <2>1, <3>5
  <2>4. QED BY <2>2, <2>3
<1>12. m[Keep + 2] = SubSeq(w, a + 1, End(Keep + 2))
  <2>1. Keep + 2 \in Nat /\ Keep + 2 <= Keep + 2
    BY <1>1
  <2>2. QED BY <1>11, <2>1
<1>13. End(Keep + 2) = Len(w)
  <2>1. Keep + 2 \in 1 .. Keep + 2 /\ Keep + 2 - (Keep + 2) = 0
    BY <1>1
  <2>2. End(Keep + 2) = start[0] + Len(fs[0])
    BY <1>3, <2>1
  <2>3. QED BY <1>1, <2>2
<1>14. QED BY <1>8, <1>12, <1>13

(* What the pieces are for. *)
LEMMA PiecesLast ==
  ASSUME NEW fs \in Files, NEW w \in Seq(Msgs), NEW start, Pieces(fs, w, start)
  PROVE  EndOf(AllOf(fs), w) /\ (start[Keep + 1] = 0 => AllOf(fs) = w)
<1>1. AllOf(fs) = SubSeq(w, start[Keep + 1] + 1, Len(w))
  BY AllOfIs
<1>2. start[Keep + 1] \in 0 .. Len(w)
  <2>1. /\ \A i \in Number : start[i] \in Nat /\ Len(fs[i]) \in Nat /\ start[i] + Len(fs[i]) <= Len(w)
        /\ Keep + 1 \in Number /\ Len(w) \in Nat
    BY PieceFacts
  <2>2. QED BY <2>1
<1>3. SubSeq(w, 1, Len(w)) = w
  BY SubSeqFull
<1>4. EndOf(AllOf(fs), w)
  BY <1>1, <1>2, Zenon DEF EndOf
<1>5. start[Keep + 1] = 0 => AllOf(fs) = w
  <2>1. SUFFICES ASSUME start[Keep + 1] = 0 PROVE AllOf(fs) = w
    OBVIOUS
  <2>2. start[Keep + 1] + 1 = 1
    BY <2>1
  <2>3. QED BY <1>1, <1>3, <2>2
<1>6. QED BY <1>4, <1>5

-----------------------------------------------------------------------------
(* The steps *)

LEMMA FileInitial == FileInit => FileInv
<1> SUFFICES ASSUME FileInit PROVE FileInv
  OBVIOUS
<1> DEFINE fs == [i \in Number |-> NoFile]
           start == [i \in Number |-> 0]
<1>1. /\ \A h \in Place : files[h] = fs
      /\ files = [h \in Place |-> fs] /\ written = [h \in Place |-> << >>]
      /\ \A h \in Place : written[h] = << >>
      /\ now = 0 /\ open = FALSE /\ fpPlace = 0 /\ lastTms = 0 /\ logSize = 0 /\ tm = 0 /\ cnt = 0
      /\ dirFailed = FALSE
  BY DEF FileInit
<1>2. Pieces(fs, << >>, start) /\ LostLast(fs, start) /\ NoGap(fs)
  BY EmptyPieces
<1>3. fs \in Files /\ \A i \in Number : fs[i] = NoFile
  BY DEF Files, NoFile
<1> HIDE DEF fs, start
<1>4. 0 \in Hour /\ 0 \in Place /\ Hour \subseteq Place /\ Spill \in Place
  BY NumberIs
<1>5. FileTyped
  BY <1>1, <1>3, <1>4 DEF FileTyped
<1>6. Counted
  BY <1>1 DEF Counted
<1>7. NotEarlier
  <2>1. \A h \in Hour : written[h] = << >>
    BY <1>1, <1>4
  <2>2. \A h \in Hour : DOMAIN written[h] = {}
    BY <2>1
  <2>3. QED BY <2>2 DEF NotEarlier
<1>8. InPieces(files, written)
  <2>1. HourOK(fs, << >>) /\ SpillOK(fs, << >>)
    BY <1>2, <1>3 DEF HourOK, SpillOK
  <2>2. QED BY <1>1, <1>4, <2>1 DEF InPieces
<1>9. NoneTooLarge(files)
  <2>1. \A h \in Place, i \in Number : FileSize(files[h][i]) = 0
    BY <1>1, <1>3, FileSizes
  <2>2. 0 <= MaxLogSize + Max(Lens)
    BY LensMax, FileAssumption
  <2>3. QED BY <2>1, <2>2 DEF NoneTooLarge
<1>10. AsideTooLarge(files)
  BY <1>1, <1>3, <1>4 DEF AsideTooLarge
<1>11. QED BY <1>5, <1>6, <1>7, <1>8, <1>9, <1>10 DEF FileInv

(* What loglibInt_apndMake does to the files. *)
LEMMA MakeFiles ==
  ASSUME FileInv, NEW outcome \in {"ok", "nofile", "nodir"}
  PROVE  /\ FilesMade(outcome) \in [Place -> Files]
         /\ InPieces(FilesMade(outcome), written)
         /\ AsideTooLarge(FilesMade(outcome))
         /\ dirFailed \/ NoneTooLarge(FilesMade(outcome))
         /\ PlaceMade(outcome) \in Place
         /\ outcome # "nodir" =>
              /\ PlaceMade(outcome) \in {now, Spill}
              /\ FilesMade(outcome)[PlaceMade(outcome)][0] =
                   IF TooLarge(files[now][0]) THEN NoFile ELSE files[now][0]
<1> DEFINE fs == FilesMade(outcome)
           h == PlaceMade(outcome)
<1>1. /\ files \in [Place -> Files] /\ written \in [Place -> Seq(Msgs)] /\ now \in Hour /\ fpPlace \in Place
      /\ Hour \subseteq Place /\ Spill \in Place /\ Spill \notin Hour /\ 0 \in Number
      /\ \A k \in Place : k \in Hour \/ k = Spill
  BY NumberIs DEF FileInv, FileTyped
<1>2. /\ SpillOK(files[Spill], written[Spill]) /\ \A k \in Hour : HourOK(files[k], written[k])
      /\ AsideTooLarge(files) /\ (dirFailed \/ NoneTooLarge(files))
  BY DEF FileInv, InPieces
<1>3. InPieces(files, written)
  BY DEF FileInv
<1>4. CASE outcome = "nodir"
  <2>1. fs = files /\ h = fpPlace
    BY <1>4 DEF FilesMade, PlaceMade
  <2> HIDE DEF fs, h
  <2>2. QED BY <1>1, <1>2, <1>3, <1>4, <2>1 DEF fs, h
<1>5. CASE outcome # "nodir" /\ ~TooLarge(files[now][0])
  <2>1. fs = files /\ h = now
    BY <1>5 DEF FilesMade, PlaceMade
  <2> HIDE DEF fs, h
  <2>2. QED BY <1>1, <1>2, <1>3, <1>5, <2>1 DEF fs, h
<1>6. CASE outcome # "nodir" /\ TooLarge(files[now][0]) /\ cut
  <2> DEFINE gs == RotateCut(files[Spill])
  <2>1. fs = [files EXCEPT ![Spill] = gs] /\ h = Spill
    BY <1>6 DEF FilesMade, PlaceMade
  <2>2. /\ gs \in Files /\ SpillOK(gs, written[Spill]) /\ gs[0] = NoFile
        /\ \A i \in Number : \E j \in Number : gs[i] = files[Spill][j] \/ gs[i] = NoFile
    <3>1. files[Spill] \in Files /\ written[Spill] \in Seq(Msgs)
      BY <1>1
    <3>2. QED BY <1>2, <3>1, RotateCutPieces
  <2> HIDE DEF fs, h, gs
  <2>3. /\ fs \in [Place -> Files] /\ fs[Spill] = gs /\ \A k \in Place \ {Spill} : fs[k] = files[k]
        /\ \A k \in Hour : fs[k] = files[k]
    BY <1>1, <2>1, <2>2
  <2>4. InPieces(fs, written)
    BY <1>2, <2>2, <2>3 DEF InPieces
  <2>5. AsideTooLarge(fs)
    BY <1>2, <2>3 DEF AsideTooLarge
  <2>6. NoneTooLarge(files) => NoneTooLarge(fs)
    <3> SUFFICES ASSUME NoneTooLarge(files), NEW k \in Place, NEW i \in Number
                 PROVE  FileSize(fs[k][i]) <= MaxLogSize + Max(Lens)
      BY DEF NoneTooLarge
    <3>1. CASE k # Spill
      BY <2>3, <3>1 DEF NoneTooLarge
    <3>2. CASE k = Spill
      <4>1. FileSize(NoFile) = 0 /\ 0 <= MaxLogSize + Max(Lens)
        BY FileSizes, LensMax, FileAssumption
      <4>2. PICK j \in Number : gs[i] = files[Spill][j] \/ gs[i] = NoFile
        BY <2>2
      <4>3. FileSize(files[Spill][j]) <= MaxLogSize + Max(Lens)
        BY <1>1 DEF NoneTooLarge
      <4>4. QED BY <2>3, <3>2, <4>1, <4>2, <4>3
    <3>3. QED BY <3>1, <3>2
  <2>7. fs[h][0] = NoFile
    BY <2>1, <2>2, <2>3
  <2>8. QED BY <1>1, <1>2, <1>6, <2>1, <2>3, <2>4, <2>5, <2>6, <2>7 DEF fs, h
<1>7. CASE outcome # "nodir" /\ TooLarge(files[now][0]) /\ ~cut
  <2> DEFINE gs == Rotate(files[now])
  <2>1. fs = [files EXCEPT ![now] = gs] /\ h = now
    BY <1>7 DEF FilesMade, PlaceMade
  <2>2. files[now] \in Files /\ written[now] \in Seq(Msgs) /\ files[now][0] \in Seq(Msgs)
    BY <1>1 DEF Files
  <2>3. FileSize(files[now][0]) > MaxLogSize /\ files[now][0] # NoFile
    <3>1. FileSize(NoFile) = 0 /\ MaxLogSize \in Nat
      BY FileSizes, FileAssumption
    <3>2. FileSize(files[now][0]) > MaxLogSize
      BY <1>7 DEF TooLarge
    <3>3. QED BY <3>1, <3>2
  <2>4. /\ gs \in Files /\ HourOK(gs, written[now]) /\ gs[0] = NoFile
        /\ \A i \in Number \ {0} : i - 1 \in Number /\ gs[i] = files[now][i - 1]
    BY <1>1, <1>2, <2>2, <2>3, RotatePieces
  <2> HIDE DEF fs, h, gs
  <2>5. /\ fs \in [Place -> Files] /\ fs[now] = gs /\ \A k \in Place \ {now} : fs[k] = files[k]
        /\ fs[Spill] = files[Spill]
    BY <1>1, <2>1, <2>4
  <2>6. InPieces(fs, written)
    BY <1>1, <1>2, <2>4, <2>5 DEF InPieces
  <2>7. AsideTooLarge(fs)
    <3> SUFFICES ASSUME NEW k \in Hour, NEW i \in Number \ {0}, fs[k][i] # NoFile
                 PROVE  FileSize(fs[k][i]) > MaxLogSize
      BY DEF AsideTooLarge
    <3>1. CASE k # now
      BY <1>1, <1>2, <2>5, <3>1 DEF AsideTooLarge
    <3>2. CASE k = now
      <4>1. fs[k][i] = files[now][i - 1] /\ i - 1 \in Number
        BY <2>4, <2>5, <3>2
      <4>2. CASE i - 1 = 0
        BY <2>3, <4>1, <4>2
      <4>3. CASE i - 1 # 0
        BY <1>1, <1>2, <4>1, <4>3 DEF AsideTooLarge
      <4>4. QED BY <4>2, <4>3
    <3>3. QED BY <3>1, <3>2
  <2>8. NoneTooLarge(files) => NoneTooLarge(fs)
    <3> SUFFICES ASSUME NoneTooLarge(files), NEW k \in Place, NEW i \in Number
                 PROVE  FileSize(fs[k][i]) <= MaxLogSize + Max(Lens)
      BY DEF NoneTooLarge
    <3>1. CASE k # now
      BY <2>5, <3>1 DEF NoneTooLarge
    <3>2. CASE k = now /\ i = 0
      <4>1. FileSize(NoFile) = 0 /\ 0 <= MaxLogSize + Max(Lens)
        BY FileSizes, LensMax, FileAssumption
      <4>2. QED BY <2>4, <2>5, <3>2, <4>1
    <3>3. CASE k = now /\ i # 0
      BY <1>1, <2>4, <2>5, <3>3 DEF NoneTooLarge
    <3>4. QED BY <3>1, <3>2, <3>3
  <2>9. fs[h][0] = NoFile
    BY <2>1, <2>4, <2>5
  <2>10. QED BY <1>1, <1>2, <1>7, <2>1, <2>5, <2>6, <2>7, <2>8, <2>9 DEF fs, h
<1>8. QED BY <1>4, <1>5, <1>6, <1>7

(* What writing a message does to the files. *)
LEMMA PutFiles ==
  ASSUME NEW fs \in [Place -> Files], NEW v \in [Place -> Seq(Msgs)], InPieces(fs, v),
         NEW h \in Place, NEW m \in Msgs
  PROVE  LET gs == [fs EXCEPT ![h][0] = Append(@, m)]
             u == [v EXCEPT ![h] = Append(@, m)]
         IN /\ gs \in [Place -> Files] /\ u \in [Place -> Seq(Msgs)] /\ InPieces(gs, u)
            /\ AsideTooLarge(fs) => AsideTooLarge(gs)
            /\ NoneTooLarge(fs) /\ FileSize(fs[h][0]) <= MaxLogSize => NoneTooLarge(gs)
            /\ FileSize(gs[h][0]) = FileSize(fs[h][0]) + m.len
<1> DEFINE gs == [fs EXCEPT ![h][0] = Append(@, m)]
           u == [v EXCEPT ![h] = Append(@, m)]
           g == [fs[h] EXCEPT ![0] = Append(fs[h][0], m)]
<1>1. /\ Hour \subseteq Place /\ Spill \in Place /\ Spill \notin Hour /\ 0 \in Number
      /\ (\A k \in Place : k \in Hour \/ k = Spill)
      /\ SpillOK(fs[Spill], v[Spill]) /\ \A k \in Hour : HourOK(fs[k], v[k])
  BY NumberIs DEF InPieces
<1>2. fs[h] \in Files /\ v[h] \in Seq(Msgs) /\ fs[h][0] \in Seq(Msgs)
  BY <1>1 DEF Files
<1>3. \E start : Pieces(fs[h], v[h], start)
  BY <1>1 DEF HourOK, SpillOK
<1>4. /\ g \in Files /\ g[0] = Append(fs[h][0], m) /\ (\A i \in Number \ {0} : g[i] = fs[h][i])
      /\ Append(v[h], m) \in Seq(Msgs)
      /\ NoGap(fs[h]) => NoGap(g)
  BY <1>2, <1>3, PutPieces, ZenonT(60)
<1>5. \A start : Pieces(fs[h], v[h], start) =>
         /\ Pieces(g, Append(v[h], m), start)
         /\ LostLast(fs[h], start) => LostLast(g, start)
  BY <1>2, PutPieces
<1>6. gs = [fs EXCEPT ![h] = g]
  OBVIOUS
<1>7. HourOK(fs[h], v[h]) => HourOK(g, Append(v[h], m))
  BY <1>4, <1>5 DEF HourOK
<1>8. SpillOK(fs[h], v[h]) => SpillOK(g, Append(v[h], m))
  <2> SUFFICES ASSUME SpillOK(fs[h], v[h]) PROVE SpillOK(g, Append(v[h], m))
    OBVIOUS
  <2>1. \A i \in Number \ {0, 1} : g[i] = NoFile
    BY <1>4 DEF SpillOK
  <2>2. \E start : Pieces(g, Append(v[h], m), start)
    BY <1>5 DEF SpillOK
  <2>3. QED BY <2>1, <2>2 DEF SpillOK
<1> HIDE DEF g, gs
<1>9. /\ gs \in [Place -> Files] /\ gs[h] = g /\ \A k \in Place \ {h} : gs[k] = fs[k]
  BY <1>4, <1>6
<1>10. /\ u \in [Place -> Seq(Msgs)] /\ u[h] = Append(v[h], m) /\ \A k \in Place \ {h} : u[k] = v[k]
  BY <1>4
<1> HIDE DEF u
<1>11. InPieces(gs, u)
  <2>1. SpillOK(gs[Spill], u[Spill])
    BY <1>1, <1>8, <1>9, <1>10
  <2>2. ASSUME NEW k \in Hour PROVE HourOK(gs[k], u[k])
    BY <1>1, <1>7, <1>9, <1>10
  <2>3. QED BY <2>1, <2>2 DEF InPieces
<1>12. AsideTooLarge(fs) => AsideTooLarge(gs)
  <2> SUFFICES ASSUME AsideTooLarge(fs), NEW k \in Hour, NEW i \in Number \ {0}, gs[k][i] # NoFile
               PROVE  FileSize(gs[k][i]) > MaxLogSize
    BY DEF AsideTooLarge
  <2>1. gs[k][i] = fs[k][i]
    BY <1>1, <1>4, <1>9
  <2>2. QED BY <2>1 DEF AsideTooLarge
<1>13. FileSize(gs[h][0]) = FileSize(fs[h][0]) + m.len
  BY <1>2, <1>4, <1>9, FileSizes
<1>14. NoneTooLarge(fs) /\ FileSize(fs[h][0]) <= MaxLogSize => NoneTooLarge(gs)
  <2> SUFFICES ASSUME NoneTooLarge(fs), FileSize(fs[h][0]) <= MaxLogSize, NEW k \in Place, NEW i \in Number
               PROVE  FileSize(gs[k][i]) <= MaxLogSize + Max(Lens)
    BY DEF NoneTooLarge
  <2>1. CASE k = h /\ i = 0
    <3>1. m.len \in Nat /\ m.len <= Max(Lens) /\ Max(Lens) \in Nat
      BY LensMax DEF Msgs
    <3>2. MaxLogSize \in Nat /\ FileSize(fs[h][0]) \in Nat
      BY <1>2, FileSizes, FileAssumption
    <3>3. QED BY <1>13, <2>1, <3>1, <3>2
  <2>2. CASE ~(k = h /\ i = 0)
    <3>1. gs[k][i] = fs[k][i]
      BY <1>4, <1>9, <2>2
    <3>2. QED BY <3>1 DEF NoneTooLarge
  <2>3. QED BY <2>1, <2>2
<1>15. QED BY <1>9, <1>10, <1>11, <1>12, <1>13, <1>14 DEF gs, u

(* A message is put into a file, or is not. *)
LEMMA PutStep ==
  ASSUME FileTyped, NEW fs \in [Place -> Files], InPieces(fs, written), AsideTooLarge(fs),
         NEW h \in Place, NEW isOpen \in BOOLEAN, NEW size \in Nat, NEW m \in Msgs,
         Put(m, fs, isOpen, h, size)
  PROVE  /\ files' \in [Place -> Files] /\ written' \in [Place -> Seq(Msgs)] /\ logSize' \in Nat
         /\ InPieces(files', written') /\ AsideTooLarge(files')
         /\ NoneTooLarge(fs) /\ (isOpen => FileSize(fs[h][0]) <= MaxLogSize) => NoneTooLarge(files')
         /\ isOpen /\ FileSize(fs[h][0]) <= size => FileSize(files'[h][0]) <= logSize'
         /\ \A k \in Place : written'[k] = written[k]
                             \/ (isOpen /\ k = h /\ written'[k] = Append(written[k], m))
<1>1. /\ files' = IF isOpen THEN [fs EXCEPT ![h][0] = Append(@, m)] ELSE fs
      /\ written' = IF isOpen THEN [written EXCEPT ![h] = Append(@, m)] ELSE written
      /\ logSize' = size + m.len
  BY DEF Put
<1>2. written \in [Place -> Seq(Msgs)]
  BY DEF FileTyped
<1>3. m.len \in Nat
  BY FileAssumption DEF Msgs
<1>4. logSize' \in Nat
  BY <1>1, <1>3
<1>5. CASE ~isOpen
  <2>1. files' = fs /\ written' = written
    BY <1>1, <1>5
  <2>2. InPieces(files', written') /\ AsideTooLarge(files')
        /\ (NoneTooLarge(fs) => NoneTooLarge(files'))
    BY <2>1
  <2>3. files' \in [Place -> Files] /\ written' \in [Place -> Seq(Msgs)]
    BY <1>2, <2>1
  <2>4. \A k \in Place : written'[k] = written[k]
    BY <2>1
  <2>5. NoneTooLarge(fs) /\ (isOpen => FileSize(fs[h][0]) <= MaxLogSize) => NoneTooLarge(files')
    BY <2>2
  <2>6. isOpen /\ FileSize(fs[h][0]) <= size => FileSize(files'[h][0]) <= logSize'
    BY <1>5
  <2>7. \A k \in Place : written'[k] = written[k]
                         \/ (isOpen /\ k = h /\ written'[k] = Append(written[k], m))
    BY <2>4
  <2>8. InPieces(files', written') /\ AsideTooLarge(files')
    BY <2>2
  <2>9. QED BY <1>4, <2>3, <2>5, <2>6, <2>7, <2>8
<1>6. CASE isOpen
  <2>1. files' = [fs EXCEPT ![h][0] = Append(@, m)] /\ written' = [written EXCEPT ![h] = Append(@, m)]
    BY <1>1, <1>6
  <2>2. /\ files' \in [Place -> Files] /\ written' \in [Place -> Seq(Msgs)] /\ InPieces(files', written')
        /\ AsideTooLarge(fs) => AsideTooLarge(files')
        /\ NoneTooLarge(fs) /\ FileSize(fs[h][0]) <= MaxLogSize => NoneTooLarge(files')
        /\ FileSize(files'[h][0]) = FileSize(fs[h][0]) + m.len
    BY <1>2, <2>1, PutFiles
  <2>3. FileSize(fs[h][0]) \in Nat
    <3>1. 0 \in Number /\ fs[h] \in Files
      BY NumberIs
    <3>2. fs[h][0] \in Seq(Msgs)
      BY <3>1 DEF Files
    <3>3. QED BY <3>2, FileSizes
  <2>4. FileSize(fs[h][0]) <= size => FileSize(files'[h][0]) <= logSize'
    BY <1>1, <1>3, <2>2, <2>3
  <2>5. \A k \in Place : written'[k] = written[k] \/ (k = h /\ written'[k] = Append(written[k], m))
    <3>1. written' = [written EXCEPT ![h] = Append(@, m)]
      BY <2>1
    <3>2. written'[h] = Append(written[h], m)
      BY <1>2, <3>1
    <3>3. \A k \in Place \ {h} : written'[k] = written[k]
      BY <1>2, <3>1
    <3>4. QED BY <3>2, <3>3
  <2>6. NoneTooLarge(fs) /\ (isOpen => FileSize(fs[h][0]) <= MaxLogSize) => NoneTooLarge(files')
    BY <1>6, <2>2
  <2>7. isOpen /\ FileSize(fs[h][0]) <= size => FileSize(files'[h][0]) <= logSize'
    BY <2>4
  <2>8. \A k \in Place : written'[k] = written[k]
                         \/ (isOpen /\ k = h /\ written'[k] = Append(written[k], m))
    BY <1>6, <2>5
  <2>9. files' \in [Place -> Files] /\ written' \in [Place -> Seq(Msgs)]
    BY <2>2
  <2>10. InPieces(files', written') /\ AsideTooLarge(files')
    BY <2>2
  <2>11. QED BY <1>4, <2>6, <2>7, <2>8, <2>9, <2>10
<1>7. QED BY <1>5, <1>6

(* A message that goes to its hour or a later one leaves NotEarlier true. *)
LEMMA PutNotEarlier ==
  ASSUME FileTyped, NotEarlier, ~dirFailed, NEW h \in Place, NEW m \in Msgs, h \in Hour => m.tm <= h,
         \A k \in Place : written'[k] = written[k] \/ (k = h /\ written'[k] = Append(written[k], m))
  PROVE  \A k \in Hour : \A i \in DOMAIN written'[k] : written'[k][i].tm <= k
<1>1. /\ \A k \in Hour : k \in Place /\ written[k] \in Seq(Msgs)
      /\ \A k \in Hour : \A i \in DOMAIN written[k] : written[k][i].tm <= k
  BY NumberIs DEF FileTyped, NotEarlier
<1> SUFFICES ASSUME NEW k \in Hour, NEW i \in DOMAIN written'[k] PROVE written'[k][i].tm <= k
  OBVIOUS
<1>2. CASE written'[k] = written[k]
  BY <1>1, <1>2
<1>3. CASE k = h /\ written'[k] = Append(written[k], m)
  <2>1. written[k] \in Seq(Msgs)
    BY <1>1
  <2>2. /\ i \in 1 .. Len(written[k]) + 1 /\ DOMAIN written[k] = 1 .. Len(written[k]) /\ Len(written[k]) \in Nat
        /\ i = Len(written[k]) + 1 => written'[k][i] = m
        /\ i # Len(written[k]) + 1 => written'[k][i] = written[k][i]
    BY <1>3, <2>1
  <2>3. CASE i = Len(written[k]) + 1
    BY <1>3, <2>2, <2>3
  <2>4. CASE i # Len(written[k]) + 1
    <3>1. i \in DOMAIN written[k]
      BY <2>2, <2>4
    <3>2. QED BY <1>1, <2>2, <2>4, <3>1
  <2>5. QED BY <2>3, <2>4
<1>4. QED BY <1>1, <1>2, <1>3

LEMMA WriteStep ==
  ASSUME FileInv, NEW t \in Hour, NEW len \in Lens, Write(t, len)
  PROVE  FileInv'
<1> DEFINE m == [id |-> cnt, tm |-> t, len |-> len]
<1>1. /\ FileTyped /\ Counted /\ NotEarlier
      /\ InPieces(files, written) /\ AsideTooLarge(files) /\ (dirFailed \/ NoneTooLarge(files))
  BY DEF FileInv
<1>2. /\ now \in Hour /\ lastTms \in Hour /\ fpPlace \in Place /\ open \in BOOLEAN /\ dirFailed \in BOOLEAN
      /\ logSize \in Nat /\ cnt \in Nat /\ files \in [Place -> Files]
      /\ Hour = 0 .. Hours /\ Hours \in Nat /\ Hour \subseteq Place /\ Spill \in Place /\ Spill \notin Hour
      /\ 0 \in Number /\ MaxLogSize \in Nat
  BY <1>1, NumberIs, FileAssumption DEF FileTyped
<1>3. m \in Msgs /\ m.tm = t
  BY <1>2 DEF Msgs
<1>4. /\ t \in tm .. now /\ cnt' = cnt + 1 /\ tm' = t /\ now' = now
  BY DEF Write
<1>5. t <= now
  BY <1>2, <1>4
<1> HIDE DEF m
<1>6. CASE ~MustMake(t)
  <2>1. /\ Put(m, files, TRUE, fpPlace, logSize)
        /\ open' = open /\ fpPlace' = fpPlace /\ lastTms' = lastTms /\ dirFailed' = dirFailed
    BY <1>6 DEF Write, m
  <2>2. open /\ lastTms = t /\ logSize < MaxLogSize
    BY <1>2, <1>6 DEF MustMake
  <2>3. /\ files' \in [Place -> Files] /\ written' \in [Place -> Seq(Msgs)] /\ logSize' \in Nat
        /\ InPieces(files', written') /\ AsideTooLarge(files')
        /\ NoneTooLarge(files) /\ FileSize(files[fpPlace][0]) <= MaxLogSize => NoneTooLarge(files')
        /\ FileSize(files[fpPlace][0]) <= logSize => FileSize(files'[fpPlace][0]) <= logSize'
        /\ \A k \in Place : written'[k] = written[k]
                            \/ (k = fpPlace /\ written'[k] = Append(written[k], m))
    <3> DEFINE isOpen == TRUE
    <3>0. isOpen
      OBVIOUS
    <3>1. isOpen \in BOOLEAN
      OBVIOUS
    <3>2. Put(m, files, isOpen, fpPlace, logSize)
      BY <2>1
    <3> HIDE DEF isOpen
    <3>3. /\ files' \in [Place -> Files] /\ written' \in [Place -> Seq(Msgs)] /\ logSize' \in Nat
          /\ InPieces(files', written') /\ AsideTooLarge(files')
          /\ NoneTooLarge(files) /\ (isOpen => FileSize(files[fpPlace][0]) <= MaxLogSize) => NoneTooLarge(files')
          /\ isOpen /\ FileSize(files[fpPlace][0]) <= logSize => FileSize(files'[fpPlace][0]) <= logSize'
          /\ \A k \in Place : written'[k] = written[k]
                              \/ (isOpen /\ k = fpPlace /\ written'[k] = Append(written[k], m))
      <4>1. FileTyped /\ InPieces(files, written) /\ AsideTooLarge(files)
        BY <1>1
      <4>2. files \in [Place -> Files] /\ fpPlace \in Place /\ logSize \in Nat
        BY <1>2
      <4>3. QED BY <1>3, <3>1, <3>2, <4>1, <4>2, PutStep
    <3>4. /\ NoneTooLarge(files) /\ FileSize(files[fpPlace][0]) <= MaxLogSize => NoneTooLarge(files')
          /\ FileSize(files[fpPlace][0]) <= logSize => FileSize(files'[fpPlace][0]) <= logSize'
      BY <3>0, <3>3
    <3>5. \A k \in Place : written'[k] = written[k] \/ (k = fpPlace /\ written'[k] = Append(written[k], m))
      BY <3>0, <3>3
    <3>6. QED BY <3>3, <3>4, <3>5
  <2>4. ~dirFailed => /\ FileSize(files[fpPlace][0]) <= logSize
                      /\ fpPlace \in {lastTms, Spill}
    BY <1>1, <2>2 DEF Counted
  <2>5. FileTyped'
    BY <1>2, <1>4, <2>1, <2>3 DEF FileTyped
  <2>6. Counted'
    BY <2>1, <2>3, <2>4 DEF Counted
  <2>7. NotEarlier'
    <3>1. CASE dirFailed
      BY <2>1, <3>1 DEF NotEarlier
    <3>2. CASE ~dirFailed
      <4>1. fpPlace \in Hour => m.tm <= fpPlace
        BY <1>2, <1>3, <2>2, <2>4, <3>2
      <4>2. \A k \in Hour : \A i \in DOMAIN written'[k] : written'[k][i].tm <= k
        BY <1>1, <1>2, <1>3, <2>3, <3>2, <4>1, PutNotEarlier
      <4>3. QED BY <4>2 DEF NotEarlier
    <3>3. QED BY <3>1, <3>2
  <2>8. dirFailed' \/ NoneTooLarge(files')
    <3>1. FileSize(files[fpPlace][0]) \in Nat
      BY <1>2, FileSizes DEF Files
    <3>2. QED BY <1>1, <1>2, <2>1, <2>2, <2>3, <2>4, <3>1
  <2>9. QED BY <2>3, <2>5, <2>6, <2>7, <2>8 DEF FileInv
<1>7. CASE MustMake(t)
  <2> DEFINE Open(outcome) == IF outcome = "nodir" THEN open ELSE outcome = "ok"
             Size(outcome) == IF outcome = "nodir" THEN logSize ELSE CountAfter(files[now][0])
  <2>1. PICK outcome \in {"ok", "nofile", "nodir"} :
          /\ lastTms' = now
          /\ open' = Open(outcome) /\ fpPlace' = PlaceMade(outcome)
          /\ dirFailed' = (dirFailed \/ outcome = "nodir")
          /\ Put(m, FilesMade(outcome), Open(outcome), PlaceMade(outcome), Size(outcome))
    BY <1>7 DEF Write, m
  <2> DEFINE fs == FilesMade(outcome)
             h == PlaceMade(outcome)
             f == files[now][0]
             isOpen == Open(outcome)
             size == Size(outcome)
  <2>2. f \in Seq(Msgs) /\ FileSize(f) \in Nat /\ FileSize(NoFile) = 0
    BY <1>2, FileSizes DEF Files
  <2>3. /\ fs \in [Place -> Files] /\ InPieces(fs, written) /\ AsideTooLarge(fs)
        /\ dirFailed \/ NoneTooLarge(fs)
        /\ h \in Place
        /\ outcome # "nodir" => /\ h \in {now, Spill}
                                /\ fs[h][0] = IF TooLarge(f) THEN NoFile ELSE f
    BY MakeFiles
  <2>4. CountAfter(f) = IF f = NoFile THEN logSize ELSE IF TooLarge(f) THEN 0 ELSE FileSize(f)
    BY DEF CountAfter
  <2>5. size \in Nat /\ isOpen \in BOOLEAN
    BY <1>2, <2>2, <2>4
  <2>6. outcome # "nodir" => FileSize(fs[h][0]) <= size /\ FileSize(fs[h][0]) <= MaxLogSize
    <3> SUFFICES ASSUME outcome # "nodir" PROVE FileSize(fs[h][0]) <= size /\ FileSize(fs[h][0]) <= MaxLogSize
      OBVIOUS
    <3>1. size = CountAfter(f)
      OBVIOUS
    <3>2. CASE TooLarge(f)
      <4>1. fs[h][0] = NoFile
        BY <2>3, <3>2
      <4>2. QED BY <1>2, <2>2, <2>5, <4>1
    <3>3. CASE ~TooLarge(f)
      <4>1. fs[h][0] = f /\ FileSize(f) <= MaxLogSize
        BY <1>2, <2>2, <2>3, <3>3 DEF TooLarge
      <4>2. QED BY <1>2, <2>2, <2>4, <3>1, <3>3, <4>1
    <3>4. QED BY <3>2, <3>3
  <2>7. /\ lastTms' = now /\ open' = isOpen /\ fpPlace' = h
        /\ dirFailed' = (dirFailed \/ outcome = "nodir")
        /\ Put(m, fs, isOpen, h, size)
    BY <2>1
  <2> HIDE DEF fs, h, isOpen, size
  <2>8. /\ files' \in [Place -> Files] /\ written' \in [Place -> Seq(Msgs)] /\ logSize' \in Nat
        /\ InPieces(files', written') /\ AsideTooLarge(files')
        /\ NoneTooLarge(fs) /\ (isOpen => FileSize(fs[h][0]) <= MaxLogSize) => NoneTooLarge(files')
        /\ isOpen /\ FileSize(fs[h][0]) <= size => FileSize(files'[h][0]) <= logSize'
        /\ \A k \in Place : written'[k] = written[k]
                            \/ (isOpen /\ k = h /\ written'[k] = Append(written[k], m))
    BY <1>1, <1>3, <2>3, <2>5, <2>7, PutStep
  <2>9. FileTyped'
    BY <1>2, <1>4, <2>3, <2>5, <2>7, <2>8 DEF FileTyped
  <2>10. Counted'
    BY <2>3, <2>6, <2>7, <2>8 DEF Counted
  <2>11. NotEarlier'
    <3>1. CASE dirFailed'
      BY <3>1 DEF NotEarlier
    <3>2. CASE ~dirFailed'
      <4>1. ~dirFailed /\ h \in {now, Spill}
        BY <2>3, <2>7, <3>2
      <4>2. h \in Hour => m.tm <= h
        BY <1>2, <1>3, <1>5, <4>1
      <4>3. \A k \in Place : written'[k] = written[k] \/ (k = h /\ written'[k] = Append(written[k], m))
        BY <2>8
      <4>4. \A k \in Hour : \A i \in DOMAIN written'[k] : written'[k][i].tm <= k
        BY <1>1, <1>3, <2>3, <4>1, <4>2, <4>3, PutNotEarlier
      <4>5. QED BY <4>4 DEF NotEarlier
    <3>3. QED BY <3>1, <3>2
  <2>12. dirFailed' \/ NoneTooLarge(files')
    BY <2>3, <2>6, <2>7, <2>8
  <2>13. QED BY <2>8, <2>9, <2>10, <2>11, <2>12 DEF FileInv
<1>8. QED BY <1>6, <1>7

LEMMA FileStep == FileInv /\ [FileNext]_fileVars => FileInv'
<1> SUFFICES ASSUME FileInv, [FileNext]_fileVars PROVE FileInv'
  OBVIOUS
<1>1. CASE \E t \in Hour, len \in Lens : Write(t, len)
  BY <1>1, WriteStep
<1>2. CASE Tick
  BY <1>2, NumberIs DEF Tick, FileInv, FileTyped, Counted, NotEarlier
<1>3. CASE Restart
  BY <1>3 DEF Restart, FileInv, FileTyped, Counted, NotEarlier
<1>4. CASE UNCHANGED fileVars
  BY <1>4 DEF fileVars, FileInv, FileTyped, Counted, NotEarlier
<1>5. QED BY <1>1, <1>2, <1>3, <1>4 DEF FileNext

(* Each file is a piece of what was written to its place, file 0 the last  *)
(* one and the others before it without a gap, and the appender's own      *)
(* count, which loglibInt_apndWrite compares with maxLogSize, is never     *)
(* below the size of the file it stands for.                               *)
THEOREM FileInductive == FileSpec => []FileInv
<1>1. QED BY FileInitial, FileStep, PTL DEF FileSpec

(* For any number of hours, files, sizes and restarts: the files of an     *)
(* hour put one behind the other are the last messages written to it, and  *)
(* the oldest are lost only when all numbers are in use.                   *)
THEOREM OldestStaysLost == FileSpec => []OnlyOldestLost
<1>1. FileInv => OnlyOldestLost
  <2> SUFFICES ASSUME FileInv PROVE OnlyOldestLost
    OBVIOUS
  <2>1. /\ files \in [Place -> Files] /\ written \in [Place -> Seq(Msgs)]
        /\ SpillOK(files[Spill], written[Spill]) /\ \A h \in Hour : HourOK(files[h], written[h])
        /\ Hour \subseteq Place /\ \A h \in Place : h \in Hour \/ h = Spill
    BY NumberIs DEF FileInv, FileTyped, InPieces
  <2>2. ASSUME NEW h \in Place PROVE EndOf(AllOf(files[h]), written[h])
    <3>1. PICK start : Pieces(files[h], written[h], start)
      BY <2>1 DEF SpillOK, HourOK
    <3>2. files[h] \in Files /\ written[h] \in Seq(Msgs)
      BY <2>1
    <3>3. QED BY <3>1, <3>2, PiecesLast
  <2>3. ASSUME NEW h \in Hour, AllOf(files[h]) # written[h]
        PROVE  \A i \in Number \ {0} : files[h][i] # NoFile
    <3>1. PICK start : Pieces(files[h], written[h], start) /\ LostLast(files[h], start)
      BY <2>1 DEF HourOK
    <3>2. files[h] \in Files /\ written[h] \in Seq(Msgs)
      BY <2>1
    <3>3. start[Keep + 1] # 0
      BY <2>3, <3>1, <3>2, PiecesLast
    <3>4. QED BY <3>1, <3>3 DEF LostLast
  <2>4. QED BY <2>2, <2>3 DEF OnlyOldestLost
<1>2. QED BY <1>1, FileInductive, PTL

(* For the same values: no file exceeds maxLogSize by more than one        *)
(* message, nor holds a message of a later hour, as long as the directory  *)
(* can be made.                                                            *)
THEOREM FilesStayBounded == FileSpec => []FilesBounded
<1>1. FileInv => FilesBounded
  BY DEF FileInv, FilesBounded, SizeBound, NoneTooLarge, AsideTooLarge
<1>2. QED BY <1>1, FileInductive, PTL
=============================================================================
