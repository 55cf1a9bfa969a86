------------------------------- MODULE MsgBuf -------------------------------
(***************************************************************************)
(* comlib/comlib_msg.c: the chunked message the HTTP server collects       *)
(* request bodies in. A message is a header and a chain of chunks of equal *)
(* capacity; the header counts the bytes and points to the last chunk.     *)
(*                                                                         *)
(* A chunk is what a reader sees of it: where its bytes begin in the       *)
(* buffer, the bytes, and whether its prev names the chunk before it. The  *)
(* pointer to the last chunk is "last", "hdr" (the header itself), "none"  *)
(* (NULL) or "freed". `told' is the content the callers' calls add up to.  *)
(* Some calls are wrong in the code in some states: they are modelled as   *)
(* they are, `broken' records that one happened, and the message is put    *)
(* back before anything else is done.                                      *)
(***************************************************************************)
EXTENDS Integers, Sequences, SequencesExt, FiniteSets

CONSTANTS Msgs,      \* the messages
          Bytes,     \* the bytes, numbers
          ChkLen,    \* the capacity of a chunk
          MaxLen,    \* g_msgCfg.maxLen
          MaxBytes,  \* bound: the bytes in all messages together
          Garbage    \* a byte nobody wrote

ASSUME MsgAssumption == ChkLen \in Nat \ {0} /\ MaxLen \in Nat /\ Garbage \notin Bytes

VARIABLES live, chunks, end, msgLen, told, broken

msgVars == <<live, chunks, end, msgLen, told, broken>>

MsgInit ==
  /\ live = {}
  /\ chunks = [m \in Msgs |-> <<>>] /\ told = [m \in Msgs |-> <<>>]
  /\ end = [m \in Msgs |-> "none"] /\ msgLen = [m \in Msgs |-> 0]
  /\ broken = {}

-----------------------------------------------------------------------------
(* The macros: chunks made, found and split *)

Smaller(a, b) == IF a < b THEN a ELSE b

Chk(s, d) == [s |-> s, data |-> d, back |-> TRUE]

\* MAKE_NEW_CHK: full chunks, then one with the rest, all from their base.
NewChks(d) ==
  LET full == Len(d) \div ChkLen
      rest == SubSeq(d, full * ChkLen + 1, Len(d))
  IN  [i \in 1..full |-> Chk(0, SubSeq(d, (i - 1) * ChkLen + 1, i * ChkLen))]
        \o (IF rest = <<>> THEN <<>> ELSE <<Chk(0, rest)>>)

\* The loop of msgAddMsgFirst: filled backwards, the short one is the first
\* and holds its bytes at its end.
NewFront(d) ==
  LET rem == Len(d) % ChkLen
      rest == SubSeq(d, 1, rem)
  IN  (IF rem = 0 THEN <<>> ELSE <<Chk(ChkLen - rem, rest)>>)
        \o [i \in 1..(Len(d) \div ChkLen) |->
              Chk(0, SubSeq(d, rem + (i - 1) * ChkLen + 1, rem + i * ChkLen))]

\* The bytes in the chunks before the i-th, and in all.
RECURSIVE Before(_, _)
Before(c, i) == IF i = 1 THEN 0 ELSE Before(c, i - 1) + Len(c[i - 1].data)
ChainSize(c) == Before(c, Len(c) + 1)

\* FIND_MSG_IDX: the chunk the cursor is in; past the end it is NULL.
FindIdx(c, cur) == CHOOSE i \in 1..(Len(c) + 1) :
                  Before(c, i) <= cur /\ (i <= Len(c) => cur < Before(c, i + 1))

\* Fault: the second half of a split chunk starts one byte too early.
Split_Early(c, cur) ==
  LET i == FindIdx(c, cur)
      idx == cur - Before(c, i)
      k == c[i]
  IN  IF i > Len(c) THEN [pre |-> c, post |-> <<>>]
      ELSE IF idx = 0 THEN [pre |-> SubSeq(c, 1, i - 1), post |-> SubSeq(c, i, Len(c))]
      ELSE [pre |-> Append(SubSeq(c, 1, i - 1), [k EXCEPT !.data = SubSeq(@, 1, idx)]),
            post |-> <<Chk(0, SubSeq(k.data, idx, Len(k.data)))>> \o SubSeq(c, i + 1, Len(c))]

\* SPLIT_MSG: the chain before and from the cursor. The smaller half of the
\* chunk the cursor is inside of moves to a new chunk.
Split(c, cur) ==
  LET i == FindIdx(c, cur)
      idx == cur - Before(c, i)
      k == c[i]
      left == SubSeq(k.data, 1, idx)
      right == SubSeq(k.data, idx + 1, Len(k.data))
      halves == IF Len(left) > Len(right)
                  THEN <<[k EXCEPT !.data = left], Chk(0, right)>>
                  ELSE <<[Chk(0, left) EXCEPT !.back = k.back],
                         [k EXCEPT !.s = @ + idx, !.data = right, !.back = TRUE]>>
  IN  IF i > Len(c) \/ idx = 0
        THEN [pre |-> SubSeq(c, 1, i - 1), post |-> SubSeq(c, i, Len(c))]
        ELSE [pre |-> Append(SubSeq(c, 1, i - 1), halves[1]),
              post |-> <<halves[2]>> \o SubSeq(c, i + 1, Len(c))]

\* What is left of a chain when its first n bytes, or all but its first n
\* bytes, are taken off.
DropFirst(c, n) ==
  LET gone == Cardinality({i \in DOMAIN c : Before(c, i + 1) <= n})
      part == n - Before(c, gone + 1)
      rest == SubSeq(c, gone + 1, Len(c))
  IN  IF rest = <<>> THEN rest
      ELSE <<[rest[1] EXCEPT !.s = @ + part,
                             !.data = SubSeq(@, part + 1, Len(@)),
                             !.back = TRUE]>> \o Tail(rest)

KeepFirst(c, n) ==
  [i \in 1..Cardinality({j \in DOMAIN c : Before(c, j) < n}) |->
     [c[i] EXCEPT !.data = SubSeq(@, 1, Smaller(Len(@), n - Before(c, i)))]]

-----------------------------------------------------------------------------
(* The calls *)

Usable(m) == m \in live /\ broken = {}

\* Bound on the calls that add n bytes: no two messages have more than MaxBytes.
InBound(n) == \A m, k \in Msgs : m # k => msgLen[m] + msgLen[k] + n <= MaxBytes

\* The length checks of the calls that add n > 0 bytes.
FitsMsg(m, n) == n < MaxLen /\ msgLen[m] + n < MaxLen

Becomes(m, c, e, n, seq) ==
  /\ chunks' = [chunks EXCEPT ![m] = c]
  /\ end' = [end EXCEPT ![m] = e]
  /\ msgLen' = [msgLen EXCEPT ![m] = n]
  /\ told' = [told EXCEPT ![m] = seq]
  /\ UNCHANGED live

Breaks(m, when) == broken' = IF when THEN broken \cup {m} ELSE broken

GetMsg(m) ==
  /\ m \notin live
  /\ live' = live \cup {m}
  /\ UNCHANGED <<chunks, end, msgLen, told, broken>>

PutMsg(m) ==
  /\ m \in live
  /\ live' = live \ {m} /\ broken' = broken \ {m}
  /\ chunks' = [chunks EXCEPT ![m] = <<>>] /\ told' = [told EXCEPT ![m] = <<>>]
  /\ end' = [end EXCEPT ![m] = "none"] /\ msgLen' = [msgLen EXCEPT ![m] = 0]

\* A new first chunk does not become the prev of the old one, and a pointer
\* to the header is not set to it.
AddCharFirst(m, b) ==
  LET c == chunks[m]
      new == c = <<>> \/ c[1].s = 0
  IN
  /\ Usable(m) /\ msgLen[m] < MaxLen /\ InBound(1)
  /\ Becomes(m, IF ~new
                  THEN <<[c[1] EXCEPT !.s = @ - 1, !.data = <<b>> \o @]>> \o Tail(c)
                  ELSE IF c = <<>> THEN <<Chk(ChkLen - 1, <<b>>)>>
                  ELSE <<Chk(ChkLen - 1, <<b>>), [c[1] EXCEPT !.back = FALSE]>> \o Tail(c),
                IF end[m] = "none" THEN "last" ELSE end[m],
                msgLen[m] + 1, <<b>> \o told[m])
  /\ Breaks(m, new /\ end[m] # "none")

\* The first byte taken off the chain; both msgRmvCharFirst and, whatever its
\* name says, msgAddCharEnd.
FirstOff(m, seq) ==
  LET c == DropFirst(chunks[m], 1) IN
  Becomes(m, c, IF c = <<>> THEN "none" ELSE end[m], msgLen[m] - 1, seq)

AddCharEnd(m, b) ==
  /\ Usable(m) /\ msgLen[m] # 0
  /\ FirstOff(m, Append(told[m], b))
  /\ Breaks(m, TRUE)

RmvCharFirst(m) ==
  /\ Usable(m) /\ msgLen[m] # 0
  /\ FirstOff(m, Tail(told[m]))
  /\ Breaks(m, FALSE)

\* With more room before the first chunk's bytes than is needed the bytes are
\* copied to the right place, but the chunk starts at its base afterwards.
AddMsgFirst(m, d) ==
  LET c == chunks[m]
      room == IF c = <<>> THEN 0 ELSE c[1].s
      old == c[1].data
      rest == SubSeq(d, 1, Len(d) - room)
      fill == SubSeq(d, Len(d) - room + 1, Len(d))
      spilt == SubSeq([i \in 1..(room - Len(d)) |-> Garbage] \o d \o old, 1, Len(d) + Len(old))
  IN
  /\ Usable(m) /\ FitsMsg(m, Len(d)) /\ InBound(Len(d))
  /\ Becomes(m, IF c = <<>> THEN NewChks(d)
                ELSE IF room > Len(d)
                  THEN <<[c[1] EXCEPT !.s = 0, !.data = spilt]>> \o Tail(c)
                ELSE NewFront(rest) \o <<[c[1] EXCEPT !.s = 0, !.data = fill \o old]>> \o Tail(c),
                "last", msgLen[m] + Len(d), d \o told[m])
  /\ Breaks(m, room > Len(d))

AddMsgEnd(m, d) ==
  LET c == chunks[m]
      k == c[Len(c)]
      room == IF end[m] # "last" THEN 0 ELSE ChkLen - k.s - Len(k.data)
      fill == Smaller(room, Len(d))
      rest == NewChks(SubSeq(d, fill + 1, Len(d)))
  IN
  /\ Usable(m) /\ FitsMsg(m, Len(d)) /\ InBound(Len(d))
  /\ Becomes(m, IF end[m] # "last" THEN rest
                ELSE Append(Front(c), [k EXCEPT !.data = @ \o SubSeq(d, 1, fill)]) \o rest,
                "last", msgLen[m] + Len(d), told[m] \o d)
  /\ Breaks(m, FALSE)

\* With the last byte of the message the header becomes the last chunk.
RmvCharEnd(m) ==
  LET c == KeepFirst(chunks[m], ChainSize(chunks[m]) - 1) IN
  /\ Usable(m) /\ msgLen[m] # 0 /\ end[m] # "none"
  /\ Becomes(m, c, IF c = <<>> THEN "hdr" ELSE "last", msgLen[m] - 1, Front(told[m]))
  /\ Breaks(m, FALSE)

\* The pointer to the last chunk stays where it is when that chunk is freed.
RmvMsg(m, cur, len) ==
  LET s == Split(chunks[m], cur)
      post == DropFirst(s.post, len)
      freed == len # 0 /\ post = <<>>
  IN
  /\ Usable(m) /\ msgLen[m] # 0 /\ cur + len <= msgLen[m]
  /\ Becomes(m, s.pre \o post, IF freed THEN "freed" ELSE end[m], msgLen[m] - len,
                SubSeq(told[m], 1, cur) \o SubSeq(told[m], cur + len + 1, Len(told[m])))
  /\ Breaks(m, freed)

\* The length to remove is never set: nothing is removed but from the count.
RmvMsgFirst(m, len) ==
  /\ Usable(m) /\ len # 0 /\ len <= msgLen[m]
  /\ Becomes(m, chunks[m], IF chunks[m] = <<>> THEN "none" ELSE end[m], msgLen[m] - len,
                SubSeq(told[m], len + 1, Len(told[m])))
  /\ Breaks(m, TRUE)

RmvMsgEnd(m, len) ==
  LET c == KeepFirst(chunks[m], ChainSize(chunks[m]) - len) IN
  /\ Usable(m) /\ len # 0 /\ len <= msgLen[m]
  /\ Becomes(m, c, IF c = <<>> THEN "none" ELSE "last", msgLen[m] - len,
                SubSeq(told[m], 1, Len(told[m]) - len))
  /\ Breaks(m, FALSE)

AddMsg(m, cur, d) ==
  LET s == Split(chunks[m], cur) IN
  /\ Usable(m) /\ cur <= msgLen[m] /\ FitsMsg(m, Len(d)) /\ InBound(Len(d))
  /\ Becomes(m, s.pre \o NewChks(d) \o s.post, "last", msgLen[m] + Len(d),
                SubSeq(told[m], 1, cur) \o d \o SubSeq(told[m], cur + 1, Len(told[m])))
  /\ Breaks(m, FALSE)

\* The second message is made by the call.
SpiltMsg(m, cur, n) ==
  LET s == Split(chunks[m], cur) IN
  /\ Usable(m) /\ n \notin live /\ cur # 0 /\ cur < msgLen[m]
  /\ live' = live \cup {n}
  /\ chunks' = [chunks EXCEPT ![m] = s.pre, ![n] = s.post]
  /\ end' = [end EXCEPT ![n] = end[m], ![m] = "last"]
  /\ msgLen' = [msgLen EXCEPT ![n] = msgLen[m] - cur, ![m] = cur]
  /\ told' = [told EXCEPT ![m] = SubSeq(@, 1, cur), ![n] = SubSeq(told[m], cur + 1, Len(told[m]))]
  /\ UNCHANGED broken

\* What a call may add to m.
Strings(m) == UNION {[1..n -> Bytes] : n \in {k \in 1..MaxLen : FitsMsg(m, k) /\ InBound(k)}}

MsgNext ==
  \E m \in Msgs :
     \/ GetMsg(m) \/ PutMsg(m)
     \/ /\ Usable(m)
        /\ \/ \E b \in Bytes : AddCharFirst(m, b) \/ AddCharEnd(m, b)
           \/ RmvCharFirst(m) \/ RmvCharEnd(m)
           \/ \E len \in 1..msgLen[m] : RmvMsgFirst(m, len) \/ RmvMsgEnd(m, len)
           \/ \E cur \in 0..msgLen[m] :
                \/ \E len \in 0..(msgLen[m] - cur) : RmvMsg(m, cur, len)
                \/ \E n \in Msgs : SpiltMsg(m, cur, n)
           \/ \E d \in Strings(m) :
                \/ AddMsgFirst(m, d) \/ AddMsgEnd(m, d)
                \/ \E cur \in 0..msgLen[m] : AddMsg(m, cur, d)

MsgSpec == MsgInit /\ [][MsgNext]_msgVars

-----------------------------------------------------------------------------
(* Reading *)

\* comlib_msgCpyAllMsgIntoFixBuf and ...DynBuf: the chunks, one after the other.
CpyAllMsg(m) == FlattenSeq([i \in DOMAIN chunks[m] |-> chunks[m][i].data])

\* memcmp of len bytes, by its sign.
Memcmp(d, i, e, j, len) ==
  LET diff == {k \in 1..len : d[i + k] # e[j + k]}
      k == CHOOSE x \in diff : \A y \in diff : x <= y
  IN  IF diff = {} THEN 0 ELSE IF d[i + k] < e[j + k] THEN -1 ELSE 1

\* comlib_msgCmpMsg: the two chains are walked by the shorter rest of the two
\* current chunks; i, j are the chunks, x, y the places in them.
RECURSIVE CmpFrom(_, _, _, _, _, _, _)
CmpFrom(c, i, x, d, j, y, len) ==
  LET a == Len(c[i].data) - x
      b == Len(d[j].data) - y
      n == Smaller(a, b)
      r == Memcmp(c[i].data, x, d[j].data, y, n)
  IN  IF len = 0 THEN 0
      ELSE IF a >= len /\ b >= len THEN Memcmp(c[i].data, x, d[j].data, y, len)
      ELSE IF r # 0 THEN r
      ELSE IF a > b THEN CmpFrom(c, i, x + b, d, j + 1, 0, len - b)
      ELSE IF a = b THEN CmpFrom(c, i + 1, 0, d, j + 1, 0, len - a)
      ELSE CmpFrom(c, i + 1, 0, d, j, y + a, len - a)

CmpMsg(m, cur1, n, cur2, len) ==
  LET i == FindIdx(chunks[m], cur1)
      j == FindIdx(chunks[n], cur2)
  IN  CmpFrom(chunks[m], i, cur1 - Before(chunks[m], i),
              chunks[n], j, cur2 - Before(chunks[n], j), len)

-----------------------------------------------------------------------------
(* Properties *)

Sound == live \ broken

BytesAgree == \A m \in Sound : CpyAllMsg(m) = told[m] /\ msgLen[m] = Len(told[m])

ChainAgrees ==
  \A m \in Sound :
     /\ \A i \in DOMAIN chunks[m] :
          /\ chunks[m][i].back /\ chunks[m][i].data # <<>>
          /\ chunks[m][i].s + Len(chunks[m][i].data) <= ChkLen
     /\ IF chunks[m] = <<>> THEN end[m] \in {"none", "hdr"} ELSE end[m] = "last"

ComparesAgree ==
  \A m \in Sound : \A n \in Sound \ {m} : \A len \in 1..MaxLen :
  \A x \in 0..(msgLen[m] - len), y \in 0..(msgLen[n] - len) :
     CmpMsg(m, x, n, y, len) = Memcmp(told[m], x, told[n], y, len)

\* Until one of the calls that are wrong is made, a message reads back as the
\* bytes its calls put in and took out, wherever the chunks are split, two
\* messages compare as those bytes do, and the chain and the pointer to its
\* end are the ones the next call needs (comlib_msg.c).
MessagesExact == BytesAgree /\ ChainAgrees /\ ComparesAgree
=============================================================================
