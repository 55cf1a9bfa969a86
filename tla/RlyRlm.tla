------------------------------- MODULE RlyRlm -------------------------------
(***************************************************************************)
(* The realms of rlylib (src/libsrc/rlylib/rlylibInt_rlm.c): a realm is a  *)
(* group of hosts and a rule by which a message sent to the realm chooses  *)
(* one of them: round robin (RR), primary and secondaries (PS) or the hash *)
(* of a key (HASH).                                                        *)
(*                                                                         *)
(* A send holds the writer's half of the main mutex and a receive the      *)
(* reader's half, so that there is one of each at a time; the operations   *)
(* that change realms and hosts take both halves and are one step.  Host   *)
(* threads change the status of a host and move its queues without either  *)
(* lock: a send and a receive look at one host per step.                   *)
(*                                                                         *)
(* Buckets are only ever added to a realm, in the first free place, which  *)
(* is the last: the array regHostBkt, the list regHostLst and the array    *)
(* of the hash rule hold the same buckets in the same order, here reg.     *)
(* The first word of the union ruleData is next in RR, pri in PS and       *)
(* hashType, which nothing reads, in HASH: here word.                      *)
(*                                                                         *)
(* A destroyed host stays in the buckets of its realms; rlmMemErr says     *)
(* that such a bucket was followed.  Nothing is modelled from then on.     *)
(***************************************************************************)
EXTENDS Integers, Sequences, FiniteSets, Functions

CONSTANTS
  Hosts,           \* host names
  RlmNames,        \* realm names
  RlmRules,           \* the rules in use, of "RR", "PS", "HASH", "DHT"
  RlmKeys,            \* hash keys: the word of a U32 key, the sum of a string
  MaxRlmCnt,       \* slots for realms
  MaxRegHostCnt,   \* maxRegHostCnt of every realm
  TqSize,          \* bound: messages in the receive queue of a host
  Programs,        \* bound: the calls a program makes, "send" and "receive"
  MaxAdd           \* bound: how often hosts are added, in all

ASSUME RlmAssumption ==
  /\ RlmRules \subseteq {"RR", "PS", "HASH", "DHT"}
  /\ RlmKeys \subseteq Nat
  /\ MaxRlmCnt \in Nat /\ MaxRegHostCnt \in Nat \ {0}
  /\ \A p \in Programs : p \subseteq {"send", "receive"}
  /\ TqSize \in Nat /\ MaxAdd \in Nat

VARIABLES
  uses,       \* which of Programs runs
  rlmLst,     \* rlmLnkLst: the realms in the order in which they were added
  rlmCb,      \* each realm: rule, buckets, first word of ruleData, bitMask, nxtRcv
  rlmHost,    \* each host: live, gen, open, regs (regRlmBktLst), rcv (rcvTq)
  sndCall,    \* the send that holds the writer's half
  rcvCall,    \* the receive that holds the reader's half
  rdLeak,     \* a receive returned with the reader's half locked
  turns,      \* history: sends of an RR realm since the host's last, while it was open
  waits,      \* history: receives of a realm since a message of the host waits
  rlmMemErr

rlmVars == <<uses, rlmLst, rlmCb, rlmHost, sndCall, rcvCall, rdLeak, turns, waits, rlmMemErr>>

noRlm  == [rule |-> "none", reg |-> << >>, word |-> 1, mask |-> 0, nxtRcv |-> 1]
noHost == [live |-> FALSE, gen |-> 0, open |-> FALSE, regs |-> {}, rcv |-> << >>]
noCall == [pc |-> "idle"]

RlmInit ==
  /\ uses \in Programs
  /\ rlmLst = << >>
  /\ rlmCb = [m \in RlmNames |-> noRlm]
  /\ rlmHost = [h \in Hosts |-> noHost]
  /\ sndCall = noCall /\ rcvCall = noCall
  /\ rdLeak = FALSE
  /\ turns = [m \in RlmNames |-> [h \in Hosts |-> 0]]
  /\ waits = [m \in RlmNames |-> [h \in Hosts |-> 0]]
  /\ rlmMemErr = FALSE

RlmListed(m) == \E i \in DOMAIN rlmLst : rlmLst[i] = m
RegCnt(m) == Len(rlmCb[m].reg)
After(m, i) == IF i = RegCnt(m) THEN 1 ELSE i + 1
HostsOf(m) == {rlmCb[m].reg[i].host : i \in DOMAIN rlmCb[m].reg}
Dangling(b) == ~(rlmHost[b.host].live /\ rlmHost[b.host].gen = b.gen)

(* The control operations take both halves of the main mutex. *)
Control ==
  /\ ~rlmMemErr /\ ~rdLeak
  /\ sndCall.pc = "idle" /\ rcvCall.pc = "idle"

-----------------------------------------------------------------------------
(* Realms and registrations *)

(* A slot is free, and the hash table of the realms has no such name yet.  *)
CanAdd(m) == Len(rlmLst) < MaxRlmCnt /\ ~RlmListed(m)

NewRlm(rule) == [noRlm EXCEPT !.rule = rule]

(* rlylibInt_rlmAddRlm, when rlylibInt_rlmMakeRlmCb makes the realm: it    *)
(* changes nothing when it returns an error.                               *)
AddRlm(m, rule) ==
  /\ Control
  /\ CanAdd(m)
  /\ rlmCb' = [rlmCb EXCEPT ![m] = NewRlm(rule)]
  /\ rlmLst' = Append(rlmLst, m)
  /\ UNCHANGED <<uses, rlmHost, sndCall, rcvCall, rdLeak, turns, waits, rlmMemErr>>

IsPowerOf2(n) == \E e \in 0 .. n : n = 2 ^ e

(* Fault: the mask of two hosts is kept when a third one registers. *)
BitMask_Kept(m, n) == IF IsPowerOf2(n) THEN n - 1 ELSE rlmCb[m].mask

(* The bitMask of a HASH realm with n hosts. *)
BitMask(m, n) == IF IsPowerOf2(n) THEN n - 1 ELSE 0

(* The realm and the host exist, the realm has no bucket of that name,     *)
(* not even one of a destroyed host, and has a free one.                   *)
CanReg(m, h) ==
  /\ RlmListed(m)
  /\ rlmHost[h].live
  /\ h \notin HostsOf(m)
  /\ RegCnt(m) < MaxRegHostCnt

(* rlylibInt_rlmRegHost.  The first host of a realm, and one that is named *)
(* primary, gets its bucket into the first word whatever the rule is.      *)
RegHost(m, h, priFlg) ==
  /\ Control
  /\ CanReg(m, h)
  /\ LET n == RegCnt(m) + 1
         hash == rlmCb[m].rule = "HASH"
     IN rlmCb' = [rlmCb EXCEPT
          ![m].reg  = Append(@, [host |-> h, gen |-> rlmHost[h].gen]),
          ![m].word = IF priFlg \/ n = 1 THEN n ELSE @,
          ![m].mask = IF hash THEN BitMask(m, n) ELSE @]
  /\ rlmHost' = [rlmHost EXCEPT ![h].regs = @ \cup {m}]
  /\ turns' = [turns EXCEPT ![m] = [g \in Hosts |-> 0]]
  /\ waits' = [waits EXCEPT ![m][h] = 0]
  /\ UNCHANGED <<uses, rlmLst, sndCall, rcvCall, rdLeak, rlmMemErr>>

(* rlylibInt_rlmDstryAll, one realm of rlmLnkLst: each bucket leaves the   *)
(* realm and its host.                                                     *)
DstryRlm ==
  /\ Control
  /\ rlmLst # << >>
  /\ LET m == Head(rlmLst)
         regs == rlmCb[m].reg
     IN IF \E i \in DOMAIN regs : Dangling(regs[i])
          THEN /\ rlmMemErr' = TRUE
               /\ UNCHANGED <<rlmLst, rlmCb, rlmHost, turns, waits>>
          ELSE /\ rlmLst' = Tail(rlmLst)
               /\ rlmCb' = [rlmCb EXCEPT ![m] = noRlm]
               /\ rlmHost' = [h \in Hosts |-> [rlmHost[h] EXCEPT
                    !.regs = IF h \in HostsOf(m) THEN @ \ {m} ELSE @]]
               /\ turns' = [turns EXCEPT ![m] = [h \in Hosts |-> 0]]
               /\ waits' = [waits EXCEPT ![m] = [h \in Hosts |-> 0]]
               /\ UNCHANGED rlmMemErr
  /\ UNCHANGED <<uses, sndCall, rcvCall, rdLeak>>

-----------------------------------------------------------------------------
(* What the host threads do meanwhile (RlyHost) *)

AddHost(h) ==
  /\ Control
  /\ ~rlmHost[h].live
  /\ FoldFunction(LAMBDA g, n : g + n, 0, [g \in Hosts |-> rlmHost[g].gen]) < MaxAdd
  /\ rlmHost' = [rlmHost EXCEPT ![h] = [noHost EXCEPT !.live = TRUE, !.gen = rlmHost[h].gen + 1]]
  /\ UNCHANGED <<uses, rlmLst, rlmCb, sndCall, rcvCall, rdLeak, turns, waits, rlmMemErr>>

(* The realms that the host is registered in are not told. *)
DstryHost(h) ==
  /\ Control
  /\ rlmHost[h].live
  /\ rlmHost' = [rlmHost EXCEPT ![h] = [noHost EXCEPT !.gen = rlmHost[h].gen]]
  /\ turns' = [m \in RlmNames |-> [turns[m] EXCEPT ![h] = 0]]
  /\ waits' = [m \in RlmNames |-> [waits[m] EXCEPT ![h] = 0]]
  /\ UNCHANGED <<uses, rlmLst, rlmCb, sndCall, rcvCall, rdLeak, rlmMemErr>>

SetStatus(h) ==
  /\ ~rlmMemErr
  /\ rlmHost[h].live
  /\ rlmHost' = [rlmHost EXCEPT ![h].open = ~@]
  /\ turns' = [m \in RlmNames |-> [turns[m] EXCEPT ![h] = 0]]
  /\ sndCall' = IF sndCall.pc = "idle" THEN sndCall ELSE [sndCall EXCEPT !.up = @ \ {h}]
  /\ UNCHANGED <<uses, rlmLst, rlmCb, rcvCall, rdLeak, waits, rlmMemErr>>

(* A message, an indication that one was dropped, or a message longer than *)
(* the buffer of the program that will receive it.                         *)
Deliver(h, kind) ==
  /\ ~rlmMemErr
  /\ "receive" \in uses
  /\ rlmHost[h].live
  /\ Len(rlmHost[h].rcv) < TqSize
  /\ rlmHost' = [rlmHost EXCEPT ![h].rcv = Append(@, kind)]
  /\ UNCHANGED <<uses, rlmLst, rlmCb, sndCall, rcvCall, rdLeak, turns, waits, rlmMemErr>>

-----------------------------------------------------------------------------
(* rlylibInt_rlmSndFixMsgToRlm *)

(* Where rlm_getActvHostByRule starts to look. A mask of 2^e - 1 keeps the *)
(* rest of a division by 2^e.                                              *)
Home(m, key) ==
  IF rlmCb[m].mask # 0 THEN (key % (rlmCb[m].mask + 1)) + 1
                       ELSE (key % RegCnt(m)) + 1

Start(m, key) ==
  IF rlmCb[m].rule = "HASH" THEN Home(m, key) ELSE rlmCb[m].word

OpenHosts(m) == {h \in HostsOf(m) : rlmHost[h].open}

(* PS looks at the primary once more before it goes round. *)
SndBegin(m, key) ==
  /\ ~rlmMemErr
  /\ "send" \in uses
  /\ sndCall.pc = "idle"
  /\ RlmListed(m)
  /\ rlmCb[m].rule # "DHT"
  /\ RegCnt(m) > 0
  /\ sndCall' = [pc |-> "look", rlm |-> m, start |-> Start(m, key), at |-> Start(m, key),
                 left |-> RegCnt(m) + (IF rlmCb[m].rule = "PS" THEN 1 ELSE 0),
                 up |-> OpenHosts(m), to |-> 0]
  /\ UNCHANGED <<uses, rlmLst, rlmCb, rlmHost, rcvCall, rdLeak, turns, waits, rlmMemErr>>

(* The bitMask of a HASH realm with no host was never set: the send finds  *)
(* no host, or divides by zero.                                            *)
SndEmptyHash(m) ==
  /\ ~rlmMemErr
  /\ "send" \in uses
  /\ sndCall.pc = "idle"
  /\ RlmListed(m)
  /\ rlmCb[m].rule = "HASH"
  /\ RegCnt(m) = 0
  /\ rlmMemErr' = TRUE
  /\ UNCHANGED <<uses, rlmLst, rlmCb, rlmHost, sndCall, rcvCall, rdLeak, turns, waits>>

Bucket(call) == rlmCb[call.rlm].reg[call.at]

(* The host at hand is not open: the next one. *)
SndNext ==
  /\ ~rlmMemErr
  /\ sndCall.pc = "look"
  /\ ~Dangling(Bucket(sndCall))
  /\ ~rlmHost[Bucket(sndCall).host].open
  /\ LET again == rlmCb[sndCall.rlm].rule = "PS" /\ sndCall.left = RegCnt(sndCall.rlm) + 1
     IN sndCall' = [sndCall EXCEPT
          !.left = @ - 1,
          !.at = IF again THEN @ ELSE After(sndCall.rlm, @),
          !.pc = IF sndCall.left = 1 THEN "done" ELSE "look"]
  /\ UNCHANGED <<uses, rlmLst, rlmCb, rlmHost, rcvCall, rdLeak, turns, waits, rlmMemErr>>

NextWord(m, i) == IF rlmCb[m].rule = "RR" THEN After(m, i) ELSE rlmCb[m].word

(* The host at hand is open: the message is for it, and is freed when its  *)
(* queue is full, which changes nothing here (RlyHost has the queues).     *)
SndRoute ==
  /\ ~rlmMemErr
  /\ sndCall.pc = "look"
  /\ ~Dangling(Bucket(sndCall))
  /\ rlmHost[Bucket(sndCall).host].open
  /\ LET m == sndCall.rlm
         h == Bucket(sndCall).host
     IN /\ rlmCb' = [rlmCb EXCEPT ![m].word = NextWord(m, sndCall.at)]
        /\ turns' = [turns EXCEPT ![m] = [g \in Hosts |->
             IF g = h \/ ~rlmHost[g].open \/ rlmCb[m].rule # "RR" \/ g \notin HostsOf(m)
               THEN 0 ELSE turns[m][g] + 1]]
  /\ sndCall' = [sndCall EXCEPT !.pc = "done", !.to = sndCall.at]
  /\ UNCHANGED <<uses, rlmLst, rlmHost, rcvCall, rdLeak, waits, rlmMemErr>>

SndReturn ==
  /\ ~rlmMemErr
  /\ sndCall.pc = "done"
  /\ sndCall' = noCall
  /\ UNCHANGED <<uses, rlmLst, rlmCb, rlmHost, rcvCall, rdLeak, turns, waits, rlmMemErr>>

(* The bucket at hand holds the control block of a destroyed host. *)
FollowDangling(call) ==
  /\ ~rlmMemErr
  /\ call.pc = "look"
  /\ Dangling(Bucket(call))
  /\ rlmMemErr' = TRUE
  /\ UNCHANGED <<uses, rlmLst, rlmCb, rlmHost, sndCall, rcvCall, rdLeak, turns, waits>>

-----------------------------------------------------------------------------
(* rlylibInt_rlmRcvFixMsgFromRlm *)

Waiting(m) == {h \in HostsOf(m) : rlmHost[h].rcv # << >>}

RcvBegin(m) ==
  /\ ~rlmMemErr /\ ~rdLeak
  /\ "receive" \in uses
  /\ rcvCall.pc = "idle"
  /\ RlmListed(m)
  /\ RegCnt(m) > 0
  /\ rcvCall' = [pc |-> "look", rlm |-> m, at |-> rlmCb[m].nxtRcv, left |-> MaxRegHostCnt,
                 had |-> Waiting(m), res |-> "none"]
  /\ UNCHANGED <<uses, rlmLst, rlmCb, rlmHost, sndCall, rdLeak, turns, waits, rlmMemErr>>

(* A realm with no host: the call returns and leaves the mutex locked. *)
RcvEmptyRlm(m) ==
  /\ ~rlmMemErr /\ ~rdLeak
  /\ "receive" \in uses
  /\ rcvCall.pc = "idle"
  /\ RlmListed(m)
  /\ RegCnt(m) = 0
  /\ rdLeak' = TRUE
  /\ UNCHANGED <<uses, rlmLst, rlmCb, rlmHost, sndCall, rcvCall, turns, waits, rlmMemErr>>

RcvNext ==
  /\ ~rlmMemErr
  /\ rcvCall.pc = "look"
  /\ ~Dangling(Bucket(rcvCall))
  /\ rlmHost[Bucket(rcvCall).host].rcv = << >>
  /\ rcvCall' = [rcvCall EXCEPT
       !.left = @ - 1,
       !.at = After(rcvCall.rlm, @),
       !.pc = IF rcvCall.left = 1 THEN "done" ELSE "look"]
  /\ UNCHANGED <<uses, rlmLst, rlmCb, rlmHost, sndCall, rdLeak, turns, waits, rlmMemErr>>

(* Fault: the place is kept for the next receive. *)
NextRcv_Stay(m, i) == i

NextRcv(m, i) == After(m, i)

(* A message, or the indication of a drop: both return it. *)
RcvTake ==
  /\ ~rlmMemErr
  /\ rcvCall.pc = "look"
  /\ ~Dangling(Bucket(rcvCall))
  /\ LET m == rcvCall.rlm
         h == Bucket(rcvCall).host
         q == rlmHost[h].rcv
     IN /\ q # << >>
        /\ Head(q) # "big"
        /\ rlmHost' = [rlmHost EXCEPT ![h].rcv = Tail(@)]
        /\ rlmCb' = [rlmCb EXCEPT ![m].nxtRcv = NextRcv(m, rcvCall.at)]
        /\ waits' = [k \in RlmNames |-> [g \in Hosts |->
             IF g = h \/ rlmHost[g].rcv = << >> THEN 0
             ELSE IF k = m /\ g \in HostsOf(m) THEN waits[k][g] + 1 ELSE waits[k][g]]]
  /\ rcvCall' = [rcvCall EXCEPT !.pc = "done", !.res = "message"]
  /\ UNCHANGED <<uses, rlmLst, sndCall, rdLeak, turns, rlmMemErr>>

(* The buffer of the caller is too small: the message is gone. *)
RcvTooSmall ==
  /\ ~rlmMemErr
  /\ rcvCall.pc = "look"
  /\ ~Dangling(Bucket(rcvCall))
  /\ LET h == Bucket(rcvCall).host
     IN /\ rlmHost[h].rcv # << >>
        /\ Head(rlmHost[h].rcv) = "big"
        /\ rlmHost' = [rlmHost EXCEPT ![h].rcv = Tail(@)]
        /\ waits' = [k \in RlmNames |-> [waits[k] EXCEPT ![h] = 0]]
  /\ rcvCall' = [rcvCall EXCEPT !.pc = "done", !.res = "error"]
  /\ UNCHANGED <<uses, rlmLst, rlmCb, sndCall, rdLeak, turns, rlmMemErr>>

RcvReturn ==
  /\ ~rlmMemErr
  /\ rcvCall.pc = "done"
  /\ rcvCall' = noCall
  /\ UNCHANGED <<uses, rlmLst, rlmCb, rlmHost, sndCall, rdLeak, turns, waits, rlmMemErr>>

-----------------------------------------------------------------------------
RlmNext ==
  \/ \E m \in RlmNames :
       \/ \E rule \in RlmRules : AddRlm(m, rule)
       \/ \E h \in Hosts, priFlg \in BOOLEAN : RegHost(m, h, priFlg)
       \/ \E key \in RlmKeys : SndBegin(m, key)
       \/ SndEmptyHash(m) \/ RcvBegin(m) \/ RcvEmptyRlm(m)
  \/ \E h \in Hosts :
       \/ AddHost(h) \/ DstryHost(h) \/ SetStatus(h)
       \/ \E kind \in {"data", "big"} : Deliver(h, kind)
  \/ DstryRlm
  \/ SndNext \/ SndRoute \/ SndReturn \/ FollowDangling(sndCall)
  \/ RcvNext \/ RcvTake \/ RcvTooSmall \/ RcvReturn \/ FollowDangling(rcvCall)

RlmSpec == RlmInit /\ [][RlmNext]_rlmVars

-----------------------------------------------------------------------------
(* Properties *)

(* How far bucket i is from bucket s, going round. *)
Distance(m, s, i) == (i + RegCnt(m) - s) % RegCnt(m)

(* A send goes to the first host in the order of the rule that was open    *)
(* during the whole call, or to one before it that it met open: the next   *)
(* one in turn, the primary, the home of the key.  It finds none only when *)
(* no registered host was open throughout.                                 *)
RoutedByRule ==
  sndCall.pc = "done" =>
    \A i \in DOMAIN rlmCb[sndCall.rlm].reg :
      rlmCb[sndCall.rlm].reg[i].host \in sndCall.up =>
        /\ sndCall.to # 0
        /\ Distance(sndCall.rlm, sndCall.start, sndCall.to)
             =< Distance(sndCall.rlm, sndCall.start, i)

(* In a round-robin realm a host that stays open is passed over by fewer   *)
(* messages than the realm has hosts, whatever the other hosts do.         *)
TurnComes == \A m \in RlmNames : \A h \in HostsOf(m) : turns[m][h] < RegCnt(m)

(* The keys of a HASH realm are spread over all its hosts: every bucket is *)
(* the home of a key, and no key has a home that is not a bucket.          *)
Spread ==
  \A m \in RlmNames : rlmCb[m].rule = "HASH" /\ RegCnt(m) > 0 =>
    {Home(m, key) : key \in 0 .. RegCnt(m) - 1} = 1 .. RegCnt(m)

(* A host whose messages wait is passed over by fewer receives of a realm  *)
(* than the realm has hosts, and a receive that returns nothing met no     *)
(* message that waited for the whole call.                                 *)
MessageComes ==
  /\ \A m \in RlmNames : \A h \in HostsOf(m) : waits[m][h] < RegCnt(m)
  /\ rcvCall.pc = "done" /\ rcvCall.res = "none" =>
       \A h \in rcvCall.had : rlmHost[h].rcv = << >>

(* The realms and their hosts know of each other: a bucket of a host that  *)
(* is there stands for the realm in the host's list, at most one bucket    *)
(* per name, and the places the rules keep are buckets.                    *)
BucketsAgree ==
  \A m \in RlmNames :
    /\ RlmListed(m) <=> rlmCb[m].rule # "none"
    /\ \A i, j \in DOMAIN rlmCb[m].reg :
         rlmCb[m].reg[i].host = rlmCb[m].reg[j].host => i = j
    /\ \A h \in Hosts : rlmHost[h].live =>
         (m \in rlmHost[h].regs <=>
            \E i \in DOMAIN rlmCb[m].reg :
              rlmCb[m].reg[i] = [host |-> h, gen |-> rlmHost[h].gen])
    /\ RegCnt(m) > 0 =>
         rlmCb[m].word \in DOMAIN rlmCb[m].reg /\ rlmCb[m].nxtRcv \in DOMAIN rlmCb[m].reg

(* Sends follow the rule of their realm and share out the work. *)
RlmSends == RoutedByRule /\ TurnComes /\ Spread

(* No message waits unseen, and realms and hosts agree on who is in what. *)
RlmReceives == MessageComes /\ BucketsAgree
=============================================================================
