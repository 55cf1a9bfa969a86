----------------------------- MODULE TqChannel -----------------------------
(***************************************************************************)
(* What a thread queue of thrlib promises its clients: a FIFO channel that *)
(* holds at most Cap elements.  A push into a full channel either is       *)
(* refused, which leaves the channel alone, or breaks it; a broken channel *)
(* promises nothing any more.                                              *)
(***************************************************************************)
EXTENDS Naturals, Sequences

CONSTANT Cap  \* elements the channel holds

VARIABLES
  chan,     \* the accepted elements not delivered yet, oldest first
  sent,     \* how many were accepted
  rcvd,     \* how many were delivered
  lastRcv,  \* the one delivered last
  broken    \* an element was accepted by a full channel

vars == <<chan, sent, rcvd, lastRcv, broken>>

Init ==
  /\ chan = << >>
  /\ sent = 0
  /\ rcvd = 0
  /\ lastRcv = 0
  /\ broken = FALSE

(* An element is accepted; elements are numbered in that order. *)
Send ==
  /\ ~broken
  /\ Len(chan) < Cap
  /\ chan' = Append(chan, sent + 1)
  /\ sent' = sent + 1
  /\ UNCHANGED <<rcvd, lastRcv, broken>>

Deliver ==
  /\ ~broken
  /\ chan # << >>
  /\ lastRcv' = Head(chan)
  /\ chan' = Tail(chan)
  /\ rcvd' = rcvd + 1
  /\ UNCHANGED <<sent, broken>>

Break ==
  /\ ~broken
  /\ Len(chan) = Cap
  /\ broken' = TRUE

Broken == broken /\ broken'

Next == Send \/ Deliver \/ Break \/ Broken

Spec == Init /\ [][Next]_vars
=============================================================================
