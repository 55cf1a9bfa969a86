----------------------------- MODULE TmrService -----------------------------
(***************************************************************************)
(* What a timer table promises its clients.  The service advances one tick *)
(* at a time; a timer is set for a tick to come, it fires at that tick and *)
(* no other, and the service does not leave a tick before every timer due  *)
(* at it has fired.  A broken service promises nothing any more.           *)
(***************************************************************************)
EXTENDS Integers

CONSTANTS
  Nodes,  \* the timers
  None    \* no timer

VARIABLES
  now,    \* the tick the service is at
  due,    \* the tick each timer is set for, Unset when it is not
  firing, \* the timer whose event is being executed
  broken

vars == <<now, due, firing, broken>>

Unset == -1

Init ==
  /\ now = 0
  /\ due = [n \in Nodes |-> Unset]
  /\ firing = None
  /\ broken = FALSE

(* Started, or put off: a timer is set for a tick to come. *)
Set(n) ==
  /\ ~broken
  /\ due'[n] > now
  /\ due' = [due EXCEPT ![n] = due'[n]]
  /\ UNCHANGED <<now, firing, broken>>

Cancel(n) ==
  /\ ~broken
  /\ due[n] # Unset
  /\ due' = [due EXCEPT ![n] = Unset]
  /\ UNCHANGED <<now, firing, broken>>

Fire(n) ==
  /\ ~broken
  /\ firing = None
  /\ due[n] = now
  /\ due' = [due EXCEPT ![n] = Unset]
  /\ firing' = n
  /\ UNCHANGED <<now, broken>>

Fired ==
  /\ ~broken
  /\ firing # None
  /\ firing' = None
  /\ UNCHANGED <<now, due, broken>>

Advance ==
  /\ ~broken
  /\ firing = None
  /\ \A n \in Nodes : due[n] # now
  /\ now' = now + 1
  /\ UNCHANGED <<due, firing, broken>>

Break == ~broken /\ broken'

Broken == broken /\ broken'

Next ==
  \/ \E n \in Nodes : Set(n) \/ Cancel(n) \/ Fire(n)
  \/ Fired \/ Advance \/ Break \/ Broken

Spec == Init /\ [][Next]_vars
=============================================================================
