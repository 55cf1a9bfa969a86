----------------------------- MODULE MCRlyHost -----------------------------
(* The instance: three control blocks are as many as a program makes.       *)
(* The last two programs have two calls in the library at a time, one that  *)
(* resets the round late, and hosts that are freed or sends that go round.  *)
EXTENDS RlyHost

CONSTANTS h1, h2, k1, t1, t2, a1, a2, acpt

Prog(calls, callCnt, initCnt, tickCnt, waitFlg) ==
  [uses |-> calls, call |-> callCnt, init |-> initCnt, tick |-> tickCnt, wait |-> waitFlg]

MCPrograms ==
  {Prog({op}, 1, 1, 1, waitFlg) : op \in {"rcvAny", "rcvHost"}, waitFlg \in BOOLEAN}
  \cup {Prog({"add", "del"}, 2, 1, 0, FALSE), Prog({"add", "del"}, 1, 1, 1, FALSE),
        Prog({"setPri", "sndPri"}, 2, 1, 1, FALSE),
        Prog({"addConn", "sndHost"}, 2, 1, 1, FALSE), Prog({"add", "addConn"}, 2, 1, 0, FALSE),
        Prog({"sndAny"}, 1, 2, 1, FALSE), Prog({"sndAny"}, 4, 2, 0, FALSE)}
=============================================================================
