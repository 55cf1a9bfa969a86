---------------------------- MODULE MCRsvServer -----------------------------
(* The HTTP server and the rules it looks requests up in, each checked by  *)
(* itself: `part' says which one a behaviour is of. "srv": two callers and *)
(* two requests; "rrl": a program that registers rules and the requests it *)
(* gets, one after the other: RulesStable says why a request does not see  *)
(* the rules change.                                                       *)
EXTENDS RsvServer, Rrl, TLC

VARIABLE part

MCvars == <<vars, rrlVars, part>>

MCInit == Init /\ RrlInit /\ part \in {"srv", "rrl"}

MCNext ==
  /\ \/ part = "srv" /\ Next /\ UNCHANGED rrlVars
     \/ part = "rrl" /\ RrlNext /\ UNCHANGED vars
  /\ UNCHANGED part

MCSpec == MCInit /\ [][MCNext]_MCvars /\ (part = "srv" => Fairness)

-----------------------------------------------------------------------------
(* The values of the constants *)

(* Small letters and capitals, and one name that begins another.           *)
MCUpper == [n \in Names |-> CASE n = "id" -> "ID" [] n = "a" -> "A" [] OTHER -> n]
MCBegins == {<<n, n>> : n \in Names} \cup {<<"id", "idx">>}

Fix(n) == [kind |-> "fix", name |-> n]
Dyn(n) == [kind |-> "dyn", name |-> n]
Seg(kind) == [kind |-> kind, name |-> "a"]
Parm(kind, n, max) == [kind |-> kind, name |-> n, max |-> max]
Rule(path, mthod, query) == [path |-> path, mthod |-> mthod, query |-> query]
MCRules == {
  Rule(<<Fix("a")>>, "GET", <<Parm("opt", "id", 1)>>),
  Rule(<<Fix("a"), Dyn("id")>>, "GET", << >>),
  Rule(<<Fix("a"), Dyn("idx")>>, "GET", <<Parm("mand", "id", 2), Parm("opt", "a", 1)>>),
  Rule(<<Fix("a"), Fix("ID")>>, "PUT", <<Parm("opt", "a", 1), Parm("bad", "a", 1)>>),
  Rule(<<Fix("a"), Fix("b")>>, "GET", <<Parm("mand", "id", 1), Parm("mand", "ID", 1)>>),
  Rule(<<Fix("a"), Dyn("id"), Dyn("ID")>>, "GET", << >>),
  Rule(<<Fix("a"), Dyn("id"), Dyn("b")>>, "GET", <<Parm("opt", "id", 2)>>),
  Rule(<<Fix("a"), Seg("open")>>, "PUT", << >>),
  Rule(<<Fix("a"), Fix("b"), Seg("bad")>>, "GET", << >>),
  Rule(<<Fix("a"), [Seg("junk") EXCEPT !.name = "b"]>>, "GET", << >>),
  Rule(<<Dyn("id")>>, "GET", << >>),
  Rule(<<Seg("open")>>, "GET", << >>) }

MCRequests ==
  [path : {<<"a">>, <<"A">>, <<"b">>, <<"a", "id">>, <<"a", "b">>, <<"a", Empty>>, <<"a", "b", "a">>},
   mthod : {"GET", "PUT"},
   query : {<< >>} \cup {<<[name |-> "id", val |-> v]>> : v \in {"a", Empty}}
           \cup {<<[name |-> "ID", val |-> "a"], [name |-> n, val |-> "b"]>> : n \in {"id", "a"}}]
=============================================================================
