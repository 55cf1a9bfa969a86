--------------------------------- MODULE Rrl ---------------------------------
(***************************************************************************)
(* The REST rules of rrllib (src/libsrc/rrllib): rules such as             *)
(*                                                                         *)
(*     /diameter/peer/{host}   PUT   {ip:3}{port} [tls]                    *)
(*                                                                         *)
(* are registered in a tree of paths, and a request is answered by the     *)
(* rule that its path and method lead to, with a document of the values    *)
(* of the variables of the path and of its query.                          *)
(*                                                                         *)
(* A path of the tree is the sequence of its keys, the names in upper      *)
(* case.  What follows a path is a list of fixed names or one variable.    *)
(* The characters are abstracted to the kinds of segments and parameters   *)
(* that the parser tells apart:                                            *)
(*   "fix"  name       "dyn"   {name}       "bad"  a character not allowed *)
(*   "open" {name with no }                 "junk" {name} and more         *)
(***************************************************************************)
EXTENDS Integers, FiniteSets, SequencesExt

CONSTANTS
  Names,     \* names of paths, variables and parameters
  Upper,     \* the upper case of each name
  Begins,    \* <<a, b>>: the name a is the beginning of the name b
  Rules,     \* [path |-> segments, mthod, query |-> parameters]
  Requests,  \* [path |-> names, mthod, query |-> keys and values]
  Empty,     \* the empty value
  MaxRule    \* bound: rules registered

ASSUME RrlAssumption == Upper \in [Names -> Names] /\ Begins \subseteq Names \X Names

VARIABLES
  tree,      \* for each path: the type of the next list, its name, its methods
  kept,      \* history: the rules that have a method in the tree
  offered,   \* rules offered so far
  resDoc,    \* the document of the last request
  crash      \* history: a null pointer was followed

rrlVars == <<tree, kept, offered, resDoc, crash>>

Root == << >>
noNode == [next |-> "none", name |-> Empty, mthods |-> << >>]
noDoc == [arg |-> 0, args |-> << >>, mandCnt |-> 0, cur |-> 0, seen |-> << >>]
onlyRoot == (Root :> noNode)

(* rrllib_mainInit, with caseFlg FALSE as the server has it. *)
RrlInit ==
  /\ tree = onlyRoot
  /\ kept = << >>
  /\ offered = 0
  /\ resDoc = noDoc
  /\ crash = FALSE

-----------------------------------------------------------------------------
(* The tree of paths *)

Kid(n, name) == Append(n, Upper[name])
KidsOf(t, n) == {k \in DOMAIN t : Len(k) = Len(n) + 1 /\ Front(k) = n}

(* rrllib_pathFindFixPath: a name is looked up in a list of either type. *)
FindFix(t, n, name) == Kid(n, name) \in DOMAIN t

AddPath(t, n, name) == (Kid(n, name) :> [noNode EXCEPT !.name = name]) @@ t
SetNext(t, n, type) == [t EXCEPT ![n].next = type]

(* path_chkDupDynPathChk: a variable of this name is on the way to n. *)
DupDyn(t, n, name) ==
  \E i \in 1 .. Len(n) : t[SubSeq(n, 1, i - 1)].next = "dyn" /\ Upper[t[SubSeq(n, 1, i)].name] = Upper[name]

(* rrllib_pathChkDynPath: the list holds one variable, and the new name    *)
(* must be the beginning of its name.                                      *)
DynKid(t, n) == CHOOSE k \in KidsOf(t, n) : TRUE
ChkDyn(t, n, name) == t[n].next = "dyn" /\ <<name, t[DynKid(t, n)].name>> \in Begins

-----------------------------------------------------------------------------
(* rrllib_parseResCfg: the segments of a rule are followed in the tree, and *)
(* what is missing is added, until one of them ends the parsing.            *)

At(w, n) == [w EXCEPT !.at = n]
Ends(w, rslt) == [w EXCEPT !.rslt = rslt]
Grown(w, t, n) == [w EXCEPT !.tree = t, !.at = n]

(* A second rule that begins with a variable follows the null pointer. *)
DynSeg(w, name) ==
  LET t == w.tree
      n == w.at
  IN IF t[n].next = "none"
       THEN IF n # Root /\ DupDyn(t, n, name)
              THEN Ends(w, "failed")
              ELSE Grown(w, AddPath(SetNext(t, n, "dyn"), n, name), Kid(n, name))
     ELSE IF n = Root THEN Ends(w, "crash")
     ELSE IF ChkDyn(t, n, name) THEN At(w, DynKid(t, n))
     ELSE Ends(w, "failed")

(* Fault: a list of variables takes a fixed name too. *)
FixSeg_AnyList(w, name) ==
  LET n == w.at
      t == IF w.tree[n].next = "none" THEN SetNext(w.tree, n, "fix") ELSE w.tree
  IN IF FindFix(t, n, name) THEN Grown(w, t, Kid(n, name))
     ELSE Grown(w, AddPath(t, n, name), Kid(n, name))

FixSeg(w, name) ==
  LET n == w.at
      t == IF w.tree[n].next = "none" THEN SetNext(w.tree, n, "fix") ELSE w.tree
  IN IF FindFix(t, n, name) THEN Grown(w, t, Kid(n, name))
     ELSE IF t[n].next = "fix" THEN Grown(w, AddPath(t, n, name), Kid(n, name))
     ELSE Ends(w, "failed")

(* parse_resPathCfg.  An open brace is taken for the end of the path. *)
PathSeg(w, seg) ==
  IF w.rslt # "ok" THEN w ELSE
  CASE seg.kind = "bad" -> Ends(w, "failed")
    [] seg.kind = "open" -> Ends(w, "end")
    [] seg.kind = "fix" -> FixSeg(w, seg.name)
    [] seg.kind = "dyn" -> DynSeg(w, seg.name)
    [] seg.kind = "junk" -> LET v == DynSeg(w, seg.name)
                            IN IF v.rslt = "ok" THEN Ends(v, "failed") ELSE v

PathCfg(t, path) ==
  FoldLeft(PathSeg, [tree |-> t, at |-> Root, rslt |-> "ok"], path)

(* rrllib_queryFind, and rrllib_docFindArg: the position of a name. *)
PosOf(list, name) == SelectInSeq(list, LAMBDA e : Upper[e.name] = Upper[name])

(* parse_queryCfg: the parameters before one that cannot be added remain. *)
QueryCfg(query) ==
  LET stop == SelectInSeq([i \in 1 .. Len(query) |-> i], LAMBDA i :
                query[i].kind = "bad" \/ PosOf(SubSeq(query, 1, i - 1), query[i].name) # 0)
  IN IF stop = 0 THEN query ELSE SubSeq(query, 1, stop - 1)

(* rrllib_mthodAdd: methods are not compared with those already there. *)
NewMthod(rule, arg) ==
  LET query == QueryCfg(rule.query)
  IN [mthod |-> rule.mthod, arg |-> arg, query |-> query,
      mandCnt |-> Cardinality({i \in 1 .. Len(query) : query[i].kind = "mand"})]

Register(rule) ==
  /\ ~crash
  /\ offered < MaxRule
  /\ offered' = offered + 1
  /\ LET w == PathCfg(tree, rule.path)
         added == w.rslt \in {"ok", "end"} /\ w.at # Root
     IN /\ tree' = IF added THEN [w.tree EXCEPT ![w.at].mthods = Append(@, NewMthod(rule, offered + 1))]
                   ELSE w.tree
        /\ kept' = IF added THEN Append(kept, [rule |-> rule, arg |-> offered + 1, at |-> w.at]) ELSE kept
        /\ crash' = (w.rslt = "crash" \/ (w.rslt = "end" /\ w.at = Root))
  /\ UNCHANGED resDoc

-----------------------------------------------------------------------------
(* A request *)

refused == [arg |-> 0, args |-> << >>, mandCnt |-> 0, mthod |-> << >>]

(* rrllib_docAddArg and rrllib_docAddArgVal: an empty value is refused. *)
AddArg(d, name) == [d EXCEPT !.args = Append(@, [name |-> name, vals |-> << >>])]
AddVal(d, i, val) == [d EXCEPT !.args[i].vals = Append(@, val)]

(* parse_uri: one segment of the path. *)
UriSeg(w, seg) ==
  IF w.at = << "none" >> \/ tree[w.at].next = "none" THEN [w EXCEPT !.at = << "none" >>]
  ELSE IF tree[w.at].next = "dyn"
    THEN LET kid == DynKid(tree, w.at)
             name == tree[kid].name
         IN IF PosOf(w.resDoc.args, name) # 0 \/ seg = Empty
              THEN [w EXCEPT !.at = << "none" >>]
              ELSE [at |-> kid, resDoc |-> AddVal(AddArg(w.resDoc, name), Len(w.resDoc.args) + 1, seg)]
  ELSE IF seg # Empty /\ FindFix(tree, w.at, seg) THEN [w EXCEPT !.at = Kid(w.at, seg)]
  ELSE [w EXCEPT !.at = << "none" >>]

(* The first method of this kind at the end of the path. *)
ParseUri(req) ==
  LET w == FoldLeft(UriSeg, [at |-> Root, resDoc |-> refused], req.path)
      i == IF w.at = << "none" >> THEN 0
           ELSE SelectInSeq(tree[w.at].mthods, LAMBDA m : m.mthod = req.mthod)
  IN IF i = 0 THEN refused
     ELSE [w.resDoc EXCEPT !.arg = tree[w.at].mthods[i].arg, !.mthod = << tree[w.at].mthods[i] >>]

(* parse_kvpToDoc: a parameter with the name of a variable of the path     *)
(* gets the argument that this one has.                                    *)
KvpToDoc(d, kvp) ==
  IF d = refused THEN d
  ELSE LET q == PosOf(d.mthod[1].query, kvp.name)
           i == PosOf(d.args, kvp.name)
       IN IF q = 0 \/ kvp.val = Empty THEN refused
          ELSE IF i # 0
            THEN IF Len(d.args[i].vals) >= d.mthod[1].query[q].max THEN refused
                 ELSE AddVal(d, i, kvp.val)
          ELSE AddVal([AddArg(d, kvp.name) EXCEPT
                 !.mandCnt = IF d.mthod[1].query[q].kind = "mand" THEN @ + 1 ELSE @],
                 Len(d.args) + 1, kvp.val)

(* The first sequence of svr_ansCon: path, parameters, mandatory count. *)
AnsDoc(req) ==
  LET d == FoldLeft(KvpToDoc, ParseUri(req), req.query)
  IN IF d # refused /\ d.mandCnt = d.mthod[1].mandCnt THEN d ELSE refused

(* A request to a server without rules follows the null pointer. *)
Request(req) ==
  /\ ~crash
  /\ crash' = (tree[Root].next = "none")
  /\ LET d == AnsDoc(req)
     IN resDoc' = IF crash' THEN noDoc
                  ELSE [arg |-> d.arg, args |-> d.args, mandCnt |-> d.mandCnt, cur |-> 0, seen |-> << >>]
  /\ UNCHANGED <<tree, kept, offered>>

(* rrllib_docGetFirstArg and rrllib_docGetNxtArg: the handler walks through *)
(* the arguments, and begins anew after the last one.                       *)
FirstArg ==
  /\ ~crash /\ resDoc.args # << >>
  /\ resDoc' = [resDoc EXCEPT !.cur = 1, !.seen = <<1>>]
  /\ UNCHANGED <<tree, kept, offered, crash>>

NxtArg ==
  /\ ~crash /\ resDoc.args # << >>
  /\ resDoc' = [resDoc EXCEPT
       !.cur = IF @ = Len(resDoc.args) THEN 0 ELSE @ + 1,
       !.seen = IF resDoc.cur = Len(resDoc.args) THEN << >> ELSE Append(@, resDoc.cur + 1)]
  /\ UNCHANGED <<tree, kept, offered, crash>>

(* rrllib_mainDstry *)
DstryRules ==
  /\ ~crash
  /\ tree' = onlyRoot
  /\ kept' = << >>
  /\ UNCHANGED <<offered, resDoc, crash>>

RrlNext ==
  \/ \E rule \in Rules : Register(rule)
  \/ \E req \in Requests : Request(req)
  \/ FirstArg \/ NxtArg
  \/ DstryRules

RrlSpec == RrlInit /\ [][RrlNext]_rrlVars

-----------------------------------------------------------------------------
(* Properties *)

Segs(rule) ==
  LET open == SelectInSeq(rule.path, LAMBDA s : s.kind = "open")
  IN IF open = 0 THEN rule.path ELSE SubSeq(rule.path, 1, open - 1)

(* The text of a rule matches the path of a request. *)
Fits(rule, req) ==
  /\ rule.mthod = req.mthod
  /\ Len(Segs(rule)) = Len(req.path)
  /\ \A j \in 1 .. Len(req.path) :
       /\ req.path[j] # Empty
       /\ Segs(rule)[j].kind = "dyn" \/ Upper[Segs(rule)[j].name] = Upper[req.path[j]]

(* A fixed name of the rule was taken for a variable of the same name. *)
Aliased(k) ==
  \E j \in 1 .. Len(k.at) : tree[SubSeq(k.at, 1, j - 1)].next = "dyn" /\ Segs(k.rule)[j].kind = "fix"

Given(req, name) == {j \in 1 .. Len(req.query) : Upper[req.query[j].name] = Upper[name]}
Vars(n) == {Upper[tree[SubSeq(n, 1, j)].name] : j \in {i \in 1 .. Len(n) : tree[SubSeq(n, 1, i - 1)].next = "dyn"}}

(* The query of a request has what the parameters ask for. *)
Asked(query, req) ==
  /\ \A j \in 1 .. Len(req.query) : PosOf(query, req.query[j].name) # 0 /\ req.query[j].val # Empty
  /\ \A i \in 1 .. Len(query) :
       /\ query[i].kind = "mand" => Given(req, query[i].name) # {}
       /\ Cardinality(Given(req, query[i].name)) =< query[i].max

(* The first of the rules that were kept for this path and method. *)
IsFirst(i) ==
  \A h \in 1 .. i - 1 : kept[h].at = kept[i].at => kept[h].rule.mthod # kept[i].rule.mthod

(* Every rule that was accepted answers the requests that its text         *)
(* describes, unless another one was first for the path and the method, or *)
(* a parameter has the name of a variable of the path.                     *)
AcceptedAnswers ==
  \A i \in 1 .. Len(kept), req \in Requests :
    LET query == QueryCfg(kept[i].rule.query)
    IN /\ IsFirst(i) /\ Fits(kept[i].rule, req) /\ Asked(query, req)
       /\ \A j \in 1 .. Len(query) : Upper[query[j].name] \notin Vars(kept[i].at)
       => AnsDoc(req).arg = kept[i].arg

(* And a request is answered only by the first rule for a path and method  *)
(* that the text of this rule describes, with the parameters that it asks  *)
(* for, in a document that names every argument once.                      *)
AnswersAccepted ==
  \A req \in Requests :
    LET d == AnsDoc(req)
    IN d # refused =>
         /\ \E i \in 1 .. Len(kept) :
              /\ kept[i].arg = d.arg
              /\ IsFirst(i)
              /\ Fits(kept[i].rule, req) \/ Aliased(kept[i])
              /\ Asked(QueryCfg(kept[i].rule.query), req)
         /\ \A a, b \in 1 .. Len(d.args) : Upper[d.args[a].name] = Upper[d.args[b].name] => a = b

(* A handler that walks through the arguments of a document sees each one, *)
(* in order.                                                               *)
ArgsWalked == Len(resDoc.seen) = resDoc.cur /\ \A j \in 1 .. Len(resDoc.seen) : resDoc.seen[j] = j

(* As long as no rule followed the null pointer of line 520 of             *)
(* rrllib_parse.c, requests are routed by the texts of the rules.          *)
RulesRouted == ~crash => AcceptedAnswers /\ AnswersAccepted /\ ArgsWalked
=============================================================================
