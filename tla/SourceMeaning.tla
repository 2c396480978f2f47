------------------------------- MODULE SourceMeaning -------------------------------
(***************************************************************************)
(* What a function means: SrcRun evaluates it as the language says,        *)
(* operands from left to right, arithmetic that traps on overflow, indices *)
(* that trap outside the array.  The native path is held against it.       *)
(***************************************************************************)
EXTENDS LirForm, Functions

-----------------------------------------------------------------------------
(* The meaning of the source *)

SrcStart(u, args) ==
  [env |-> [x \in {u.params[i].x : i \in DOMAIN u.params} |-> args[CHOOSE i \in DOMAIN u.params : u.params[i].x = x]],
   out |-> <<>>, v |-> 0, vs |-> <<>>, st |-> "run", t |-> "", result |-> u.result]

Runs(s) == s.st = "run"
Trap(s) == [s EXCEPT !.st = "trap"]
SrcBind(s, x, v) == [s EXCEPT !.env = (x :> v) @@ @]

RECURSIVE SrcEval(_, _)
RECURSIVE SrcBlock(_, _)

SrcOperands(es, s) ==
  FoldLeft(LAMBDA q, e : IF Runs(q) THEN LET r == SrcEval(e, q) IN [r EXCEPT !.vs = Append(q.vs, r.v)] ELSE q, [s EXCEPT !.vs = <<>>], es)

\* The arm of the value, its names bound; arms are [pat, ...].
ArmOf(arms, v) ==
  LET Takes(p) == CASE p.k = "variant" -> v.m = p.member
                    [] p.k = "literal" -> v = p.n
                    [] p.k = "wild" -> TRUE
  IN CHOOSE i \in DOMAIN arms : Takes(arms[i].pat) /\ \A j \in 1 .. i - 1 : ~Takes(arms[j].pat)
BindArm(s, p, v) ==
  IF p.binds = <<>> THEN s
  ELSE [s EXCEPT !.env = [x \in Range(p.binds) |-> v.f[CHOOSE i \in DOMAIN p.binds : p.binds[i] = x]] @@ @]

\* x? leaves with the failure, x! traps on it.
SrcFailure(e, s) ==
  LET q == SrcEval(e.e, s) IN
  CASE ~Runs(q) -> q
    [] Runs(q) /\ q.v.m = 1 -> [q EXCEPT !.v = q.v.f[1]]
    [] Runs(q) /\ q.v.m = 2 /\ e.op = "!" -> Trap(q)
    [] Runs(q) /\ q.v.m = 2 /\ e.op = "?" /\ e.else /= <<>> ->
         LET r == SrcEval(e.else[1], q) IN IF Runs(r) THEN [r EXCEPT !.v = Error(r.v), !.st = "return"] ELSE r
    [] Runs(q) /\ q.v.m = 2 /\ e.op = "?" /\ e.else = <<>> ->
         IF ResultType(e.t) THEN [q EXCEPT !.v = q.v.f[1], !.st = "raise", !.t = ErrorType(e.t)]
         ELSE [q EXCEPT !.st = "return"]

SrcEval(e, s) ==
  CASE e.k \in {"int", "bool"} -> [s EXCEPT !.v = e.n]
    [] e.k = "name" -> [s EXCEPT !.v = s.env[e.x]]
    [] e.k = "bin" ->
         LET q == SrcOperands(<<e.l, e.r>>, s)
             v == Operate(e.op, q.vs[1], q.vs[2])
         IN IF ~Runs(q) THEN q ELSE IF Overflows(e.op, e.t, v) THEN Trap(q) ELSE [q EXCEPT !.v = v]
    [] e.k = "call" ->
         LET q == SrcOperands(e.args, s) IN
         IF ~Runs(q) THEN q ELSE [q EXCEPT !.v = Callee(e.f, q.vs, q.out), !.out = Append(@, <<e.f, q.vs>>)]
    [] e.k = "index" ->
         LET q == SrcEval(e.i, s) IN
         IF ~Runs(q) THEN q ELSE IF q.v \in 0 .. Len(q.env[e.x]) - 1 THEN [q EXCEPT !.v = q.env[e.x][q.v + 1]] ELSE Trap(q)
    [] e.k = "logic" ->
         LET q == SrcEval(e.l, s) IN IF Runs(q) /\ q.v = AsBool(e.op = "and") THEN SrcEval(e.r, q) ELSE q
    [] e.k = "ife" -> LET q == SrcEval(e.c, s) IN IF ~Runs(q) THEN q ELSE SrcEval(IF q.v = 1 THEN e.then ELSE e.else, q)
    [] e.k = "match" ->
         LET q == SrcEval(e.e, s)
             arm == e.arms[ArmOf(e.arms, q.v)]
         IN IF Runs(q) THEN SrcEval(arm.e, BindArm(q, arm.pat, q.v)) ELSE q
    [] e.k = "fail" -> SrcFailure(e, s)
    [] e.k = "variant" ->
         LET q == SrcOperands(e.args, s) IN
         IF ~Runs(q) THEN q ELSE [q EXCEPT !.v = [m |-> e.member, f |-> q.vs]]

\* while (c) { body } bounded(n): else runs when n rounds did not end it.
RECURSIVE SrcWhile(_, _, _)
SrcWhile(t, n, s) ==
  LET c == SrcEval(t.c, s)
      round == SrcBlock(t.body, c)
  IN CASE ~Runs(c) \/ c.v = 0 -> c
       [] Runs(c) /\ c.v = 1 /\ n = t.bound -> SrcBlock(t.else, c)
       [] OTHER -> IF Runs(round) THEN SrcWhile(t, n + 1, round) ELSE round
SrcForeach(t, s) ==
  LET lo == SrcEval(t.lo, s)
      hi == SrcEval(t.hi, lo)
      Round(q, i) == IF Runs(q) THEN SrcBlock(t.body, SrcBind(q, t.x, i)) ELSE q
  IN CASE ~Runs(lo) -> lo
       [] Runs(lo) /\ (~Runs(hi) \/ lo.v >= hi.v) -> IF Runs(hi) /\ lo.v > hi.v THEN Trap(hi) ELSE hi
       [] OTHER -> FoldLeft(Round, hi, [n \in 1 .. hi.v - lo.v |-> lo.v + n - 1])
SrcTry(t, s) ==
  LET q == SrcBlock(t.body, s)
      arm == t.except[CHOOSE a \in DOMAIN t.except : t.except[a].error = q.t]
  IN IF q.st = "raise" /\ \E a \in DOMAIN t.except : t.except[a].error = q.t
     THEN SrcBlock(arm.body, SrcBind([q EXCEPT !.st = "run"], arm.bind, q.v))
     ELSE q

SrcStatement(t, s) ==
  CASE t.k \in {"decl", "assign"} -> LET q == SrcEval(t.e, s) IN IF Runs(q) THEN SrcBind(q, t.x, q.v) ELSE q
    [] t.k = "store" ->
         LET i == SrcEval(t.i, s)
             q == SrcEval(t.e, i)
         IN CASE ~Runs(i) -> i
              [] Runs(i) /\ i.v \notin 0 .. Len(i.env[t.x]) - 1 -> Trap(i)
              [] OTHER -> IF Runs(q) THEN [q EXCEPT !.env[t.x][i.v + 1] = q.v] ELSE q
    [] t.k = "do" -> SrcEval(t.e, s)
    [] t.k = "return" -> LET q == SrcEval(t.e, s) IN IF Runs(q) THEN [q EXCEPT !.st = "return"] ELSE q
    [] t.k = "if" -> LET q == SrcEval(t.c, s) IN IF ~Runs(q) THEN q ELSE SrcBlock(IF q.v = 1 THEN t.then ELSE t.else, q)
    [] t.k = "while" -> SrcWhile(t, 0, s)
    [] t.k = "foreach" -> SrcForeach(t, s)
    [] t.k = "match" ->
         LET q == SrcEval(t.e, s)
             arm == t.arms[ArmOf(t.arms, q.v)]
         IN IF Runs(q) THEN SrcBlock(arm.body, BindArm(q, arm.pat, q.v)) ELSE q
    [] t.k = "try" -> SrcTry(t, s)
    [] t.k = "block" -> SrcBlock(t.body, s)

SrcBlock(body, s) == FoldLeft(LAMBDA q, t : IF Runs(q) THEN SrcStatement(t, q) ELSE q, s, body)

\* How the function ends: a failure nothing catches is its result.
SrcRun(u, args) ==
  LET q == SrcBlock(u.body, SrcStart(u, args)) IN
  [end |-> IF q.st = "trap" THEN "trap" ELSE "return", out |-> q.out,
   result |-> CASE q.st = "trap" -> 0 [] q.st = "raise" -> Error(q.v) [] OTHER -> q.v]
=============================================================================
