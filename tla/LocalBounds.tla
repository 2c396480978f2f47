----------------------------- MODULE LocalBounds -----------------------------
(***************************************************************************)
(* The compiler's local bounds analysis: an abstract interpretation of a   *)
(* validated function body that decides, for each span access, whether its *)
(* run-time guard may be left out.  This is its walk over expressions,     *)
(* statements, functions and the private calls between them.               *)
(***************************************************************************)
EXTENDS LocalValues, Sequences, FiniteSets, TLC

-----------------------------------------------------------------------------
(* Reading a value without visiting accesses: conditions and constants *)

RECURSIVE LocalValueOf(_, _, _), ConstantBool(_, _, _)

LocalValueOf(exposed, e, s) ==
  CASE e.k = "int" -> LocalInteger(e.n)
    [] e.k = "name" -> LocalGet(exposed, s, e.x)
    [] e.k = "neg" -> LocalArithmetic("-", LocalInteger(0), LocalValueOf(exposed, e.a, s))
    [] e.k = "bin" -> LocalArithmetic(e.op, LocalValueOf(exposed, e.l, s), LocalValueOf(exposed, e.r, s))
    [] e.k = "helper" -> ConstantCall(LocalValueOf(exposed, e.a, s))
    [] e.k = "ife" /\ ConstantBool(exposed, e.c, s) /= {} ->
         LocalValueOf(exposed, IF TRUE \in ConstantBool(exposed, e.c, s) THEN e.t ELSE e.f, s)
    [] OTHER -> NoValue

\* The truth of a comparison of two constants: a singleton, or empty when unknown.
ConstantBool(exposed, e, s) ==
  IF e.k /= "cmp" THEN {} ELSE
  LET x == LocalValueOf(exposed, e.l, s)
      y == LocalValueOf(exposed, e.r, s)
  IN IF x.known /\ y.known /\ x.lo = x.hi /\ y.lo = y.hi THEN {Compare(e.op, x.lo, y.lo)} ELSE {}

\* What the truth of a condition says of a named int or of Len(view).
RECURSIVE LocalAssume(_, _, _, _)
LocalAssume(exposed, e, truth, s) ==
  IF e.k = "not" THEN LocalAssume(exposed, e.a, ~truth, s)
  ELSE IF (e.k = "and" /\ truth) \/ (e.k = "or" /\ ~truth)
  THEN LocalAssume(exposed, e.r, truth, LocalAssume(exposed, e.l, truth, s))
  ELSE IF e.k /= "cmp" THEN s ELSE
  LocalCompared(exposed, e.l, IF truth THEN e.op ELSE Negated(e.op), LocalValueOf(exposed, e.r, s), s)

-----------------------------------------------------------------------------
(* Visiting an expression: its value, the state after it, the accesses proved *)
(* and the private calls recorded with the length their view argument has.    *)

RECURSIVE LocalExpr(_, _, _)
LocalExpr(exposed, e, s) ==
  LET Two(l, r) == LET a == LocalExpr(exposed, l, s)
                       b == LocalExpr(exposed, r, a.s)
                   IN [a |-> a, b |-> b, proved |-> a.proved \cup b.proved, calls |-> a.calls \cup b.calls]
      Plain(v) == Visited(v, s, {}, {})
  IN
  CASE e.k = "int" -> Plain(LocalInteger(e.n))
    [] e.k = "name" -> Plain(LocalGet(exposed, s, e.x))
    [] e.k \in {"len", "flag", "match"} -> Plain(NoValue)
    [] e.k = "neg" -> LET r == LocalExpr(exposed, e.a, s) IN
                      [r EXCEPT !.v = LocalArithmetic("-", LocalInteger(0), r.v)]
    [] e.k = "not" -> [LocalExpr(exposed, e.a, s) EXCEPT !.v = NoValue]
    [] e.k = "bin" -> LET t == Two(e.l, e.r) IN
                      Visited(LocalArithmetic(e.op, t.a.v, t.b.v), t.b.s, t.proved, t.calls)
    [] e.k = "cmp" -> LET t == Two(e.l, e.r) IN Visited(NoValue, t.b.s, t.proved, t.calls)
    [] e.k \in {"and", "or"} ->          \* the right operand may not run
         LET a == LocalExpr(exposed, e.l, s)
             b == LocalExpr(exposed, e.r, LocalAssume(exposed, e.l, e.k = "and", a.s))
         IN Visited(NoValue, LocalJoin(a.s, b.s), a.proved \cup b.proved, a.calls \cup b.calls)
    [] e.k = "index" ->
         VisitIndex(e, LocalGet(exposed, s, e.x), LocalExpr(exposed, e.i, s))
    [] e.k = "sub" ->                    \* Subspan(view, offset, count)
         LET t == Two(e.off, e.n) IN
         Visited(IF t.b.v.known THEN LocalView(Most(0, t.b.v.lo)) ELSE NoValue, t.b.s, t.proved, t.calls)
    [] e.k = "helper" -> LET r == LocalExpr(exposed, e.a, s) IN [r EXCEPT !.v = ConstantCall(r.v)]
    [] e.k = "call" ->
         LET r == LocalExpr(exposed, e.a, s)
             length == IF r.v.held THEN r.v.lmin ELSE 0
         IN Visited(NoValue, r.s, r.proved, r.calls \cup {<<e.id, length>>})
    [] e.k = "ife" ->
         LET c == LocalExpr(exposed, e.c, s)
             a == LocalExpr(exposed, e.t, LocalAssume(exposed, e.c, TRUE, c.s))
             b == LocalExpr(exposed, e.f, LocalAssume(exposed, e.c, FALSE, c.s))
         IN Visited(IF a.v.known /\ b.v.known
                    THEN LocalInterval(Least(a.v.lo, b.v.lo), Most(a.v.hi, b.v.hi)) ELSE NoValue,
                    LocalJoin(a.s, b.s), c.proved \cup a.proved \cup b.proved,
                    c.calls \cup a.calls \cup b.calls)

-----------------------------------------------------------------------------
(* Visiting statements *)


\* Before a loop body is visited, everything it may assign is forgotten.
RECURSIVE ForgetWrites(_, _)
ForgetWrites(b, s) ==
  IF b = <<>> THEN s ELSE
  LET t == Head(b)
      rest(st) == ForgetWrites(Tail(b), st)
  IN CASE t.k \in {"assign", "plus"} ->
            rest(LocalPut(s, t.x, Forgotten(IF t.x \in DOMAIN s THEN s[t.x] ELSE NoValue)))
       [] t.k = "if" -> rest(ForgetWrites(t.else, ForgetWrites(t.then, s)))
       [] t.k \in {"for", "while", "block"} -> rest(ForgetWrites(t.body, s))
       [] t.k \in {"decl", "return", "use", "ref", "borrow"} -> rest(s)
       [] OTHER -> rest([x \in DOMAIN s |-> Forgotten(s[x])])

\* `dead' is the nil state of a path that has returned.
Passed(s, dead, p, c) == [s |-> s, dead |-> dead, proved |-> p, calls |-> c]
Collect(r, q) == [r EXCEPT !.proved = @ \cup q.proved, !.calls = @ \cup q.calls]

RECURSIVE LocalBlock(_, _, _), LocalStatement(_, _, _)
LocalStatement(exposed, t, s) ==
  CASE t.k = "decl" ->
         LET r == LocalExpr(exposed, t.e, s) IN
         Passed(LocalPut(r.s, t.x, Snapshot(t.id, r.v)), FALSE, r.proved, r.calls)
    [] t.k \in {"assign", "plus"} ->
         LET r == LocalExpr(exposed, t.e, s)
             old == LocalGet(exposed, r.s, t.x)
             new == IF t.k = "plus" THEN LocalArithmetic("+", old, r.v) ELSE r.v
         IN Passed(LocalPut(r.s, t.x, Snapshot(t.id, new)), FALSE, r.proved, r.calls)
    [] t.k \in {"use", "return"} ->
         LET r == LocalExpr(exposed, t.e, s) IN Passed(r.s, t.k = "return", r.proved, r.calls)
    [] t.k = "if" ->
         LET c == LocalExpr(exposed, t.c, s)
             x == LocalBlock(exposed, t.then, LocalAssume(exposed, t.c, TRUE, c.s))
             y == LocalBlock(exposed, t.else, LocalAssume(exposed, t.c, FALSE, c.s))
             after == IF x.dead THEN y.s ELSE IF y.dead THEN x.s ELSE LocalJoin(x.s, y.s)
         IN Passed(after, x.dead /\ y.dead, c.proved \cup x.proved \cup y.proved,
                   c.calls \cup x.calls \cup y.calls)
    [] t.k = "for" ->
         LET l == LocalExpr(exposed, t.lo, s)
             h == LocalExpr(exposed, t.hi, l.s)
             kept == ForgetWrites(t.body, h.s)
             item == RangeItem(exposed, t, l.v, h.v, kept)
             inner == LocalBlock(exposed, t.body, LocalPut(kept, t.x, item))
         IN Collect(Passed(kept, FALSE, l.proved \cup h.proved, l.calls \cup h.calls), inner)
    [] t.k = "while" ->
         LET kept == ForgetWrites(t.body, s)
             c == LocalExpr(exposed, t.c, kept)
             inner == LocalBlock(exposed, t.body, LocalAssume(exposed, t.c, TRUE, c.s))
         IN Collect(Passed(c.s, FALSE, c.proved, c.calls), inner)
    [] t.k = "block" -> LocalBlock(exposed, t.body, s)
    [] t.k \in {"ref", "borrow"} -> Passed(s, FALSE, {}, {})   \* a call, visited as an expression
    [] OTHER -> Passed([x \in DOMAIN s |-> Forgotten(s[x])], FALSE, {}, {})

\* Runs the statements until one returns, then drops what the block declared
\* and puts back what it shadowed.
LocalBlock(exposed, b, s) ==
  LET RECURSIVE From(_, _, _)
      From(n, r, shadowed) ==
        IF n > Len(b) \/ r.dead THEN [r |-> r, shadowed |-> shadowed] ELSE
        LET t == b[n]
            covers == IF t.k = "decl" /\ t.x \in DOMAIN r.s THEN t.x :> r.s[t.x] ELSE <<>>
            next == LocalStatement(exposed, t, r.s)
        IN From(n + 1, Collect(next, r), covers @@ shadowed)
      end == From(1, Passed(s, FALSE, {}, {}), <<>>)
      declared == {b[n].x : n \in {m \in 1 .. Len(b) : b[m].k = "decl"}}
      kept == [x \in (DOMAIN end.r.s \ declared) \cup DOMAIN end.shadowed |->
                 IF x \in DOMAIN end.shadowed THEN end.shadowed[x] ELSE end.r.s[x]]
  IN [end.r EXCEPT !.s = kept]

-----------------------------------------------------------------------------
(* Functions and the private calls between them *)

\* The names the walk over the body finds behind an explicit `ref'.
RECURSIVE ExposedNames(_)
ExposedNames(b) ==
  UNION {CASE b[n].k = "ref" -> {b[n].x}
           [] b[n].k = "if" -> ExposedNames(b[n].then) \cup ExposedNames(b[n].else)
           [] b[n].k \in {"for", "while", "block", "opaque"} -> ExposedNames(b[n].body)
           [] OTHER -> {} : n \in 1 .. Len(b)}

ProveFunction(fn, least) ==
  LocalBlock(ExposedNames(fn.body), fn.body, [x \in fn.params |-> ParameterValue(x, least)])

\* inferLocalBounds: at most four rounds, from zero.  `fns' maps the entry
\* function and the instances to their bodies, `sites' are all the closed calls.
Rounds == 4
InferLocalBounds(fns, entry, sites) ==
  LET Prove(inputs) == [f \in DOMAIN fns |-> ProveFunction(fns[f], IF f = entry THEN 0 ELSE inputs[f])]
      RECURSIVE Round(_, _)
      Round(n, inputs) ==
        LET result == Prove(inputs)
            seen == UNION {result[f].calls : f \in DOMAIN fns}
            next == [f \in DOMAIN fns |-> CallBounds(sites, seen, f)]
        IN IF n = Rounds \/ next = inputs THEN UNION {result[f].proved : f \in DOMAIN fns}
           ELSE Round(n + 1, next)
  IN Round(1, [f \in DOMAIN fns |-> 0])
=============================================================================
