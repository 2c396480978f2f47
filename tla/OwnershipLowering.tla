-------------------------- MODULE OwnershipLowering --------------------------
(***************************************************************************)
(* The C generator's drops: evt1FunctionLowerer walks a checked body once  *)
(* and emits C in which each scope exit drops the owners that are live     *)
(* there.  Which owners are live is known while lowering only: there are   *)
(* no drop flags at run time.                                              *)
(*                                                                         *)
(* The state of the lowerer: names, the scope layers (source name to C     *)
(* name); order, the owners of each layer in declaration order; live, the  *)
(* owners still to drop; handlers, the layer from which each enclosing try *)
(* cleans up; temps, the counter of fresh names.  An expression lowers to  *)
(* a prelude of operations and a C expression, which is evaluated later,   *)
(* where the statement puts it.                                            *)
(***************************************************************************)
EXTENDS OwnershipCheck

\* C expressions
Storage(c) == [v |-> "var", c |-> c]
Field(c) == [v |-> "field", c |-> c]
Nothing == [v |-> "none"]
Invoke(args, gives) == [v |-> "call", args |-> args, gives |-> gives]
Lowered(pre, val, f) == [pre |-> pre, val |-> val, f |-> f]

\* C operations
Eval(c, val) == [op |-> "eval", c |-> c, val |-> val]
DropOp(c) == [op |-> "drop", c |-> c]
BranchOp(a, b) == [op |-> "branch", then |-> a, else |-> b]

-----------------------------------------------------------------------------
(* Names, owners and their drops *)

NewLowerer(params) ==
  [names |-> <<[x \in params |-> x]>>, order |-> <<SetToSeq(params)>>, live |-> params,
   handlers |-> <<>>, temps |-> 0]

PushScope(f) == [f EXCEPT !.names = Append(@, <<>>), !.order = Append(@, <<>>)]
PopScope(f) ==
  [f EXCEPT !.names = Front(@), !.order = Front(@), !.live = @ \ ToSet(Last(f.order))]

CName(f, x) == LET n == CHOOSE n \in Layers(f.names, x) : \A m \in Layers(f.names, x) : m <= n IN f.names[n][x]
NextTemp(f) == [f EXCEPT !.temps = @ + 1]
Temp(f, base) == base \o ToString(f.temps + 1)

\* bindName: a shadowing declaration gets a C name, and so an owner, of its own.
BindName(f, x) ==
  LET shadows == \E n \in DOMAIN f.names : \E y \in DOMAIN f.names[n] : f.names[n][y] = x
      c == IF shadows THEN Temp(f, x) ELSE x
      g == IF shadows THEN NextTemp(f) ELSE f
  IN [g EXCEPT !.names[Len(g.names)] = (x :> c) @@ @,
               !.order[Len(g.order)] = Append(@, c), !.live = @ \cup {c}]

\* lowerScopeDrops: reverse declaration order, and each owner once.
ScopeDrops(f, n) ==
  LET due == SelectSeq(Reverse(f.order[n]), LAMBDA c : c \in f.live)
  IN [pre |-> [i \in DOMAIN due |-> DropOp(due[i])], f |-> [f EXCEPT !.live = @ \ ToSet(due)]]
\* From the innermost layer down to layer `from'.
DropsFrom(f, from) ==
  FoldLeft(LAMBDA r, n : LET d == ScopeDrops(r.f, n) IN [pre |-> r.pre \o d.pre, f |-> d.f],
           [pre |-> <<>>, f |-> f], [i \in 1 .. Len(f.order) - from + 1 |-> Len(f.order) - i + 1])

AllDrops(f) == DropsFrom(f, 1)

-----------------------------------------------------------------------------
(* Expressions *)

\* evt1Type of the value: an owner, or anything that needs no drop.
RECURSIVE Gives(_)
Gives(e) ==
  CASE e.k = "move" -> "owner" [] e.k = "call" -> e.gives [] e.k = "try" -> Gives(e.call)
    [] e.k = "ife" -> Gives(e.t) [] OTHER -> "value"

RECURSIVE MayBranch(_)
MayBranch(e) ==
  \/ e.k \in {"try", "and", "ife"}
  \/ e.k = "call" /\ \E n \in DOMAIN e.args : MayBranch(e.args[n])

RECURSIVE LowerExpr(_, _)

\* The arguments' preludes come first, in order, then each argument is put into
\* a temporary of its own.  One whose value needs no drop is put there already
\* before a later argument branches.
LowerCall(e, f) ==
  LET Argument(r, i) ==
        LET a == LowerExpr(e.args[i], r.f)
            early == Gives(e.args[i]) = "value" /\ \E j \in (i + 1) .. Len(e.args) : MayBranch(e.args[j])
            t == Temp(a.f, "arg")
        IN IF early
           THEN [pre |-> r.pre \o a.pre \o <<Eval(t, a.val)>>, vals |-> Append(r.vals, Storage(t)), f |-> NextTemp(a.f)]
           ELSE [pre |-> r.pre \o a.pre, vals |-> Append(r.vals, a.val), f |-> a.f]
      all == FoldLeft(Argument, [pre |-> <<>>, vals |-> <<>>, f |-> f], [i \in DOMAIN e.args |-> i])
      temps == [i \in DOMAIN all.vals |-> "arg" \o ToString(all.f.temps + i)]
      owners == SelectSeq([i \in DOMAIN temps |-> <<temps[i], Gives(e.args[i])>>], LAMBDA p : p[2] = "owner")
  IN Lowered(all.pre \o [i \in DOMAIN temps |-> Eval(temps[i], all.vals[i])],
             Invoke([i \in DOMAIN owners |-> owners[i][1]], e.gives),
             [all.f EXCEPT !.temps = @ + Len(temps)])

\* call?: on failure every live owner is dropped and the function returns, or,
\* inside a try, those of the try's body are and control goes to its handler.
\* What is live after it is what was live before it.
LowerTry(e, f) ==
  LET a == LowerExpr(e.call, f)
      t == Temp(a.f, "failure")
      exit == IF a.f.handlers = <<>> THEN AllDrops(a.f).pre \o <<[op |-> "leave"]>>
              ELSE DropsFrom(a.f, Last(a.f.handlers).from).pre \o <<[op |-> "goto", label |-> Last(a.f.handlers).label]>>
  IN Lowered(a.pre \o <<[op |-> "attempt", c |-> t, val |-> a.val, fail |-> exit]>>, Storage(t), NextTemp(a.f))

\* The right operand runs under the left one; its moves are not undone.
LowerAnd(e, f) ==
  LET a == LowerExpr(e.l, f)
      b == LowerExpr(e.r, a.f)
  IN Lowered(a.pre \o <<Eval("scratch", a.val), BranchOp(b.pre \o <<Eval("scratch", b.val)>>, <<>>)>>, Nothing, b.f)

LowerIfExpr(e, f) ==
  LET c == LowerExpr(e.c, f)
      a == LowerExpr(e.t, c.f)
      b == LowerExpr(e.f, a.f)
      t == Temp(b.f, "if_result")
  IN Lowered(c.pre \o <<Eval("scratch", c.val), BranchOp(a.pre \o <<Eval(t, a.val)>>, b.pre \o <<Eval(t, b.val)>>)>>,
             IF Gives(e) = "owner" THEN Storage(t) ELSE Nothing, NextTemp(b.f))

LowerExpr(e, f) ==
  CASE e.k = "flag" -> Lowered(<<>>, Nothing, f)
    [] e.k = "read" -> Lowered(<<>>, Field(CName(f, e.x)), f)
    [] e.k = "move" -> Lowered(<<>>, Storage(CName(f, e.x)), [f EXCEPT !.live = @ \ {CName(f, e.x)}])
    [] e.k = "call" -> LowerCall(e, f)
    [] e.k = "try" -> LowerTry(e, f)
    [] e.k = "and" -> LowerAnd(e, f)
    [] e.k = "ife" -> LowerIfExpr(e, f)

-----------------------------------------------------------------------------
(* Statements: the operations, and the lowerer after them *)

RECURSIVE LowerBlock(_, _)
Code(pre, f) == [pre |-> pre, f |-> f]

LowerDecl(t, f) ==
  LET r == LowerExpr(t.e, f)
      g == BindName(r.f, t.x)
  IN Code(r.pre \o <<Eval(CName(g, t.x), r.val)>>, g)

\* The old owner is dropped in front of the operations of the new value.
LowerAssign(t, f) ==
  LET r == LowerExpr(t.e, f)
      c == CName(f, t.x)
      replaced == IF c \in r.f.live THEN <<DropOp(c)>> ELSE <<>>
  IN Code(replaced \o r.pre \o <<Eval(c, r.val)>>, [r.f EXCEPT !.live = @ \cup {c}])

LowerUse(t, f) ==
  LET r == LowerExpr(t.e, f)
      discard == Temp(r.f, "discard")
  IN IF Gives(t.e) = "owner"
     THEN Code(r.pre \o <<Eval(discard, r.val), DropOp(discard)>>, NextTemp(r.f))
     ELSE Code(Append(r.pre, Eval("scratch", r.val)), r.f)

LowerReturn(t, f) ==
  LET r == LowerExpr(t.e, f)
      d == AllDrops(r.f)
      out == IF Gives(t.e) = "owner" THEN "return" ELSE "scratch"
  IN Code(r.pre \o <<Eval(out, r.val)>> \o d.pre \o <<[op |-> "leave"]>>, d.f)

RECURSIVE EndsInReturn(_)
EndsInReturn(b) ==
  b /= <<>> /\ LET t == Last(b) IN
    \/ t.k = "return"
    \/ t.k = "block" /\ EndsInReturn(t.body)
    \/ t.k = "if" /\ EndsInReturn(t.then) /\ EndsInReturn(t.else)

\* Each branch starts from the same live owners; an absent else is an empty one.
LowerIf(t, f) ==
  LET c == LowerExpr(t.c, f)
      a == LowerBlock(t.then, c.f)
      b == LowerBlock(t.else, [a.f EXCEPT !.live = c.f.live])
      thenReturns == EndsInReturn(t.then)
      elseReturns == EndsInReturn(t.else)
      live == CASE thenReturns /\ ~elseReturns -> b.f.live
                [] elseReturns /\ ~thenReturns -> a.f.live
                [] ~thenReturns /\ ~elseReturns -> a.f.live \cap b.f.live
                [] OTHER -> c.f.live
  IN Code(c.pre \o <<Eval("scratch", c.val), BranchOp(a.pre, b.pre)>>, [b.f EXCEPT !.live = live])

LowerLoop(c, body, f) ==
  LET r == LowerExpr(c, f)
      b == LowerBlock(body, r.f)
  IN Code(<<[op |-> "loop", pre |-> Append(r.pre, Eval("scratch", r.val)), body |-> b.pre, passes |-> 0]>>, b.f)

\* One arm after the other, from whatever the arm before it left live.
LowerMatch(t, f) ==
  LET a == LowerBlock(t.arms[1], f)
      b == LowerBlock(t.arms[2], a.f)
  IN Code(<<BranchOp(a.pre, b.pre)>>, b.f)

LowerTryExcept(t, f) ==
  LET label == Temp(f, "except")
      entered == [NextTemp(f) EXCEPT !.handlers = Append(@, [label |-> label, from |-> Len(f.order) + 1])]
      body == LowerBlock(t.body, entered)
      arm == LowerBlock(t.except, [body.f EXCEPT !.handlers = f.handlers])
  IN Code(body.pre \o <<[op |-> "except", label |-> label, pre |-> arm.pre]>>, arm.f)

LowerStatement(t, f) ==
  CASE t.k = "decl" -> LowerDecl(t, f)
    [] t.k = "assign" -> LowerAssign(t, f)
    [] t.k = "use" -> LowerUse(t, f)
    [] t.k = "return" -> LowerReturn(t, f)
    [] t.k = "if" -> LowerIf(t, f)
    [] t.k = "while" -> LowerLoop(t.c, t.body, f)
    [] t.k = "foreach" -> LowerLoop([k |-> "flag"], t.body, f)
    [] t.k = "match" -> LowerMatch(t, f)
    [] t.k = "tryexcept" -> LowerTryExcept(t, f)
    [] t.k = "block" -> LowerBlock(t.body, f)

LowerBlock(b, f) ==
  LET r == FoldLeft(LAMBDA q, t : LET l == LowerStatement(t, q.f) IN Code(q.pre \o l.pre, l.f), Code(<<>>, PushScope(f)), b)
      d == ScopeDrops(r.f, Len(r.f.order))
  IN Code(r.pre \o d.pre, PopScope(d.f))

\* lower(): the body, then the drops of the parameters.
LowerFunction(params, body) ==
  LET b == LowerBlock(body, NewLowerer(params)) IN b.pre \o ScopeDrops(b.f, 1).pre
=============================================================================
