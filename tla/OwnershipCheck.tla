---------------------------- MODULE OwnershipCheck ----------------------------
(***************************************************************************)
(* The compiler's ownership rules: what validateBlock and validateExpr do  *)
(* with the storage state of owning names.  A name of an `owned' type with *)
(* a Drop is initialized, moved, or moved on some paths only; the checker  *)
(* walks the body once, in source order, and rejects a read or a move of a *)
(* name that is not initialized, and a name left maybe-moved at the end of *)
(* the block that declares it.                                             *)
(*                                                                         *)
(* A scope is a stack of layers, each a map from the owning names declared *)
(* there to their state.  Syntax trees are records tagged k.               *)
(***************************************************************************)
EXTENDS Integers, Sequences, SequencesExt, FiniteSets, TLC

StorageStates == {"initialized", "moved", "maybe_moved"}

-----------------------------------------------------------------------------
(* Scopes *)

Layers(s, x) == {n \in DOMAIN s : x \in DOMAIN s[n]}
Innermost(s, x) == CHOOSE n \in Layers(s, x) : \A m \in Layers(s, x) : m <= n
Lookup(s, x) == s[Innermost(s, x)][x]
SetState(s, x, state) == [s EXCEPT ![Innermost(s, x)] = [@ EXCEPT ![x] = state]]
DeclareOwner(s, x) == [s EXCEPT ![Len(s)] = (x :> "initialized") @@ @]

JoinStorageState(a, b) == IF a = b THEN a ELSE "maybe_moved"
MergeScopeStates(left, right) ==
  [n \in DOMAIN left |-> [x \in DOMAIN left[n] |-> JoinStorageState(left[n][x], right[n][x])]]

\* A verdict: whether everything so far was accepted, and the scope after it.
Accept(s) == [ok |-> TRUE, s |-> s]
Require(p, r) == [r EXCEPT !.ok = @ /\ p]
Readable(s, x) == Lookup(s, x) = "initialized"
CanMove(s, x) == Lookup(s, x) \notin {"moved", "maybe_moved"}

-----------------------------------------------------------------------------
(* Expressions: operands and arms are all visited in order on one scope *)

RECURSIVE CheckExpr(_, _)
CheckAll(es, s) == FoldLeft(LAMBDA r, e : Require(r.ok, CheckExpr(e, r.s)), Accept(s), es)
CheckMove(x, s) == Require(CanMove(s, x), Accept(SetState(s, x, "moved")))
CheckExpr(e, s) ==
  CASE e.k = "flag" -> Accept(s)
    [] e.k = "read" -> Require(Readable(s, e.x), Accept(s))
    [] e.k = "move" -> CheckMove(e.x, s)
    [] e.k = "call" -> CheckAll(e.args, s)
    [] e.k = "try" -> CheckExpr(e.call, s)          \* call?
    [] e.k = "and" -> CheckAll(<<e.l, e.r>>, s)
    [] e.k = "ife" -> CheckAll(<<e.c, e.t, e.f>>, s)

-----------------------------------------------------------------------------
(* Statements *)

RECURSIVE CheckBlock(_, _)

CheckDecl(t, s) == LET r == CheckExpr(t.e, s) IN [r EXCEPT !.s = DeclareOwner(@, t.x)]

\* The old owner is replaced (and dropped), or a moved-from name revived.
CheckAssign(t, s) ==
  LET r == CheckExpr(t.e, s) IN
  [Require(Lookup(r.s, t.x) \in {"initialized", "moved"}, r) EXCEPT !.s = SetState(@, t.x, "initialized")]

CheckIf(t, s) ==
  LET c == CheckExpr(t.c, s)
      a == CheckBlock(t.then, c.s)
      b == CheckBlock(t.else, c.s)
  IN [ok |-> c.ok /\ a.ok /\ b.ok, s |-> MergeScopeStates(a.s, b.s)]

\* The body is visited once; what it may do to the outer names is merged in.
CheckWhile(t, s) ==
  LET c == CheckExpr(t.c, s)
      body == CheckBlock(t.body, c.s)
  IN [ok |-> c.ok /\ body.ok, s |-> MergeScopeStates(c.s, body.s)]

\* The body of a foreach has a clone of the scope, which is forgotten.
CheckForeach(t, s) == Require(CheckBlock(t.body, s).ok, Accept(s))

\* Every arm is visited in turn on the scope itself.
CheckMatch(t, s) ==
  FoldLeft(LAMBDA r, arm : Require(r.ok, CheckBlock(arm, r.s)), Accept(s), t.arms)

\* The body and the handlers each have a clone of the scope, forgotten after.
CheckTry(t, s) == Require(CheckBlock(t.body, s).ok /\ CheckBlock(t.except, s).ok, Accept(s))

CheckStatement(t, s) ==
  CASE t.k = "decl" -> CheckDecl(t, s)
    [] t.k = "assign" -> CheckAssign(t, s)
    [] t.k \in {"use", "return"} -> CheckExpr(t.e, s)
    [] t.k = "if" -> CheckIf(t, s)
    [] t.k = "while" -> CheckWhile(t, s)
    [] t.k = "foreach" -> CheckForeach(t, s)
    [] t.k = "match" -> CheckMatch(t, s)
    [] t.k = "tryexcept" -> CheckTry(t, s)
    [] t.k = "block" -> CheckBlock(t.body, s)

\* evt1ValidateMaybeDropOwners: only the names the block itself declares.
NoMaybeDropOwners(layer) == \A x \in DOMAIN layer : layer[x] /= "maybe_moved"

CheckBlock(b, s) ==
  LET r == FoldLeft(LAMBDA q, t : Require(q.ok, CheckStatement(t, q.s)), Accept(Append(s, <<>>)), b)
  IN [Require(NoMaybeDropOwners(Last(r.s)), r) EXCEPT !.s = Front(@)]

\* A function body; the parameters are a scope around it, which has no such check.
CheckFunction(params, body) == CheckBlock(body, <<[x \in params |-> "initialized"]>>).ok
=============================================================================
