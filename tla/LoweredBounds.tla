---------------------------- MODULE LoweredBounds ----------------------------
(***************************************************************************)
(* A function compiled with the local bounds analysis and then run.  The   *)
(* lowering keeps the guard of every span access except those the plan     *)
(* marks StaticEliminated; the run is that of the generated C, in which a  *)
(* failed guard panics and an access without one reads whatever is there.  *)
(*                                                                         *)
(* bUnit is the function, chosen from the bounded family below, bPlan the  *)
(* accesses without a guard.  The run keeps the variables bEnv (a view is  *)
(* its length) and bKont, the statements left to run, innermost block      *)
(* first.                                                                  *)
(***************************************************************************)
EXTENDS LocalBounds

CONSTANTS MaxLength,       \* the views passed in have 0 .. MaxLength elements
          Arguments,       \* the int arguments passed in
          Verify,          \* the verify policy keeps every guard
          Units,           \* the functions compiled: records [body, fns, sites]
          Plans            \* their plans: BoundsPlans

VARIABLES bUnit, bPlan, bEnv, bKont, bStatus
boundsVars == <<bUnit, bPlan, bEnv, bKont, bStatus>>

BoundsTypeOK ==
  /\ bUnit \in Units
  /\ bStatus \in {"source", "planned", "running", "returned", "panic", "out_of_bounds"}
  /\ \A x \in DOMAIN bEnv : InInt32(bEnv[x])

-----------------------------------------------------------------------------
(* The value of an expression, or how evaluating it ended the program *)

Ok(n) == [n |-> n, end |-> "none"]
Panic == [n |-> 0, end |-> "panic"]
Checked(n) == IF InInt32(n) THEN Ok(n) ELSE Panic        \* the i32 helpers
Truth(b) == Ok(IF b THEN 1 ELSE 0)

\* lowerSpanIndex: the guard, unless the plan eliminated it.
ReadElement(id, length, i, env, unguarded) ==
  IF i \in 0 .. length - 1 THEN Ok(env["element"])
  ELSE IF id \in unguarded THEN [n |-> 0, end |-> "out_of_bounds"] ELSE Panic

RECURSIVE RunExpr(_, _, _, _)
RunExpr(fns, e, env, unguarded) ==
  LET Run(x) == RunExpr(fns, x, env, unguarded)
      Then(a, Next(_)) == IF a.end = "none" THEN Next(a.n) ELSE a
  IN
  CASE e.k = "int" -> Ok(e.n)
    [] e.k \in {"name", "len"} -> Ok(env[e.x])
    [] e.k = "flag" -> Ok(env["flag"])
    [] e.k = "match" -> Run(e.a)
    [] e.k = "neg" -> Then(Run(e.a), LAMBDA n : Checked(-n))
    [] e.k = "not" -> Then(Run(e.a), LAMBDA n : Ok(1 - n))
    [] e.k = "bin" -> Then(Run(e.l), LAMBDA l : Then(Run(e.r), LAMBDA r : Checked(Apply(e.op, l, r))))
    [] e.k = "cmp" -> Then(Run(e.l), LAMBDA l : Then(Run(e.r), LAMBDA r : Truth(Compare(e.op, l, r))))
    [] e.k = "and" -> Then(Run(e.l), LAMBDA l : IF l = 0 THEN Ok(0) ELSE Run(e.r))
    [] e.k = "or" -> Then(Run(e.l), LAMBDA l : IF l = 1 THEN Ok(1) ELSE Run(e.r))
    [] e.k = "ife" -> Then(Run(e.c), LAMBDA c : IF c = 1 THEN Run(e.t) ELSE Run(e.f))
    [] e.k = "index" -> Then(Run(e.i), LAMBDA i : ReadElement(e.id, env[e.x], i, env, unguarded))
    [] e.k = "sub" ->          \* the subregion's own guard is always kept
         Then(Run(e.off), LAMBDA o : Then(Run(e.n), LAMBDA n :
           IF o >= 0 /\ n >= 0 /\ o <= env[e.x] /\ n <= env[e.x] - o THEN Ok(n) ELSE Panic))
    [] e.k = "helper" -> Then(Run(e.a), LAMBDA n : Checked(n + 1))
    [] e.k = "call" ->         \* an instance returns one expression over its parameter v
         Then(Run(e.a), LAMBDA n : RunExpr(fns, fns[e.f].body[1].e, ("v" :> n) @@ env, unguarded))

-----------------------------------------------------------------------------
(* Compiling and starting *)

BoundsInit ==
  /\ bUnit \in Units
  /\ bPlan = {} /\ bEnv = <<>> /\ bKont = <<>> /\ bStatus = "source"

\* evt1ProveLocalBounds, then the plan of every span_index operation.
BoundsPlans ==
  LET Functions(u) == ("Main" :> [body |-> u.body, params |-> {"v", "w", "i"}]) @@ u.fns
      Plan(u) == IF Verify THEN {} ELSE InferLocalBounds(Functions(u), "Main", u.sites)
  IN [u \in Units |-> Plan(u)]

CompileBounds ==
  /\ bStatus = "source"
  /\ bStatus' = "planned"
  /\ bPlan' = Plans[bUnit]
  /\ UNCHANGED <<bUnit, bEnv, bKont>>

Frame(b) == [k |-> "block", b |-> b, saved |-> <<>>]

StartRun ==
  /\ bStatus = "planned"
  /\ bStatus' = "running"
  /\ \E v, w \in 0 .. MaxLength, i \in Arguments, flag, element \in {0, 1} :
       bEnv' = [v |-> v, w |-> w, i |-> i, j |-> 0, k |-> 0, s |-> 0, flag |-> flag, element |-> element]
  /\ bKont' = <<Frame(bUnit.body)>>
  /\ UNCHANGED <<bUnit, bPlan>>

-----------------------------------------------------------------------------
(* Running *)

Top == Head(bKont)
AtStatement == bStatus = "running" /\ bKont /= <<>> /\ Top.k = "block" /\ Top.b /= <<>>
Now == Head(Top.b)
Rest == <<[Top EXCEPT !.b = Tail(@)]>> \o Tail(bKont)
EvaluateIn(e, env) == RunExpr(bUnit.fns, e, env, bPlan)
Evaluate(e) == EvaluateIn(e, bEnv)

\* An expression that ended the program ends the run.
Ends(r) ==
  /\ r.end /= "none"
  /\ bStatus' = r.end /\ bKont' = <<>> /\ bEnv' = <<>>
Continues(r, env, kont) ==
  /\ r.end = "none"
  /\ bEnv' = env /\ bKont' = kont /\ UNCHANGED bStatus

Declare ==
  /\ AtStatement /\ Now.k = "decl"
  /\ LET r == Evaluate(Now.e)
         saved == IF Now.x \in DOMAIN Top.saved THEN Top.saved ELSE (Now.x :> bEnv[Now.x]) @@ Top.saved
     IN \/ Ends(r)
        \/ Continues(r, [bEnv EXCEPT ![Now.x] = r.n], <<[Head(Rest) EXCEPT !.saved = saved]>> \o Tail(Rest))
  /\ UNCHANGED <<bUnit, bPlan>>

Assign ==
  /\ AtStatement /\ Now.k \in {"assign", "plus"}
  /\ LET value == Evaluate(Now.e)
         r == IF value.end = "none" /\ Now.k = "plus" THEN Checked(bEnv[Now.x] + value.n) ELSE value
     IN Ends(r) \/ Continues(r, [bEnv EXCEPT ![Now.x] = r.n], Rest)
  /\ UNCHANGED <<bUnit, bPlan>>

Use ==
  /\ AtStatement /\ Now.k = "use"
  /\ LET r == Evaluate(Now.e) IN Ends(r) \/ Continues(r, bEnv, Rest)
  /\ UNCHANGED <<bUnit, bPlan>>

Return ==
  /\ AtStatement /\ Now.k = "return"
  /\ LET r == Evaluate(Now.e) IN
     Ends(IF r.end = "none" THEN [r EXCEPT !.end = "returned"] ELSE r)
  /\ UNCHANGED <<bUnit, bPlan>>

\* A call that takes the variable's address may leave anything in it.
CallByAddress ==
  /\ AtStatement /\ Now.k \in {"ref", "borrow"}
  /\ \E n \in IF Now.x \in ViewNames THEN 0 .. MaxLength ELSE {-1, MaxInt} :
       bEnv' = [bEnv EXCEPT ![Now.x] = n]
  /\ bKont' = Rest
  /\ UNCHANGED <<bUnit, bPlan, bStatus>>

Branch ==
  /\ AtStatement /\ Now.k = "if"
  /\ LET r == Evaluate(Now.c) IN
     Ends(r) \/ Continues(r, bEnv, <<Frame(IF r.n = 1 THEN Now.then ELSE Now.else)>> \o Rest)
  /\ UNCHANGED <<bUnit, bPlan>>

\* A block; or a match statement, of whose arms this one may be taken.
EnterBlock ==
  /\ AtStatement /\ Now.k \in {"block", "opaque"}
  /\ bKont' = <<Frame(Now.body)>> \o Rest \/ (Now.k = "opaque" /\ bKont' = Rest)
  /\ UNCHANGED <<bUnit, bPlan, bEnv, bStatus>>

\* lowerRangeExpr and the counted loop: both ends are evaluated once, a start
\* above the end panics, the item is a copy of the cursor.
EnterFor ==
  /\ AtStatement /\ Now.k = "for"
  /\ LET lo == Evaluate(Now.lo)
         hi == IF lo.end = "none" THEN Evaluate(Now.hi) ELSE lo
         r == IF hi.end = "none" /\ lo.n > hi.n THEN Panic ELSE hi
     IN Ends(r) \/ Continues(r, bEnv, <<[k |-> "for", x |-> Now.x, at |-> lo.n, end |-> hi.n, body |-> Now.body]>> \o Rest)
  /\ UNCHANGED <<bUnit, bPlan>>

NextItem ==
  /\ bStatus = "running" /\ bKont /= <<>> /\ Top.k = "for"
  /\ IF Top.at < Top.end
     THEN /\ bEnv' = [bEnv EXCEPT ![Top.x] = Top.at]
          /\ bKont' = <<Frame(Top.body), [Top EXCEPT !.at = @ + 1]>> \o Tail(bKont)
     ELSE bKont' = Tail(bKont) /\ UNCHANGED bEnv
  /\ UNCHANGED <<bUnit, bPlan, bStatus>>

EnterWhile ==
  /\ AtStatement /\ Now.k = "while"
  /\ LET r == Evaluate(Now.c) IN
     Ends(r) \/ Continues(r, bEnv, IF r.n = 1 THEN <<Frame(Now.body)>> \o bKont ELSE Rest)
  /\ UNCHANGED <<bUnit, bPlan>>

\* The end of a block: its declarations go, what they shadowed shows again.
LeaveBlock ==
  /\ bStatus = "running" /\ bKont /= <<>> /\ Top.k = "block" /\ Top.b = <<>>
  /\ bKont' = Tail(bKont)
  /\ bEnv' = Top.saved @@ bEnv
  /\ bStatus' = IF Tail(bKont) = <<>> THEN "returned" ELSE bStatus
  /\ UNCHANGED <<bUnit, bPlan>>

BoundsNext ==
  \/ CompileBounds \/ StartRun
  \/ Declare \/ Assign \/ Use \/ Return \/ CallByAddress
  \/ Branch \/ EnterBlock \/ EnterFor \/ NextItem \/ EnterWhile \/ LeaveBlock

BoundsSpec == BoundsInit /\ [][BoundsNext]_boundsVars

\* A guard the plan eliminated would never have failed: no run of the lowered
\* function reads an element the view does not have.  (local_bounds.go, the
\* BoundsPlan of planner.go and lowerSpanIndex of span.go together.)
NoUncheckedOutOfBounds == bStatus /= "out_of_bounds"
=============================================================================
