--------------------------- MODULE AsyncUnitsFamily ---------------------------
(***************************************************************************)
(* The bounded family of async programs.  Main(n) declares x, runs a       *)
(* statement with awaits in every kind of control flow and returns a sum   *)
(* that reads what was set before, in and after it.  The functions it      *)
(* awaits emit, await in turn, recur and fail.                             *)
(*                                                                         *)
(* Gaps names the shapes to admit that the normalization does not carry    *)
(* over; the family has none of them when it is {}.                        *)
(***************************************************************************)
EXTENDS Integers, Sequences, FiniteSets

CONSTANT AsyncGaps   \* of "driven_before_await", "construction", "shadowing", "return_in_loop", "nested_try"
Admit(gap, shapes) == IF gap \in AsyncGaps THEN shapes ELSE {}

Int0(n) == [k |-> "int", n |-> n]
Name(x) == [k |-> "name", x |-> x]
Add(l, r) == [k |-> "add", l |-> l, r |-> r]
Less(l, r) == [k |-> "less", l |-> l, r |-> r]
Ok1(e) == [k |-> "ok", e |-> e]
Construct(e) == [k |-> "construct", e |-> e]
CallOf(f, a) == [k |-> "call", f |-> f, arg |-> a]
Await(f, a) == [k |-> "await", e |-> CallOf(f, a), gives |-> "int"]
AwaitTry(f, a) == [k |-> "try", e |-> [k |-> "await", e |-> CallOf(f, a), gives |-> "result"]]
AwaitMoved(x) == [k |-> "await", e |-> [k |-> "moved", x |-> x], gives |-> "int"]

Decl(x, e) == [k |-> "decl", x |-> x, e |-> e]
Assign(x, e) == [k |-> "assign", x |-> x, e |-> e]
Return(e) == [k |-> "return", e |-> e]
Use(e) == [k |-> "use", e |-> e]
Emit(e) == Use([k |-> "emit", e |-> e])
StepOf(x) == Use([k |-> "step", x |-> x])
If(c, a, b) == [k |-> "if", c |-> c, then |-> a, else |-> b]
While(c, bound, body, else) == [k |-> "while", c |-> c, bound |-> bound, body |-> body, else |-> else]
Foreach(x, lo, hi, body) == [k |-> "foreach", x |-> x, lo |-> lo, hi |-> hi, body |-> body]
Match(e, a, b) == [k |-> "match", e |-> e, arms |-> <<[bind |-> "m1", body |-> a], [bind |-> "m2", body |-> b]>>]
TryExcept(body, error, bind, arm) == [k |-> "tryexcept", body |-> body, arm |-> [error |-> error, bind |-> bind, body |-> arm]]

Fn(body, gives) == [params |-> {"n"}, body |-> body, gives |-> gives]
Children ==
  [f \in {"Leaf", "Middle", "Deep", "Fails1", "Fails2"} |->
    CASE f = "Leaf" -> Fn(<<Emit(Name("n")), Return(Add(Name("n"), Int0(1)))>>, "int")
      [] f = "Middle" -> Fn(<<Decl("a", Await("Leaf", Name("n"))), Return(Add(Name("a"), Name("n")))>>, "int")
      [] f = "Deep" -> Fn(<<If(Less(Name("n"), Int0(1)), <<Return(Int0(0))>>, <<>>),
                            Return(Add(Await("Deep", Add(Name("n"), Int0(-1))), Int0(1)))>>, "int")
      [] f = "Fails1" -> Fn(<<If(Less(Name("n"), Int0(2)), <<Return([k |-> "fail", err |-> "E1"])>>, <<>>), Return(Ok1(Name("n")))>>, "result")
      [] f = "Fails2" -> Fn(<<If(Less(Name("n"), Int0(1)), <<Return([k |-> "fail", err |-> "E2"])>>, <<>>), Return(Ok1(Name("n")))>>, "result")]

Small == Less(Name("n"), Int0(2))
SetX == Assign("x", Add(Name("x"), Int0(1)))

Returning == <<Return(Ok1(Name("x")))>>

\* Straight-line pieces, with and without an await.
Pieces ==
  {<<SetX>>, <<Decl("y", Await("Leaf", Name("x"))), Assign("x", Add(Name("y"), Name("n")))>>,
   <<Assign("x", Add(Name("x"), Await("Middle", Name("n"))))>>, <<Use(Await("Deep", Name("n"))), SetX>>,
   <<Decl("y", Name("x")), Use(Await("Leaf", Int0(0))), Emit(Name("y"))>>,
   <<Decl("op", CallOf("Middle", Name("x"))), StepOf("op"), SetX, Assign("x", Add(Name("x"), AwaitMoved("op")))>>,
   <<Decl("op", CallOf("Leaf", Name("x"))), StepOf("op"), Assign("x", AwaitMoved("op"))>>,
   <<Return(Ok1(Await("Leaf", Name("x"))))>>, Returning,
   <<Assign("x", Add(Name("x"), AwaitTry("Fails1", Name("n")))), SetX>>}
  \cup Admit("driven_before_await",
    {<<Decl("op", CallOf("Middle", Name("x"))), StepOf("op"), StepOf("op"), Assign("x", AwaitMoved("op"))>>,
     <<Decl("z", Await("Leaf", Int0(7))), Decl("op", CallOf("Middle", Name("x"))), StepOf("op"), StepOf("op"),
       Assign("x", Add(Name("z"), AwaitMoved("op")))>>})

\* What stands in a loop or a try has an await beside a return.
Suspending == Pieces \ {Returning, <<SetX>>}
Repeated == (Pieces \ {Returning}) \cup Admit("return_in_loop", {Returning})
Guarded == {<<a, b>> \in Pieces \X Pieces : Returning \in {a, b} => Suspending \cap {a, b} /= {}}

Looped(b) == b \o <<Emit(Name("x"))>>
Counting(b) == <<Assign("i", Add(Name("i"), Int0(1)))>> \o b
Structures ==
  Pieces
  \cup {<<If(Small, a, b)>> : a \in Pieces, b \in Pieces \cup {<<>>}}
  \cup {<<Decl("o", Add(Name("n"), Int0(3))), Match(Name("n"), a \o <<Emit(Name("m1"))>>, b), Emit(Name("o"))>> : a \in Pieces, b \in Pieces}
  \cup {<<Decl("i", Int0(0)), While(Less(Name("i"), Name("n")), bound, Counting(Looped(a)), else)>> :
          bound \in {-1, 0, 2}, a \in Repeated, else \in {<<>>, <<Emit(Name("i"))>>, <<Use(Await("Leaf", Name("i")))>>}}
  \cup {<<Foreach("j", Int0(0), Name("n"), Looped(a) \o <<Emit(Name("j"))>>)>> : a \in Repeated}
  \cup {<<Foreach("j", Int0(1), Int0(3), <<Foreach("k", Int0(0), Name("j"), Looped(a) \o <<Emit(Name("k"))>>)>>)>> : a \in Repeated}
  \cup {<<TryExcept(ab[1] \o <<SetX>>, e, "failed", ab[2])>> : ab \in Guarded, e \in {"E1", "E2"}}
  \cup {<<TryExcept(<<If(Small, a, <<Use(AwaitTry("Fails2", Name("n")))>>)>>, "E1", "failed", <<Emit(Name("failed")), SetX>>)>> : a \in Pieces}
  \cup Admit("construction", {<<Decl("o", Name("n")), If(Small, <<Return(Ok1(Int0(0)))>>, <<>>), Emit(Construct(Name("o")))>>})
  \cup Admit("shadowing", {<<If(Small, <<Decl("x", Await("Leaf", Int0(7))), Emit(Name("x"))>>, <<>>)>>})
  \cup Admit("nested_try", {<<TryExcept(<<TryExcept(<<Use(AwaitTry("Fails1", Name("n")))>>, "E2", "inner", <<>>)>>, "E1", "failed", <<SetX>>)>>})

Main(s) == Fn(<<Decl("x", Add(Name("n"), Int0(1)))>> \o s \o <<Return(Ok1(Add(Name("x"), Name("n"))))>>, "result")
AsyncFamily ==
  {[main |-> "Main", fns |-> [f \in DOMAIN Children \cup {"Main"} |-> IF f = "Main" THEN Main(s) ELSE Children[f]]] :
     s \in Structures}
=============================================================================
