--------------------------- MODULE OwnedUnitsFamily ---------------------------
(***************************************************************************)
(* The bounded family of functions the ownership rules are run on.  The    *)
(* function has the owning parameter p and declares the owner a; a middle  *)
(* statement, which may be control flow, and a last one follow.            *)
(*                                                                         *)
(* Gaps names the shapes to admit that the checker accepts and the         *)
(* generator does not handle; the family has none of them when it is {}.   *)
(***************************************************************************)
EXTENDS Integers, Sequences, FiniteSets

CONSTANT Gaps   \* of "replaced_early", "early_exit", "outer_move", "moved_before_try", "conditional_parameter"
Admit(gap, shapes) == IF gap \in Gaps THEN shapes ELSE {}

Flag == [k |-> "flag"]
Read(x) == [k |-> "read", x |-> x]
Move(x) == [k |-> "move", x |-> x]
Call(args, gives) == [k |-> "call", args |-> args, gives |-> gives]
Try(call) == [k |-> "try", call |-> call]
And(l, r) == [k |-> "and", l |-> l, r |-> r]
IfExpr(t, f) == [k |-> "ife", c |-> Flag, t |-> t, f |-> f]

Make == Call(<<>>, "owner")
MakeFrom(e) == Call(<<e>>, "owner")
Consume(x) == Call(<<Move(x)>>, "value")

Decl(x, e) == [k |-> "decl", x |-> x, e |-> e]
Assign(x, e) == [k |-> "assign", x |-> x, e |-> e]
Use(e) == [k |-> "use", e |-> e]
Return(e) == [k |-> "return", e |-> e]
If(a, b) == [k |-> "if", c |-> Flag, then |-> a, else |-> b]
While(c, b) == [k |-> "while", c |-> c, body |-> b]
Foreach(b) == [k |-> "foreach", body |-> b]
Match(a, b) == [k |-> "match", arms |-> <<a, b>>]
TryExcept(a, b) == [k |-> "tryexcept", body |-> a, except |-> b]
Block(b) == [k |-> "block", body |-> b]

FirstValues == {Make, Try(Make), Move("p"), MakeFrom(Read("p")), IfExpr(Make, Try(Make))}

\* What changes the local owner a, and what changes the parameter.
LocalLeaves ==
  {Use(Consume("a")), Use(Try(Consume("a"))), Use(Move("a")), Use(Read("a")),
   Assign("a", Make), Return(Flag), Return(Move("a")), Return(Try(MakeFrom(Read("a")))),
   Use(And(Read("a"), Try(Call(<<>>, "value")))),
   Use(Call(<<Read("a"), Try(Make)>>, "value")), Use(Call(<<Make, IfExpr(Make, Make)>>, "value"))}
  \cup Admit("replaced_early", {Assign("a", Try(Make)), Assign("a", MakeFrom(Read("a")))})
  \cup Admit("moved_before_try", {Use(Call(<<Move("a"), Try(Make)>>, "value"))})
ParameterLeaves ==
  {Use(Consume("p")), Assign("a", Move("p")), Assign("p", Move("a")), Return(Move("p")), Use(Read("p"))}
Leaves == LocalLeaves \cup ParameterLeaves

\* Bodies of loops, arms and tries: with an owner b of their own.
Inner(last) == <<Decl("b", Make), last>>
InnerBodies ==
  {Inner(s) : s \in {Use(Consume("b")), Use(Read("a")), Use(Try(Call(<<Move("b")>>, "value"))), Assign("b", Make)}}
  \cup {<<Decl("b", Try(Make)), Use(Try(Make))>>, <<Use(Consume("a")), Assign("a", Make)>>}
  \cup Admit("early_exit", {Inner(Return(Flag)), Inner(Return(Move("b")))})
  \cup Admit("outer_move", {<<Use(Consume("a"))>>})

Arms == {<<s>> : s \in LocalLeaves} \cup {<<Use(Consume("a")), Return(Flag)>>, <<Use(Consume("p")), Return(Flag)>>, <<>>}
  \cup Admit("conditional_parameter", {<<Use(Consume("p"))>>})

Controls ==
  {If(a, b) : a \in Arms, b \in Arms}
  \cup {If(<<p>>, <<p>>) : p \in ParameterLeaves}
  \cup {While(c, b) : c \in {Flag, Read("a"), And(Read("a"), Try(Call(<<>>, "value")))}, b \in InnerBodies}
  \cup {While(Flag, <<Use(Consume("a"))>>)}
  \cup {Foreach(b) : b \in InnerBodies}
  \cup {Match(a, b) : a \in InnerBodies, b \in InnerBodies}
  \cup {TryExcept(a, b) : a \in InnerBodies, b \in {<<Use(Read("a"))>>, Inner(Use(Consume("b")))}}
  \cup {Block(<<Decl("a", Make), s>>) : s \in LocalLeaves}          \* a shadowing owner
  \cup {Block(<<Decl("b", e), If(<<Use(Consume("b"))>>, <<s>>)>>) :
          e \in {Make, Move("a")}, s \in {Use(Read("b")), Use(Consume("b")), Return(Move("b"))}}

OwnedFamily ==
  {[params |-> {"p"}, body |-> <<Decl("a", e), s, t>>] : e \in FirstValues, s \in Leaves \cup Controls, t \in Leaves}
=============================================================================
