----------------------------- MODULE BoundsUnits -----------------------------
(***************************************************************************)
(* The bounded family of functions the local bounds analysis is run on.    *)
(* A function body is a setup statement, a middle statement and a final    *)
(* access; the middle is a leaf or a leaf inside each kind of control      *)
(* flow.  The family contains the shapes of local_bounds_test.go: loop     *)
(* carried mutation, extent reassignment, overflow, short circuit, branch  *)
(* only, shadowing, counted ranges and private callers.                    *)
(***************************************************************************)
EXTENDS Integers, Sequences, FiniteSets

CONSTANTS Big,              \* math.MaxInt32
          BorrowCalls       \* calls whose parameter is an implicit borrow are written too

Lit(n) == [k |-> "int", n |-> n]
Nm(x) == [k |-> "name", x |-> x]
Bin(op, l, r) == [k |-> "bin", op |-> op, l |-> l, r |-> r]
Cmp(op, l, r) == [k |-> "cmp", op |-> op, l |-> l, r |-> r]
Both(op, l, r) == [k |-> op, l |-> l, r |-> r]
Length(x) == [k |-> "len", x |-> x]
Flag == [k |-> "flag"]
At(id, x, i) == [k |-> "index", id |-> id, x |-> x, i |-> i]
Sub(x, n) == [k |-> "sub", x |-> x, off |-> Lit(0), n |-> n]
Private(id, f, a) == [k |-> "call", id |-> id, f |-> f, a |-> a]

Decl(id, x, e) == [k |-> "decl", id |-> id, x |-> x, e |-> e]
Set(id, x, e) == [k |-> "assign", id |-> id, x |-> x, e |-> e]
Plus(id, x, e) == [k |-> "plus", id |-> id, x |-> x, e |-> e]
Do(e) == [k |-> "use", e |-> e]
Ret(e) == [k |-> "return", e |-> e]
If(c, a, b) == [k |-> "if", c |-> c, then |-> a, else |-> b]
For(x, lo, hi, b) == [k |-> "for", x |-> x, lo |-> lo, hi |-> hi, body |-> b]
While(c, b) == [k |-> "while", c |-> c, body |-> b]
Block(b) == [k |-> "block", body |-> b]
Arm(b) == [k |-> "opaque", body |-> b]
Ref(x) == [k |-> "ref", x |-> x]
Borrow(x) == [k |-> "borrow", x |-> x]

Setups ==
  {Decl("d", "j", Lit(0)), Decl("d", "j", Lit(Big)), Do(At("a0", "v", Lit(1))),
   Decl("d", "s", Sub("v", Lit(2))), Do(At("a0", "v", Nm("i"))),
   If(Both("or", Cmp("<", Nm("i"), Lit(0)), Cmp(">=", Nm("i"), Lit(2))), <<Ret(Lit(0))>>, <<>>),
   If(Cmp("<", Length("v"), Lit(2)), <<Ret(Lit(0))>>, <<>>)}

\* What may change between the setup and the access.
Changes ==
  {Set("c", "v", Nm("w")), Set("c", "j", Lit(2)), Plus("c", "j", Lit(1)), Ref("v"), Do(At("a1", "v", Lit(1))),
   Ret(Lit(0)), Decl("c", "j", Lit(0))}
   \cup (IF BorrowCalls THEN {Borrow("v")} ELSE {})

Conditions ==
  {Flag, Cmp("<", Nm("j"), Lit(2)), Cmp(">=", Length("v"), Lit(2)),
   Both("and", Flag, Cmp("==", At("a2", "v", Lit(1)), Lit(0)))}

Middles ==
  Changes
  \cup {If(c, <<m>>, <<>>) : c \in Conditions, m \in Changes}
  \cup {If(Flag, <<m>>, <<Do(At("a3", "v", Lit(1)))>>) : m \in Changes}
  \cup {While(Cmp("<", Nm("j"), Lit(2)), <<Do(At("a4", "v", Nm("j"))), m, Plus("c2", "j", Lit(1))>>) : m \in Changes}
  \cup {For("k", Lit(0), hi, <<Do(At("a4", "v", Nm("k"))), m, Do(At("a5", "v", Nm("j")))>>) :
          hi \in {Lit(2), Length("v")}, m \in Changes}
  \cup {Block(<<m, Do(At("a4", "v", Nm("j")))>>) : m \in Changes}
  \cup {Arm(<<m>>) : m \in Changes}

Accesses ==
  {Do(At("z", "v", Lit(1))), Do(At("z", "v", Nm("j"))), Do(At("z", "v", Nm("i"))),
   Do(At("z", "v", Bin("+", Nm("j"), Lit(1)))), Do(At("z", "s", Lit(1)))}

Alone(b) == [body |-> b, fns |-> <<>>, sites |-> {}]
StraightUnits == {Alone(<<a, m, z>>) : a \in Setups, m \in Middles, z \in Accesses}

\* Private instances: Outer forwards its view to Cell, which reads element 1.
Cell == [body |-> <<Ret(At("cell", "v", Lit(1)))>>, params |-> {"v"}]
Outer == [body |-> <<Ret(Private("o1", "Cell", Nm("v")))>>, params |-> {"v"}]
Instances == [f \in {"Cell", "Outer"} |-> IF f = "Cell" THEN Cell ELSE Outer]
Longer == [k |-> "sub", x |-> "v", off |-> Lit(0), n |-> [k |-> "helper", a |-> Lit(1)]]
CallUnits ==
  {[body |-> <<If(Cmp("<", Length("v"), [k |-> "helper", a |-> Lit(1)]), <<Ret(Lit(0))>>, <<>>), m,
               Do(Private("m1", "Outer", Nm("v"))), z>>,
    fns |-> Instances,
    sites |-> {[id |-> "m1", f |-> "Outer"], [id |-> "o1", f |-> "Cell"]} \cup
              (IF z = Do(Private("m2", "Cell", Longer)) THEN {[id |-> "m2", f |-> "Cell"]} ELSE {}) \cup
              (IF z = Do([k |-> "match", a |-> Private("m3", "Cell", Nm("w"))]) THEN {[id |-> "m3", f |-> "Cell"]} ELSE {})] :
     m \in Changes,
     z \in {Do(Lit(0)), Do(Private("m2", "Cell", Longer)), Do([k |-> "match", a |-> Private("m3", "Cell", Nm("w"))])}}

BoundsFamily == StraightUnits \cup CallUnits
=============================================================================
