------------------------------ MODULE LirUnitsFamily ------------------------------
(***************************************************************************)
(* The functions the LIR pipeline and machine selection are run with.      *)
(*                                                                         *)
(* LirFamily has every expression that opens blocks, alone, as an operand  *)
(* before and after others, and in every statement that holds an           *)
(* expression.  LirGaps names the shapes that the lowering does not get    *)
(* right; they are left out unless named.                                  *)
(*                                                                         *)
(* MachineFamily has every operator on signed and on unsigned operands,    *)
(* its result returned, kept, compared or branched on, next to calls,      *)
(* loops and array elements.                                               *)
(***************************************************************************)
EXTENDS Integers, Sequences

CONSTANTS
  LirGaps,      \* a subset of {"bounded_while", "range_direction", "loop_item", "unsaved_operand"}
  MachineGaps   \* a subset of {"small_array"}

Typed(t, n) == [k |-> "int", n |-> n, t |-> t]
Num(n) == Typed("i32", n)
Name(x) == [k |-> "name", x |-> x]
Operation(op, t, l, r) == [k |-> "bin", op |-> op, l |-> l, r |-> r, t |-> t]
Bin(op, l, r) == Operation(op, "i32", l, r)
Call(f, args) == [k |-> "call", f |-> f, args |-> args]
Index(x, i) == [k |-> "index", x |-> x, i |-> i]
Logic(op, l, r) == [k |-> "logic", op |-> op, l |-> l, r |-> r]
IfE(c, then, else) == [k |-> "ife", c |-> c, then |-> then, else |-> else, t |-> "i32"]
Arm(pat, e) == [pat |-> pat, e |-> e]
MatchE(e, arms) == [k |-> "match", e |-> e, arms |-> arms, t |-> "i32"]
Fail(op, t, e, else) == [k |-> "fail", op |-> op, t |-> t, e |-> e, else |-> else]
Variant(t, member, args) == [k |-> "variant", t |-> t, member |-> member, args |-> args]
On(member, binds) == [k |-> "variant", member |-> member, binds |-> binds, n |-> 0]
Literal(n) == [k |-> "literal", n |-> n, binds |-> <<>>, member |-> 0]
Otherwise == [k |-> "wild", n |-> 0, binds |-> <<>>, member |-> 0]

Declared(x, t, e) == [k |-> "decl", x |-> x, t |-> t, e |-> e]
Decl(x, e) == Declared(x, "i32", e)
Assign(x, e) == [k |-> "assign", x |-> x, e |-> e]
Store(i, e) == [k |-> "store", x |-> "a", i |-> i, e |-> e]
Do(e) == [k |-> "do", e |-> e]
Return(e) == [k |-> "return", e |-> e]
If(c, then, else) == [k |-> "if", c |-> c, then |-> then, else |-> else]
While(c, body) == [k |-> "while", c |-> c, body |-> body, bound |-> -1, else |-> <<>>]
Foreach(x, lo, hi, body) == [k |-> "foreach", x |-> x, lo |-> lo, hi |-> hi, body |-> body]
Match(e, arms) == [k |-> "match", e |-> e, arms |-> arms]
On2(pat, body) == [pat |-> pat, body |-> body]
Try(body, except) == [k |-> "try", body |-> body, except |-> except]
Except(error, bind, body) == [error |-> error, bind |-> bind, body |-> body]

Next == Call("next", <<>>)
Note(e) == Call("note", <<e>>)
Parse(e) == Call("parse", <<e>>)
OkOf(e) == Variant("ResE", 1, <<e>>)
ErrorOf(member) == Variant("E", member, <<>>)
Parameter(x, t, extent) == [x |-> x, t |-> t, extent |-> extent]
Params == <<Parameter("x", "i32", 0), Parameter("r", "ResE", 0), Parameter("a", "array", 2)>>
Unit(body) == [params |-> Params, result |-> "ResE", body |-> body]

\* Expressions that open no block, and those that do.
Plain == {Num(1), Name("x"), Next, Index("a", Name("x")), Bin("checked_add", Name("x"), Next)}
Propagated == Fail("?", "ResE", Parse(Name("x")), <<>>)
Branching ==
  {Propagated,
   Fail("?", "ResE", Name("r"), <<>>),
   Fail("!", "ResE", Parse(Name("x")), <<>>),
   Fail("!", "Opt", Call("find", <<Name("x")>>), <<>>),
   Fail("?", "ResF", Call("fetch", <<Next>>), <<ErrorOf(2)>>),
   Fail("?", "ResE", Parse(Propagated), <<>>),
   IfE(Bin("lt", Name("x"), Num(1)), Next, Propagated),
   IfE(Logic("and", Bin("lt", Name("x"), Next), Bin("eq", Next, Name("x"))), Next, Num(1)),
   IfE(Logic("or", Bin("lt", Name("x"), Num(1)), Bin("eq", Propagated, Next)), Next, Name("x")),
   MatchE(Call("find", <<Name("x")>>), <<Arm(On(1, <<"p">>), Bin("checked_add", Name("p"), Next)), Arm(On(2, <<>>), Propagated)>>),
   MatchE(Next, <<Arm(Literal(0), Name("x")), Arm(Literal(1), Next), Arm(Otherwise, Num(1))>>),
   MatchE(Name("r"), <<Arm(On(1, <<"p">>), Name("p")),
                       Arm(On(2, <<"q">>), MatchE(Name("q"), <<Arm(On(1, <<>>), Next), Arm(On(2, <<>>), Num(1))>>))>>)}

Wrapped(l, r) ==
  {Bin("checked_add", l, r), Call("note", <<Bin("checked_add", l, r)>>), Bin("checked_add", l, Bin("checked_add", Next, r))}
Pairs == UNION {Wrapped(l, r) : l \in Plain, r \in Branching} \cup UNION {Wrapped(l, r) : l \in Branching, r \in Plain}
           \cup {Bin("checked_add", l, r) : l, r \in Branching}
Values == Branching \cup Pairs
Small == Branching \cup {Bin("checked_add", Next, e) : e \in Branching}

\* A statement around an expression.
Bodies(e) ==
  {<<Decl("y", e), Assign("y", Bin("checked_add", Name("y"), e)), Do(Note(Name("y"))), Return(OkOf(Name("y")))>>,
   <<If(Bin("lt", e, Num(2)), <<Do(Next), Return(OkOf(Num(1)))>>, <<Do(Note(e))>>), Return(OkOf(Next))>>,
   <<Decl("y", Num(0)), While(Bin("lt", Name("y"), e), <<Do(Note(Name("y"))), Assign("y", Bin("checked_add", Name("y"), Num(1)))>>),
     Return(OkOf(Name("y")))>>,
   <<Decl("y", Num(0)), Foreach("i", Num(0), Num(2), <<Assign("y", Bin("checked_add", Name("i"), e))>>), Return(OkOf(Name("y")))>>,
   <<Match(Call("find", <<Name("x")>>), <<On2(On(1, <<"p">>), <<Do(Note(e)), Return(OkOf(Name("p")))>>), On2(On(2, <<>>), <<Do(e)>>)>>),
     Return(OkOf(Next))>>,
   <<Decl("y", Num(0)), Try(<<Assign("y", e)>>, <<Except("E", "q", <<Do(Next)>>)>>), Return(OkOf(Bin("checked_add", Name("y"), Next)))>>,
   <<Try(<<Do(Note(e)), Try(<<Do(Fail("?", "ResF", Call("fetch", <<Name("x")>>), <<>>)), Do(Note(e))>>,
                            <<Except("F", "q", <<Do(Note(e))>>)>>)>>,
         <<Except("E", "s", <<Do(Next), Return(OkOf(Num(2)))>>)>>), Return(OkOf(Next))>>,
   <<Foreach("i", Num(0), Num(2), <<Try(<<Do(Note(e)), Return(OkOf(Name("i")))>>, <<Except("E", "q", <<>>)>>)>>), Return(OkOf(Next))>>}

Gap(name, bodies) == IF name \in LirGaps THEN {Unit(body) : body \in bodies} ELSE {}
LirFamily ==
  {Unit(<<Decl("y", e), Return(OkOf(Name("y")))>>) : e \in Values}
    \cup UNION {{Unit(body) : body \in Bodies(e)} : e \in Small}
    \cup Gap("bounded_while",
             {<<[While(Bin("lt", Next, Num(3)), <<Do(Note(Name("x")))>>) EXCEPT !.bound = 1, !.else = <<Do(Note(Num(2)))>>],
                Return(OkOf(Num(0)))>>})
    \cup Gap("range_direction", {<<Foreach("i", Num(1), Name("x"), <<Do(Note(Name("i")))>>), Return(OkOf(Num(0)))>>})
    \cup Gap("loop_item", {<<Foreach("i", Num(0), Num(2), <<Do(Note(Name("i"))), Assign("i", Num(1))>>), Return(OkOf(Num(0)))>>})
    \cup Gap("unsaved_operand",
             {<<Return(OkOf(Bin("checked_add", Next, Index("a", Propagated))))>>,
              <<Store(Num(0), Propagated), Return(OkOf(Num(0)))>>,
              <<Foreach("i", Next, Propagated, <<>>), Return(OkOf(Num(0)))>>})

\* The functions whose lowering is also given a defect.
DefectiveFamily ==
  {Unit(body) : body \in Bodies(Propagated)}
    \cup {Unit(<<Decl("y", Bin("checked_add", Propagated, Index("a", Name("x")))), Return(OkOf(Name("y")))>>)}
-----------------------------------------------------------------------------
(* The functions of machine selection *)

\* x and y are signed, u and v unsigned; the array is the fifth parameter.
ParamsWith(extent) ==
  <<Parameter("x", "i32", 0), Parameter("y", "i32", 0), Parameter("u", "u32", 0), Parameter("v", "u32", 0),
    Parameter("a", "array", extent)>>
\* The last of these are passed on the stack.
StackParams ==
  <<Parameter("a", "array", 3), Parameter("x", "i32", 0), Parameter("y", "i32", 0), Parameter("u", "u32", 0),
    Parameter("v", "u32", 0), Parameter("b", "bool", 0)>>
MachineUnit(result, body) == [params |-> ParamsWith(3), result |-> result, body |-> body]

Operators == {"checked_add", "checked_sub", "checked_mul"}
Tests == {"eq", "ne", "lt", "le", "gt", "ge"}
Scalars == {<<"i32", Name("x"), Name("y")>>, <<"u32", Name("u"), Name("v")>>}

\* Comparisons of both types, of parameters and of what was computed from them.
Compared == {Operation(op, s[1], s[2], s[3]) : op \in Tests, s \in Scalars}
Computed == {Operation(op, s[1], s[2], s[3]) : op \in Operators, s \in Scalars}
Conditions ==
  Compared \cup {Bin("lt", Bin(op, Name("x"), Num(2)), Name("y")) : op \in Operators}
           \cup {Bin("ge", Index("a", Name("x")), Next), Operation("eq", "bool", Bin("lt", Name("x"), Name("y")), Operation("lt", "u32", Name("u"), Name("v")))}

MachineBodies(c) ==
  {<<If(c, <<Do(Note(Num(1)))>>, <<>>), Return(Next)>>,
   <<Declared("b", "bool", c), Do(Note(Name("x"))), If(Name("b"), <<Return(Num(1))>>, <<Return(Name("y"))>>)>>,
   <<Decl("z", IfE(c, Name("x"), Note(Name("y")))), Return(Bin("checked_add", Name("z"), Num(1)))>>,
   <<If(Logic("and", c, Operation("lt", "u32", Name("u"), Typed("u32", 3))), <<Do(Note(Name("x")))>>, <<Do(Next)>>), Return(Next)>>,
   <<If(Logic("or", c, Bin("gt", Name("y"), Next)), <<Return(Num(2))>>, <<>>), Return(Next)>>}

Signed == {Name("x"), Num(1), Next, Index("a", Name("u")), Bin("checked_sub", Name("x"), Name("y"))}
Loops ==
  {<<Declared("n", "u32", Typed("u32", 0)),
     While(Operation("lt", "u32", Name("n"), Name("u")), <<Do(Note(Index("a", Name("n")))), Assign("n", Operation("checked_add", "u32", Name("n"), Typed("u32", 1)))>>),
     Return(Next)>>,
   <<Foreach("i", Num(0), Num(3), <<Do(Note(Index("a", Name("i")))), Store(Name("i"), Bin("checked_mul", Name("i"), Name("y")))>>),
     Return(Index("a", Name("x")))>>}
Stores == {<<Store(i, e), Do(Note(Index("a", i))), Return(Index("a", Num(1)))>> : i \in {Name("x"), Name("u"), Num(2)}, e \in Signed}

MachineFamily ==
  {MachineUnit("i32", body) : body \in UNION {MachineBodies(c) : c \in Conditions} \cup Loops \cup Stores}
    \cup {MachineUnit(e.t, <<Return(e)>>) : e \in Computed}
    \cup {MachineUnit(s[1], <<Declared("z", s[1], Operation(op, s[1], s[2], s[3])), Return(Operation(other, s[1], Name("z"), s[3]))>>)
            : op \in Operators, other \in Operators, s \in Scalars}
    \cup {MachineUnit("i32", <<Return(Bin(op, l, r))>>) : op \in Operators, l \in Signed, r \in Signed}
    \cup {[params |-> StackParams, result |-> e.t, body |-> <<If(Name("b"), <<Return(e)>>, <<>>), Return(e.l)>>] : e \in Computed}
    \cup IF "small_array" \in MachineGaps
         THEN {[params |-> ParamsWith(2), result |-> "i32", body |-> <<Return(Index("a", Name("x")))>>]} ELSE {}

\* The functions that may lose an instruction.
DefectiveMachineFamily ==
  {MachineUnit("i32", body) : body \in MachineBodies(Bin("lt", Name("x"), Name("y"))) \cup Loops}
    \cup {MachineUnit("u32", <<Return(Operation("checked_mul", "u32", Name("u"), Name("v")))>>)}
=============================================================================
