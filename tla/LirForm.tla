--------------------------------- MODULE LirForm ---------------------------------
(***************************************************************************)
(* What LIR functions are made of: the types of their values, and what an  *)
(* operator does with values.  The lowering, the verifier, the machines    *)
(* and the meaning of the source all speak of these.                       *)
(***************************************************************************)
EXTENDS Integers, Sequences, SequencesExt, FiniteSets, TLC

CONSTANT LirMaxInt   \* the largest signed integer; the smallest is -LirMaxInt - 1
ASSUME IntegerAssumption == LirMaxInt \in Nat

-----------------------------------------------------------------------------
(* Types and operators *)

\* The sum types of the programs: the payload types of each variant.  An enum
\* without payloads is a scalar, the others are tagged values.
Domains ==
  [ResE |-> <<<<"i32">>, <<"E">>>>, ResF |-> <<<<"i32">>, <<"F">>>>, Opt |-> <<<<"i32">>, <<>>>>,
   Pair |-> <<<<"i32", "i32">>, <<"i32">>>>, E |-> <<<<>>, <<>>>>, F |-> <<<<>>>>]
TaggedType(t) == t \in {"ResE", "ResF", "Opt", "Pair"}
EnumType(t) == t \in {"E", "F"}
ResultType(t) == t \in {"ResE", "ResF"}
ErrorType(t) == Domains[t][2][1]
\* The functions the programs call.
Callees == {"note", "next", "parse", "fetch", "find"}
ParameterCount(f) == IF f = "next" THEN 0 ELSE 1
ReturnType(f) == CASE f \in {"note", "next"} -> "i32" [] f = "parse" -> "ResE" [] f = "fetch" -> "ResF" [] f = "find" -> "Opt"

Comparisons == {"eq", "ne", "lt", "le", "gt", "ge"}
Arithmetic == {"checked_add", "checked_sub", "checked_mul"}

-----------------------------------------------------------------------------
(* Values *)

\* A value of a sum type is its member and payload, of an enum as well.
Member(m) == [m |-> m, f |-> <<>>]
Success(v) == [m |-> 1, f |-> <<v>>]
Error(v) == [m |-> 2, f |-> <<v>>]
\* next counts its calls.
Callee(f, args, calls) ==
  CASE f = "note" -> args[1]
    [] f = "next" -> Cardinality({i \in DOMAIN calls : calls[i][1] = "next"})
    [] f = "parse" -> IF args[1] = 1 THEN Error(Member(1)) ELSE Success(args[1])
    [] f = "fetch" -> IF args[1] = 2 THEN Error(Member(1)) ELSE Success(args[1])
    [] f = "find" -> IF args[1] = 0 THEN Member(2) ELSE Success(args[1])
AsBool(p) == IF p THEN 1 ELSE 0
Operate(op, l, r) ==
  CASE op = "checked_add" -> l + r [] op = "checked_sub" -> l - r [] op = "checked_mul" -> l * r
    [] op = "eq" -> AsBool(l = r) [] op = "ne" -> AsBool(l /= r) [] op = "lt" -> AsBool(l < r)
    [] op = "le" -> AsBool(l <= r) [] op = "gt" -> AsBool(l > r) [] op = "ge" -> AsBool(l >= r)
InRange(t, v) == IF t = "u32" THEN v \in 0 .. 2 * LirMaxInt + 1 ELSE v \in -LirMaxInt - 1 .. LirMaxInt
Overflows(op, t, v) == op \in Arithmetic /\ ~InRange(t, v)
=================================================================================
