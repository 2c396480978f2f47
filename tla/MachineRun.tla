------------------------------- MODULE MachineRun -------------------------------
(***************************************************************************)
(* A function on integers and bool through the machine part of the native  *)
(* pipeline: LIR selected into AMD64 operations, checked by                *)
(* VerifyMachineFunction, and run block by block on a machine with wrapped *)
(* integers and flags.  What the run shows must be the meaning of the      *)
(* source (SrcRun), which knows neither.                                   *)
(*                                                                         *)
(* An instruction may also get lost after selection: what the verifier     *)
(* still accepts reads no register and no flag that was not set.           *)
(***************************************************************************)
EXTENDS MachineSelect

CONSTANTS MachineUnits,      \* the functions, [params, result, body]
          MachineArguments,  \* pairs of bit patterns the parameters are given
          MachineCode,       \* unit -> the function selected for it, <<>> if its LIR is refused
          MachineMeaning,    \* unit -> argument -> what the source does
          MachineDefective   \* those that may lose an instruction

VARIABLES mUnit, mArgument,
          mCode,             \* the machine function
          mDefect,           \* whether an instruction of it is lost
          mAt,               \* the block to run next
          mRegs,             \* virtual register -> bit pattern, or an offset into the array
          mSlots,            \* stack slot -> bit pattern
          mArray,            \* what the array parameter points to
          mOut,              \* the calls made, with their arguments
          mStatus,           \* "source", "verify", "run", and how it ended
          mResult
machineVars == <<mUnit, mArgument, mCode, mDefect, mAt, mRegs, mSlots, mArray, mOut, mStatus, mResult>>

-----------------------------------------------------------------------------
(* Bit patterns *)

WordSize == 2 * (LirMaxInt + 1)
Pattern(v) == v % WordSize
SignedOf(p) == IF p > LirMaxInt THEN p - WordSize ELSE p
IntegerOf(t, p) == IF t = "i32" THEN SignedOf(p) ELSE p

\* Parameter n gets a digit of the argument, an array both of them in turn.
Digit(arg, n) == arg[1 + ((n + 1) % 2)]
GivenPattern(p, n, arg) == IF p.t = "bool" THEN Digit(arg, n) % 2 ELSE Digit(arg, n)
GivenArray(p, arg) == [j \in 1 .. p.extent |-> Digit(arg, j)]

-----------------------------------------------------------------------------
(* The machine *)

NoFlags == [z |-> FALSE, s |-> FALSE, c |-> FALSE, o |-> FALSE]
FlagsOf(r, carry, overflow) == [z |-> r = 0, s |-> SignedOf(r) < 0, c |-> carry, o |-> overflow]

\* A multiplication leaves no defined z and s; no condition on it reads them.
FlagsAfter(op, l, r) ==
  CASE op = "ADD" -> FlagsOf(Pattern(l + r), l + r >= WordSize, ~InRange("i32", SignedOf(l) + SignedOf(r)))
    [] op \in {"SUB", "CMP"} -> FlagsOf(Pattern(l - r), l < r, ~InRange("i32", SignedOf(l) - SignedOf(r)))
    [] op = "IMUL" -> LET lost == ~InRange("i32", SignedOf(l) * SignedOf(r)) IN FlagsOf(Pattern(l * r), lost, lost)
    [] op = "UMUL" -> LET lost == l * r >= WordSize IN FlagsOf(Pattern(l * r), lost, lost)
    [] op = "TEST" -> FlagsOf(l, FALSE, FALSE)
Computed(op, l, r) == CASE op = "ADD" -> Pattern(l + r) [] op = "SUB" -> Pattern(l - r) [] OTHER -> Pattern(l * r)

Holds(cond, fl) ==
  CASE cond = "E" -> fl.z [] cond = "NE" -> ~fl.z
    [] cond = "L" -> fl.s /= fl.o [] cond = "LE" -> fl.z \/ fl.s /= fl.o
    [] cond = "G" -> ~fl.z /\ fl.s = fl.o [] cond = "GE" -> fl.s = fl.o
    [] cond = "B" -> fl.c [] cond = "BE" -> fl.c \/ fl.z
    [] cond = "A" -> ~fl.c /\ ~fl.z [] cond = "AE" -> ~fl.c
    [] cond = "O" -> fl.o [] cond = "C" -> fl.c

\* The virtual registers that an instruction reads.
RegistersOf(o) == CASE o.k = "vreg" -> {o.id} [] o.k = "mem" -> {o.base, o.index} \ {0} [] OTHER -> {}
ReadBy(in) ==
  UNION {RegistersOf(o) : o \in Range(in.src)} \cup Range(in.args)
    \cup (IF in.op \in {"ADD", "SUB", "IMUL", "UMUL"} \/ in.dst.k = "mem" THEN RegistersOf(in.dst) ELSE {})

\* Where a caller puts argument n: RCX, RDX, R8, R9, then the stack above the
\* return address and the home area of the callee.
IsArgument(o, n) ==
  IF n <= 4 THEN o.k = "preg" /\ o.id = <<2, 3, 8, 9>>[n] ELSE o.k = "stack" /\ o.id = 8 + 32 + 8 * (n - 5)
ArgumentIn(o, u, arg) ==
  LET here == {n \in DOMAIN u.params : IsArgument(o, n)}
      n == CHOOSE n \in here : TRUE
  IN IF here = {} \/ u.params[n].t = "array" THEN 0 ELSE GivenPattern(u.params[n], n, arg)

\* q is the run so far; fl are the flags, rax the register of the result.
MachineStep(q, in) ==
  LET Offset(o) == q.regs[o.base] + (IF o.index = 0 THEN 0 ELSE q.regs[o.index])
      Inside(o) == o.k /= "mem" \/ Offset(o) < Len(q.array)
      Read(o) ==
        CASE o.k = "vreg" -> q.regs[o.id] [] o.k = "imm" -> Pattern(o.id) [] o.k = "slot" -> q.slots[o.id]
          [] o.k = "mem" -> q.array[Offset(o) + 1] [] OTHER -> ArgumentIn(o, mUnit, mArgument)
      Give(v) == IF in.dst.k = "preg" THEN [q EXCEPT !.rax = v] ELSE [q EXCEPT !.regs = (in.dst.id :> v) @@ @]
      Undefined == [q EXCEPT !.st = "undefined"]
  IN CASE q.st /= "run" -> q
       [] q.st = "run" /\ ~(ReadBy(in) \subseteq DOMAIN q.regs) -> Undefined
       [] OTHER ->
            CASE in.op = "MOV" -> Give(Read(in.src[1]))
              [] in.op = "LOAD" -> IF Inside(in.src[1]) THEN Give(Read(in.src[1])) ELSE Undefined
              [] in.op = "STORE" /\ in.dst.k = "slot" -> [q EXCEPT !.slots[in.dst.id] = Read(in.src[1])]
              [] in.op = "STORE" /\ in.dst.k = "mem" ->
                   IF Inside(in.dst) THEN [q EXCEPT !.array[Offset(in.dst) + 1] = Read(in.src[1])] ELSE Undefined
              [] in.op = "LEA" -> Give(Offset(in.src[1]))
              [] in.op \in {"CMP", "TEST"} -> [q EXCEPT !.fl = FlagsAfter(in.op, Read(in.src[1]), Read(in.src[2]))]
              [] in.op \in {"ADD", "SUB", "IMUL", "UMUL"} ->
                   LET l == Read(in.dst)
                       r == Read(in.src[1])
                   IN [Give(Computed(in.op, l, r)) EXCEPT !.fl = FlagsAfter(in.op, l, r)]
              [] in.op = "SETCC" -> Give(AsBool(Holds(in.cond, q.fl)))
              [] in.op = "CALL" ->
                   LET args == [j \in DOMAIN in.args |-> SignedOf(q.regs[in.args[j]])]
                   IN [Give(Pattern(Callee(in.of, args, q.out))) EXCEPT !.out = Append(@, <<in.of, args>>), !.fl = NoFlags]
              [] in.op = "TRAP" -> [q EXCEPT !.st = "trap"]

-----------------------------------------------------------------------------
(* Actions *)

MachineInit ==
  /\ mUnit \in MachineUnits
  /\ mArgument \in MachineArguments
  /\ mCode = <<>> /\ mDefect = FALSE /\ mAt = 1 /\ mRegs = <<>> /\ mSlots = <<>> /\ mArray = <<>>
  /\ mOut = <<>> /\ mStatus = "source" /\ mResult = 0

GenerateMachineIR ==
  /\ mStatus = "source"
  /\ mCode' = MachineCode[mUnit]
  /\ mStatus' = IF mCode' = <<>> THEN "refused" ELSE "verify"
  /\ UNCHANGED <<mUnit, mArgument, mDefect, mAt, mRegs, mSlots, mArray, mOut, mResult>>

LoseMachineInstruction ==
  /\ mUnit \in MachineDefective /\ mStatus = "verify" /\ ~mDefect
  /\ \E p \in Places(mCode) : mCode' = [mCode EXCEPT !.blocks[p[1]].code = RemoveAt(@, p[2])]
  /\ mDefect' = TRUE
  /\ UNCHANGED <<mUnit, mArgument, mAt, mRegs, mSlots, mArray, mOut, mStatus, mResult>>

\* The array starts with what the caller put there, the slots with 0.
VerifyMachine ==
  /\ mStatus = "verify"
  /\ IF MachineFaults(mCode) = {}
     THEN /\ mStatus' = "run"
          /\ mSlots' = [s \in DOMAIN mCode.slots |-> 0]
          /\ mArray' = FoldLeft(LAMBDA array, p : IF p.t = "array" THEN GivenArray(p, mArgument) ELSE array, <<>>, mUnit.params)
     ELSE mStatus' = "refused" /\ UNCHANGED <<mSlots, mArray>>
  /\ UNCHANGED <<mUnit, mArgument, mCode, mDefect, mAt, mRegs, mOut, mResult>>

\* One block.  The calls of code that lost an instruction are not recorded.
RunMachineBlock ==
  /\ mStatus = "run"
  /\ LET block == mCode.blocks[mAt]
         start == [regs |-> mRegs, slots |-> mSlots, array |-> mArray, out |-> mOut, fl |-> NoFlags, rax |-> 0, st |-> "run"]
         q == FoldLeft(MachineStep, start, block.code)
         t == block.term
         Ends == q.st = "run" /\ t.op = "RET"
     IN /\ mRegs' = q.regs /\ mSlots' = q.slots /\ mArray' = q.array
        /\ mOut' = IF mDefect THEN <<>> ELSE q.out
        /\ mStatus' = IF Ends THEN "return" ELSE q.st
        /\ mResult' = IF Ends THEN q.rax ELSE 0
        /\ mAt' = CASE q.st = "run" /\ t.op = "JMP" -> t.true
                    [] q.st = "run" /\ t.op = "JCC" -> IF Holds(t.cond, q.fl) THEN t.true ELSE t.false
                    [] OTHER -> mAt
  /\ UNCHANGED <<mUnit, mArgument, mCode, mDefect>>

MachineNext == GenerateMachineIR \/ LoseMachineInstruction \/ VerifyMachine \/ RunMachineBlock
MachineSpec == MachineInit /\ [][MachineNext]_machineVars

-----------------------------------------------------------------------------
(* Properties *)

MachineTypeOK ==
  /\ mUnit \in MachineUnits /\ mArgument \in MachineArguments /\ mDefect \in BOOLEAN
  /\ mStatus \in {"source", "refused", "verify", "run", "return", "trap", "undefined"}
  /\ mStatus \in {"run", "return", "trap"} =>
       mAt \in DOMAIN mCode.blocks /\ DOMAIN mRegs \subseteq DOMAIN mCode.vregs /\ mResult \in 0 .. WordSize - 1

\* The machine code of a function makes the calls of its source in their order,
\* traps when the source does and returns the bit pattern of its result; its
\* own verifiers accept it.  Code that lost an instruction is refused, or reads
\* no register before it is set.
MachineFollowsSource ==
  /\ mStatus /= "undefined"
  /\ ~mDefect => mStatus /= "refused"
  /\ ~mDefect /\ mStatus \in {"return", "trap"} =>
       LET meant == MachineMeaning[mUnit][mArgument] IN
       mStatus = meant.end /\ mOut = meant.out /\ (mStatus = "return" => mResult = Pattern(meant.result))
=============================================================================
