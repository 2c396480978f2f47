------------------------------ MODULE MachineSelect ------------------------------
(***************************************************************************)
(* LowerLirToAmd64Machine for functions on integers and bool: a virtual    *)
(* register for every LIR value, the flags of a comparison used by the     *)
(* branch that follows it, and a trap block for everything that may fail.  *)
(* VerifyMachineFunction: what is checked of the result.                   *)
(*                                                                         *)
(* f is a function that VerifyLIR accepted, params its parameters' types.  *)
(* Ids of registers, flags and blocks count from 1, 0 is none.             *)
(***************************************************************************)
EXTENDS LirVerify

\* machineScalarWidth, in bytes, of a value.
ScalarWidth(t) == CASE t = "bool" -> 1 [] Integer(t) -> 4 [] t = "ptr" -> 8 [] OTHER -> 0
Signed(t) == t = "i32"

\* machineABIWidth: an array that has the size of a register is passed in it,
\* any other by its address.
PassedByAddress(p) == p.t = "array" /\ 4 * p.extent \notin {1, 2, 4, 8}
PassedWidth(p) == IF p.t /= "array" THEN ScalarWidth(p.t) ELSE IF PassedByAddress(p) THEN 8 ELSE 4 * p.extent

-----------------------------------------------------------------------------
(* Operands and instructions *)

Operand(k, id, w) == [k |-> k, id |-> id, w |-> w, base |-> 0, index |-> 0]
Virtual(v, w) == Operand("vreg", v, w)
Immediate(n, w) == Operand("imm", n, w)
Memory(base, index, w) == [Operand("mem", 0, w) EXCEPT !.base = base, !.index = index]
RAX == 0
ArgumentRegisters == <<2, 3, 8, 9>>   \* RCX, RDX, R8, R9
\* Win64Argument: four registers, then the caller's stack.
Incoming(n, w) == IF n <= 4 THEN Operand("preg", ArgumentRegisters[n], w) ELSE Operand("stack", 40 + 8 * (n - 5), w)
ResultRegister(w) == Operand("preg", RAX, w)
Nowhere == Operand("none", 0, 0)
Instruction(op, dst, src, w) ==
  [op |-> op, dst |-> dst, src |-> src, w |-> w, def |-> 0, use |-> 0, cond |-> "", of |-> "", args |-> <<>>]

\* MachineOpcodeEffects
SetsFlags(op) == op \in {"ADD", "SUB", "IMUL", "UMUL", "CMP", "TEST"}
Defines(op) == op \in {"MOV", "LOAD", "LEA", "SETCC", "CALL"}
Conditions == {"E", "NE", "L", "LE", "G", "GE", "B", "BE", "A", "AE", "O", "C"}

CompareCondition(op, t) ==
  CASE op = "eq" -> "E"
    [] op = "ne" -> "NE"
    [] op = "lt" -> IF Signed(t) THEN "L" ELSE "B"
    [] op = "le" -> IF Signed(t) THEN "LE" ELSE "BE"
    [] op = "gt" -> IF Signed(t) THEN "G" ELSE "A"
    [] op = "ge" -> IF Signed(t) THEN "GE" ELSE "AE"
ArithmeticOpcode(op, t) ==
  CASE op = "checked_add" -> "ADD" [] op = "checked_sub" -> "SUB"
    [] op = "checked_mul" -> IF Signed(t) THEN "IMUL" ELSE "UMUL"

\* Mutant: unsigned arithmetic is watched for signed overflow.
SignedOverflow(t) == "O"
OverflowCondition(t) == IF Signed(t) THEN "O" ELSE "C"

-----------------------------------------------------------------------------
(* machineBuilder: b.values gives the operand of a LIR value, b.flags the   *)
(* condition of a comparison that only the branch uses.                     *)

NoTerm == [op |-> "", true |-> 0, false |-> 0, cond |-> "", use |-> 0]
NewBlock == [code |-> <<>>, term |-> NoTerm]
EmitM(b, in) == [b EXCEPT !.blocks[b.cur].code = Append(@, in)]
TermM(b, term) == [b EXCEPT !.blocks[b.cur].term = term]
VReg(b, w, address) == [b EXCEPT !.vregs = Append(@, [w |-> w, address |-> address])]
LastVReg(b) == Virtual(Len(b.vregs), b.vregs[Len(b.vregs)].w)
Flag(b) == [b EXCEPT !.nextFlag = @ + 1]
BindValue(b, v, t, operand) == [b EXCEPT !.values = (v :> operand) @@ @, !.types = (v :> t) @@ @]

\* A new register that the instruction defines holds the LIR value v.
Produce(b, v, t, op, src) ==
  LET r == VReg(b, ScalarWidth(t), t = "ptr") IN
  BindValue(EmitM(r, Instruction(op, LastVReg(r), src, ScalarWidth(t))), v, t, LastVReg(r))

TrapBlock == [NewBlock EXCEPT !.code = <<Instruction("TRAP", Nowhere, <<>>, 0)>>, !.term = [NoTerm EXCEPT !.op = "TRAP"]]

\* The block continues in another one unless the condition holds.
FailureEdge(b, cond) ==
  LET trap == Len(b.blocks) + 1
      left == TermM(b, [op |-> "JCC", true |-> trap, false |-> trap + 1, cond |-> cond, use |-> b.nextFlag])
  IN [left EXCEPT !.blocks = @ \o <<TrapBlock, NewBlock>>, !.cur = trap + 1]

SelectParameter(b, p) ==
  LET n == Len(b.args) + 1
      r == VReg(b, PassedWidth(p), PassedByAddress(p))
      moved == EmitM(r, Instruction("MOV", LastVReg(r), <<Incoming(n, PassedWidth(p))>>, PassedWidth(p)))
  IN BindValue([moved EXCEPT !.args = Append(@, Len(r.vregs))], n, p.t, LastVReg(r))

Operands(b, in) == [j \in DOMAIN in.args |-> b.values[in.args[j]]]
CompareWith(b, src, w) ==
  LET q == Flag(b) IN EmitM(q, [Instruction("CMP", Nowhere, src, w) EXCEPT !.def = q.nextFlag])

SelectCall(b, in) ==
  LET r == VReg(b, ScalarWidth(in.t), FALSE)
      given == [j \in DOMAIN in.args |-> b.values[in.args[j]].id]
      call == [Instruction("CALL", LastVReg(r), <<>>, ScalarWidth(in.t)) EXCEPT !.of = in.of, !.args = given]
  IN BindValue(EmitM(r, call), in.r, in.t, LastVReg(r))

\* Two addresses: the left operand is copied and then changed.
SelectArithmetic(b, in) ==
  LET a == Operands(b, in)
      copied == Flag(Produce(b, in.r, in.t, "MOV", <<a[1]>>))
      op == [Instruction(ArithmeticOpcode(in.op, in.t), LastVReg(copied), <<a[2]>>, ScalarWidth(in.t)) EXCEPT !.def = copied.nextFlag]
  IN FailureEdge(EmitM(copied, op), OverflowCondition(in.t))

\* The last comparison of a block is left to its branch; any other is kept.
SelectComparison(b, in, branches) ==
  LET a == Operands(b, in)
      cond == CompareCondition(in.op, b.types[in.args[1]])
      compared == CompareWith(b, a, a[1].w)
      r == VReg(compared, 1, FALSE)
      set == [Instruction("SETCC", LastVReg(r), <<>>, 1) EXCEPT !.use = r.nextFlag, !.cond = cond]
  IN IF branches THEN [compared EXCEPT !.flags = (in.r :> [flag |-> compared.nextFlag, cond |-> cond]) @@ @]
     ELSE BindValue(EmitM(r, set), in.r, "bool", LastVReg(r))

\* Instruction n of block i of f.
SelectInstruction(b, f, i, n) ==
  LET in == f.blocks[i].code[n]
      term == f.blocks[i].term
      a == Operands(b, in)
      w == ScalarWidth(in.t)
  IN CASE in.op = "call" -> SelectCall(b, in)
       [] in.op = "const" -> Produce(b, in.r, in.t, "MOV", <<Immediate(in.n, w)>>)
       [] in.op = "load_slot" -> Produce(b, in.r, in.t, "LOAD", <<Operand("slot", in.slot, w)>>)
       [] in.op = "store_slot" -> EmitM(b, Instruction("STORE", Operand("slot", in.slot, w), a, w))
       [] in.op \in Arithmetic -> SelectArithmetic(b, in)
       [] in.op \in Comparisons ->
            SelectComparison(b, in, n = Len(f.blocks[i].code) /\ term.op = "branch" /\ term.v = in.r)
       [] in.op = "check_index" -> FailureEdge(CompareWith(b, <<a[1], Immediate(in.extent, a[1].w)>>, a[1].w), "AE")
       [] in.op = "index_address" -> Produce(b, in.r, "ptr", "LEA", <<Memory(b.slots[in.slot].base, a[1].id, 8)>>)
       [] in.op = "load" -> Produce(b, in.r, in.t, "LOAD", <<Memory(a[1].id, 0, w)>>)
       [] in.op = "store" -> EmitM(b, Instruction("STORE", Memory(a[1].id, 0, w), <<a[2]>>, w))

SelectTerm(b, f, i) ==
  LET t == f.blocks[i].term
      x == b.values[t.v]
      tested == LET q == Flag(b) IN EmitM(q, [Instruction("TEST", Nowhere, <<x, x>>, x.w) EXCEPT !.def = q.nextFlag])
      Branch(q, flag, cond) == TermM(q, [op |-> "JCC", true |-> t.true, false |-> t.false, cond |-> cond, use |-> flag])
      w == ScalarWidth(f.result)
  IN CASE t.op = "jump" -> TermM(b, [NoTerm EXCEPT !.op = "JMP", !.true = t.true])
       [] t.op = "branch" /\ t.v \in DOMAIN b.flags -> Branch(b, b.flags[t.v].flag, b.flags[t.v].cond)
       [] t.op = "branch" /\ t.v \notin DOMAIN b.flags -> Branch(tested, tested.nextFlag, "NE")
       [] t.op = "return" -> TermM(EmitM(b, Instruction("MOV", ResultRegister(w), <<x>>, w)), [NoTerm EXCEPT !.op = "RET"])

\* A slot of an array parameter is where the parameter points.
SelectSlot(b, s) ==
  IF s.extent > 0 THEN [size |-> 4 * s.extent, base |-> b.values[s.param].id] ELSE [size |-> ScalarWidth(s.t), base |-> 0]

LowerLirToAmd64Machine(f, params) ==
  LET empty == [blocks |-> [i \in DOMAIN f.blocks |-> NewBlock], vregs |-> <<>>, args |-> <<>>, slots |-> <<>>, cur |-> 1,
                values |-> <<>>, types |-> <<>>, flags |-> <<>>, nextFlag |-> 0, result |-> f.result]
      given == FoldLeft(SelectParameter, empty, params)
      slotted == [given EXCEPT !.slots = [s \in DOMAIN f.slots |-> SelectSlot(given, f.slots[s])]]
      Block(b, i) ==
        SelectTerm(FoldLeft(LAMBDA q, n : SelectInstruction(q, f, i, n), [b EXCEPT !.cur = i], [n \in DOMAIN f.blocks[i].code |-> n]), f, i)
  IN FoldLeft(Block, slotted, [i \in DOMAIN f.blocks |-> i])

-----------------------------------------------------------------------------
(* VerifyMachineFunction: m is accepted when MachineFaults(m) is empty. *)

Address(m, v) == v \in DOMAIN m.vregs /\ m.vregs[v].address
OperandFits(m, o) ==
  CASE o.k = "vreg" -> o.id \in DOMAIN m.vregs /\ o.w = m.vregs[o.id].w
    [] o.k = "slot" -> o.id \in DOMAIN m.slots /\ o.w <= m.slots[o.id].size /\ m.slots[o.id].base = 0
    [] o.k = "mem" -> Address(m, o.base) /\ (o.index > 0 => o.index \in DOMAIN m.vregs /\ ~Address(m, o.index))
    [] OTHER -> TRUE

\* The flags in force before instruction n of the block, 0 when there are none.
FlagsBefore(code, n) ==
  LET last == {k \in 1 .. n - 1 : SetsFlags(code[k].op) \/ code[k].op = "CALL"} IN
  IF last = {} THEN 0 ELSE code[CHOOSE k \in last : \A o \in last : o <= k].def

ShapeFits(m, in) ==
  LET one == Len(in.src) = 1
      sameWidth == in.w = in.dst.w /\ \A j \in DOMAIN in.src : in.src[j].w = in.w
  IN CASE in.op = "MOV" -> one /\ in.dst.k \in {"vreg", "preg"} /\ sameWidth
       [] in.op = "LOAD" -> one /\ in.dst.k = "vreg" /\ in.src[1].k \in {"slot", "mem"} /\ sameWidth
       [] in.op = "STORE" -> one /\ in.dst.k \in {"slot", "mem"} /\ sameWidth
       [] in.op = "LEA" -> one /\ in.dst.k = "vreg" /\ in.src[1].k = "mem" /\ Address(m, in.dst.id)
       [] in.op \in {"ADD", "SUB", "IMUL", "UMUL"} -> one /\ in.dst.k = "vreg" /\ sameWidth
       [] in.op \in {"CMP", "TEST"} -> Len(in.src) = 2 /\ \A j \in 1 .. 2 : in.src[j].w = in.w
       [] in.op = "SETCC" -> in.dst.k = "vreg" /\ in.w = 1 /\ in.dst.w = 1
       [] in.op = "CALL" ->
            /\ in.dst.w = in.w /\ ~Address(m, in.dst.id)
            /\ \A j \in DOMAIN in.args : in.args[j] \in DOMAIN m.vregs /\ m.vregs[in.args[j]].w = 4 /\ ~Address(m, in.args[j])
       [] in.op = "TRAP" -> TRUE

TermFits(m, block) ==
  LET t == block.term
      n == Len(block.code)
      Target(i) == i \in DOMAIN m.blocks
  IN CASE t.op = "JMP" -> Target(t.true)
       [] t.op = "JCC" ->
            /\ Target(t.true) /\ Target(t.false) /\ t.cond \in Conditions
            /\ t.use > 0 /\ t.use = FlagsBefore(block.code, n + 1)
       [] t.op = "RET" ->
            /\ n > 0 /\ block.code[n].op = "MOV"
            /\ block.code[n].dst.k = "preg" /\ block.code[n].dst.id = RAX /\ block.code[n].dst.w = ScalarWidth(m.result)
       [] t.op = "TRAP" -> n > 0 /\ block.code[n].op = "TRAP"
       [] OTHER -> FALSE

MachineFaults(m) ==
  LET places == Places(m)
      The(p) == InstructionAt(m, p)
      Definitions(v) == {p \in places : Defines(The(p).op) /\ The(p).dst.k = "vreg" /\ The(p).dst.id = v}
      FlagsFit(p) ==
        IF The(p).op = "SETCC"
        THEN The(p).use > 0 /\ The(p).use = FlagsBefore(m.blocks[p[1]].code, p[2]) /\ The(p).cond \in Conditions
        ELSE The(p).use = 0
  IN UNION {
       IF \E s \in DOMAIN m.slots : m.slots[s].base > 0 /\ ~Address(m, m.slots[s].base) THEN {"MIR_BAD_SLOT"} ELSE {},
       IF \E p \in places : \E o \in Range(The(p).src) \cup {The(p).dst} : ~OperandFits(m, o) THEN {"MIR_BAD_OPERAND"} ELSE {},
       IF \E p \in places : ~ShapeFits(m, The(p)) THEN {"MIR_BAD_SHAPE"} ELSE {},
       IF \E p, q \in places : p /= q /\ SetsFlags(The(p).op) /\ The(p).def = The(q).def THEN {"MIR_BAD_FLAGS_DEF"} ELSE {},
       IF \E p \in places : ~FlagsFit(p) THEN {"MIR_BAD_FLAGS_USE"} ELSE {},
       IF \E i \in DOMAIN m.blocks : ~TermFits(m, m.blocks[i]) THEN {"MIR_BAD_TERMINATOR"} ELSE {},
       IF \E v \in DOMAIN m.vregs : Cardinality(Definitions(v)) /= 1 THEN {"MIR_VREG_DEFINITION"} ELSE {}}
=============================================================================
