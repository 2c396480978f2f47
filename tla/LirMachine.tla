------------------------------- MODULE LirMachine -------------------------------
(***************************************************************************)
(* One function through the native pipeline: lowered to LIR, checked by    *)
(* VerifyLIR, and run block by block.  The same function is also given its *)
(* source meaning (SrcRun), and what the run shows must be that.           *)
(*                                                                         *)
(* A function may also reach the verifier with one defect, an instruction  *)
(* lost or a jump gone elsewhere: whatever the verifier still accepts must *)
(* read nothing that was not written.                                      *)
(***************************************************************************)
EXTENDS LirVerify

CONSTANTS LirUnits,      \* the functions, [params, result, body]
          LirArguments,  \* what they are called with
          LirCode,       \* unit -> the function it is lowered to
          LirMeaning,    \* unit -> argument -> what the source does
          LirDefective   \* those that may get one defect after lowering

\* Parameter i is value i; an array is its slot's contents from the start.
ArrayParams(u) == {i \in DOMAIN u.params : u.params[i].t = "array"}

\* What the Go types of a function and of its parts say.  Arrays are of one type, so of
\* one length, in a function.
IsFunction(g) == g = [x \in DOMAIN g |-> g[x]]
IsSequence(s) == IsFunction(s) /\ Len(s) \in Nat /\ DOMAIN s = 1 .. Len(s)
IsBlock(block) ==
  /\ IsFunction(block) /\ {"code", "term"} \subseteq DOMAIN block
  /\ IsFunction(block.term) /\ IsSequence(block.code)
  /\ \A n \in DOMAIN block.code : block.code[n].r \in Nat /\ IsSequence(block.code[n].args)
IsLirFunction(u, f) ==
  /\ IsFunction(f) /\ "blocks" \in DOMAIN f
  /\ IsSequence(f.blocks) /\ f.blocks /= <<>> /\ \A i \in DOMAIN f.blocks : IsBlock(f.blocks[i])
  /\ IsSequence(u.params) /\ f.params \subseteq DOMAIN u.params /\ \A v \in f.params : f.ptypes[v] = u.params[v].t
  /\ \A n \in DOMAIN f.patterns : IsSequence(f.patterns[n].arms)
  /\ \A s \in DOMAIN f.slots :
       /\ f.slots[s].extent \in Nat /\ (f.slots[s].extent > 0 <=> f.slots[s].t = "array")
       /\ f.slots[s].extent > 0 => ArrayParams(u) /= {}
       /\ \A v \in ArrayParams(u) : f.slots[s].t = "array" => u.params[v].extent = f.slots[s].extent

ASSUME LirAssumption == \A u \in LirUnits : LirCode[u].err = "" => IsLirFunction(u, LirCode[u])

VARIABLES lUnit, lArgument,
          lCode,         \* the lowered function
          lDefect,       \* whether lCode has a defect
          lAt,           \* the block to run next
          lSlots,        \* slot -> what was written there
          lOut,          \* the calls made, with their arguments
          lStatus,       \* "source", "verify", "run", and how it ended: "refused", "return", "trap", "undefined"
          lResult
lirVars == <<lUnit, lArgument, lCode, lDefect, lAt, lSlots, lOut, lStatus, lResult>>

-----------------------------------------------------------------------------
(* Running LIR *)

\* g with v at x.
With(g, x, v) == [y \in DOMAIN g \cup {x} |-> IF y = x THEN v ELSE g[y]]

\* One instruction: vals are the values of the block, "undefined" if it used
\* one that is not there.
Step(q, in) ==
  LET known == Range(in.args) \subseteq DOMAIN q.vals
      a == [i \in DOMAIN in.args |-> q.vals[in.args[i]]]
      written == in.slot \in DOMAIN q.slots
      Give(v) == [q EXCEPT !.vals = With(@, in.r, v)]
      Undefined == [q EXCEPT !.st = "undefined"]
  IN CASE q.st /= "run" -> q
       [] q.st = "run" /\ ~known -> Undefined
       [] q.st = "run" /\ known ->
            CASE in.op = "const" -> Give(IF EnumType(in.t) THEN Member(in.n) ELSE in.n)
              [] in.op = "load_slot" -> IF written THEN Give(q.slots[in.slot]) ELSE Undefined
              [] in.op \in {"store_slot", "initialize_slot"} -> [q EXCEPT !.slots = With(@, in.slot, a[1])]
              [] in.op \in Arithmetic \cup Comparisons ->
                   LET v == Operate(in.op, a[1], a[2]) IN IF Overflows(in.op, in.t, v) THEN [q EXCEPT !.st = "trap"] ELSE Give(v)
              [] in.op = "call" -> [Give(Callee(in.of, a, q.out)) EXCEPT !.out = Append(@, <<in.of, a>>)]
              [] in.op = "make_tagged" -> Give([m |-> in.member, f |-> a])
              [] in.op = "test_variant" -> Give(AsBool(a[1].m = in.member))
              [] in.op = "require_variant" ->
                   IF a[1].m = in.member THEN q ELSE [q EXCEPT !.st = "trap"]
              [] in.op = "checked_payload" -> IF a[1].m = in.member THEN Give(a[1].f[in.field]) ELSE Undefined
              [] in.op = "check_index" -> IF a[1] \in 0 .. in.extent - 1 THEN q ELSE [q EXCEPT !.st = "trap"]
              [] in.op = "index_address" ->
                   IF written /\ a[1] < Len(q.slots[in.slot]) THEN Give(<<in.slot, a[1] + 1>>) ELSE Undefined
              [] in.op = "load" -> Give(q.slots[a[1][1]][a[1][2]])
              [] in.op = "store" -> [q EXCEPT !.slots[a[1][1]][a[1][2]] = a[2]]

StartSlots(u, args) ==
  [s \in {i \in DOMAIN lCode.slots : lCode.slots[i].extent > 0} |-> args[CHOOSE i \in ArrayParams(u) : TRUE]]

-----------------------------------------------------------------------------
(* Actions *)

LirInit ==
  /\ lUnit \in LirUnits
  /\ lArgument \in LirArguments
  /\ lCode = <<>> /\ lDefect = FALSE /\ lAt = 1 /\ lSlots = <<>> /\ lOut = <<>> /\ lStatus = "source" /\ lResult = 0

\* The arguments: the integer chosen, and an array and a sum for the other parameters.
GivenTo(u, n) ==
  [i \in DOMAIN u.params |->
     CASE u.params[i].t = "array" -> [j \in 1 .. u.params[i].extent |-> n]
       [] TaggedType(u.params[i].t) -> Callee("parse", <<n>>, <<>>)
       [] OTHER -> n]
Given == GivenTo(lUnit, lArgument)

LowerLir ==
  /\ lStatus = "source"
  /\ lCode' = LirCode[lUnit]
  /\ lStatus' = IF lCode'.err = "" THEN "verify" ELSE "unsupported"
  /\ UNCHANGED <<lUnit, lArgument, lDefect, lAt, lSlots, lOut, lResult>>

\* A defect of the lowering: an instruction is missing.
LoseInstruction ==
  /\ lUnit \in LirDefective /\ lStatus = "verify" /\ ~lDefect
  /\ \E p \in Places(lCode) : lCode' = [lCode EXCEPT !.blocks[p[1]].code = RemoveAt(@, p[2])]
  /\ lDefect' = TRUE
  /\ UNCHANGED <<lUnit, lArgument, lAt, lSlots, lOut, lStatus, lResult>>

\* A defect of the lowering: a block continues elsewhere.
MisdirectJump ==
  /\ lUnit \in LirDefective /\ lStatus = "verify" /\ ~lDefect
  /\ \E i, to \in DOMAIN lCode.blocks :
       /\ lCode.blocks[i].term.op \in {"jump", "branch"} /\ lCode.blocks[i].term.true /= to
       /\ lCode' = [lCode EXCEPT !.blocks[i].term.true = to]
  /\ lDefect' = TRUE
  /\ UNCHANGED <<lUnit, lArgument, lAt, lSlots, lOut, lStatus, lResult>>

VerifyLir ==
  /\ lStatus = "verify"
  /\ LET faults == LirFaults(lCode) IN
     IF faults = {} THEN lStatus' = "run" /\ lSlots' = StartSlots(lUnit, Given) /\ UNCHANGED lResult
     ELSE lStatus' = "refused" /\ lResult' = faults /\ UNCHANGED lSlots
  /\ UNCHANGED <<lUnit, lArgument, lCode, lDefect, lAt, lOut>>

\* One block.  The calls of a function with a defect are not recorded.
RunLirBlock ==
  /\ lStatus = "run"
  /\ LET block == lCode.blocks[lAt]
         start == [vals |-> Given, slots |-> lSlots, out |-> lOut, st |-> "run"]
         q == FoldLeft(Step, start, block.code)
         t == block.term
         Ends == q.st = "run" /\ t.op = "return"
     IN /\ lSlots' = q.slots
        /\ lOut' = IF lDefect THEN <<>> ELSE q.out
        /\ lStatus' = IF Ends THEN "return" ELSE q.st
        /\ lResult' = IF Ends THEN q.vals[t.v] ELSE 0
        /\ lAt' = CASE q.st = "run" /\ t.op = "jump" -> t.true
                    [] q.st = "run" /\ t.op = "branch" -> IF q.vals[t.v] = 1 THEN t.true ELSE t.false
                    [] OTHER -> lAt
  /\ UNCHANGED <<lUnit, lArgument, lCode, lDefect>>

LirNext == LowerLir \/ LoseInstruction \/ MisdirectJump \/ VerifyLir \/ RunLirBlock
LirSpec == LirInit /\ [][LirNext]_lirVars

-----------------------------------------------------------------------------
(* Properties *)

LirTypeOK ==
  /\ lUnit \in LirUnits /\ lArgument \in LirArguments
  /\ lStatus \in {"source", "unsupported", "verify", "refused", "run", "return", "trap", "undefined"}
  /\ lDefect \in BOOLEAN
  /\ lStatus \in {"run", "return", "trap"} => lAt \in DOMAIN lCode.blocks /\ DOMAIN lSlots \subseteq DOMAIN lCode.slots

\* A function the compiler lowers is accepted by its own verifier, and its run
\* makes the calls of the source in their order and ends as the source does.
LirFollowsSource ==
  ~lDefect =>
    /\ lStatus \notin {"refused", "undefined"}
    /\ lStatus \in {"return", "trap"} =>
         LET meant == LirMeaning[lUnit][lArgument] IN
         lStatus = meant.end /\ lOut = meant.out /\ lResult = meant.result

\* Whatever the lowering did, a function with a match that the verifier accepts
\* reads no value, slot, payload or element that is not there.  (Without a match
\* the verifier does not look whether scalar slots are initialized.)
AcceptedLirIsDefined == lCode /= <<>> /\ lStatus = "undefined" => lCode.patterns = <<>>
=============================================================================
