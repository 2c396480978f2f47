----------------------------- MODULE OwnedPrograms -----------------------------
(***************************************************************************)
(* A function with owners checked, lowered and run.  The checker           *)
(* (OwnershipCheck) rejects it or not; the generator (OwnershipLowering)   *)
(* decides where the drops go; the run is that of the C it emits, with     *)
(* every condition and every failure left open.                            *)
(*                                                                         *)
(* oUnit is the function, oCode the operations left to run, oEnv the owner *)
(* each C variable holds, oDrops how often each owner was dropped.  An     *)
(* owner passed by value is dropped by the callee, a returned one by the   *)
(* caller: both count as its drop.                                         *)
(***************************************************************************)
EXTENDS OwnershipLowering

CONSTANTS OwnedUnits,      \* the functions compiled: records [params, body]
          OwnedCode,       \* what the generator emits for each: OwnedLowered
          LoopLimit        \* bound: passes of a loop

VARIABLES oUnit, oCode, oEnv, oDrops, oStatus
ownedVars == <<oUnit, oCode, oEnv, oDrops, oStatus>>

OwnedTypeOK ==
  /\ oUnit \in OwnedUnits
  /\ oStatus \in {"source", "rejected", "checked", "running", "returned", "used_after_drop"}
  /\ \A c \in DOMAIN oEnv : oEnv[c] \in DOMAIN oDrops
  /\ \A t \in DOMAIN oDrops : oDrops[t] \in Nat

OwnedInit ==
  /\ oUnit \in OwnedUnits
  /\ oCode = <<>> /\ oEnv = <<>> /\ oDrops = <<>> /\ oStatus = "source"

-----------------------------------------------------------------------------
(* Compiling *)

CheckOwners ==
  /\ oStatus = "source"
  /\ oStatus' = IF CheckFunction(oUnit.params, oUnit.body) THEN "checked" ELSE "rejected"
  /\ UNCHANGED <<oUnit, oCode, oEnv, oDrops>>

OwnedLowered ==
  LET Lower(u) == LowerFunction(u.params, u.body) IN [u \in OwnedUnits |-> Lower(u)]

\* The generator runs on what the checker accepted; the call hands in one owner
\* for each parameter.
LowerOwners ==
  /\ oStatus = "checked"
  /\ oStatus' = "running"
  /\ oCode' = OwnedCode[oUnit]
  /\ LET params == SetToSeq(oUnit.params) IN
     /\ oDrops' = [t \in 1 .. Len(params) |-> 0]
     /\ oEnv' = [x \in oUnit.params |-> CHOOSE t \in 1 .. Len(params) : params[t] = x]
  /\ UNCHANGED oUnit

-----------------------------------------------------------------------------
(* Running *)

Running(op) == oStatus = "running" /\ oCode /= <<>> /\ Head(oCode).op = op
Instr == Head(oCode)
After == Tail(oCode)
DropOwner(drops, t) == [drops EXCEPT ![t] = @ + 1]
DropOwners(drops, ts) == FoldLeft(DropOwner, drops, ts)

\* The value of a C expression is put into a variable.
Store(c, val) ==
  CASE val.v = "none" -> UNCHANGED <<oEnv, oDrops, oStatus>>
    [] val.v = "var" ->
         /\ oEnv' = IF val.c \in DOMAIN oEnv THEN (c :> oEnv[val.c]) @@ oEnv ELSE oEnv
         /\ UNCHANGED <<oDrops, oStatus>>
    [] val.v = "field" ->
         /\ oStatus' = IF oDrops[oEnv[val.c]] = 0 THEN oStatus ELSE "used_after_drop"
         /\ UNCHANGED <<oEnv, oDrops>>
    [] val.v = "call" ->
         LET taken == DropOwners(oDrops, [i \in DOMAIN val.args |-> oEnv[val.args[i]]]) IN
         /\ IF val.gives = "owner"
            THEN oDrops' = Append(taken, 0) /\ oEnv' = (c :> Len(taken) + 1) @@ oEnv
            ELSE oDrops' = taken /\ UNCHANGED oEnv
         /\ UNCHANGED oStatus

EvaluateValue ==
  /\ Running("eval")
  /\ Store(Instr.c, Instr.val)
  /\ oCode' = After
  /\ UNCHANGED oUnit

DropVariable ==
  /\ Running("drop")
  /\ oDrops' = DropOwner(oDrops, oEnv[Instr.c])
  /\ oCode' = After
  /\ UNCHANGED <<oUnit, oEnv, oStatus>>

TakeBranch ==
  /\ Running("branch")
  /\ \E code \in {Instr.then, Instr.else} : oCode' = code \o After
  /\ UNCHANGED <<oUnit, oEnv, oDrops, oStatus>>

AttemptSucceeds ==
  /\ Running("attempt")
  /\ Store(Instr.c, Instr.val)
  /\ oCode' = After
  /\ UNCHANGED oUnit

\* The callee consumed its arguments and gave nothing.
AttemptFails ==
  /\ Running("attempt")
  /\ Store(Instr.c, [Instr.val EXCEPT !.gives = "value"])
  /\ oCode' = Instr.fail \o After
  /\ UNCHANGED oUnit

RunLoop ==
  /\ Running("loop")
  /\ \/ oCode' = Instr.pre \o After
     \/ /\ Instr.passes < LoopLimit
        /\ oCode' = Instr.pre \o Instr.body \o <<[Instr EXCEPT !.passes = @ + 1]>> \o After
  /\ UNCHANGED <<oUnit, oEnv, oDrops, oStatus>>

\* To the handler of the enclosing try, which stands behind the try's body.
GotoHandler ==
  /\ Running("goto")
  /\ LET n == CHOOSE i \in DOMAIN oCode : oCode[i].op = "except" /\ oCode[i].label = Instr.label
     IN oCode' = oCode[n].pre \o SubSeq(oCode, n + 1, Len(oCode))
  /\ UNCHANGED <<oUnit, oEnv, oDrops, oStatus>>

PassHandler ==
  /\ Running("except")
  /\ oCode' = After
  /\ UNCHANGED <<oUnit, oEnv, oDrops, oStatus>>

\* A return statement, or the end of the body.
LeaveFunction ==
  /\ oStatus = "running"
  /\ oCode = <<>> \/ Running("leave")
  /\ oStatus' = "returned" /\ oCode' = <<>>
  /\ oDrops' = IF "return" \in DOMAIN oEnv THEN DropOwner(oDrops, oEnv["return"]) ELSE oDrops
  /\ UNCHANGED <<oUnit, oEnv>>

OwnedNext ==
  \/ CheckOwners \/ LowerOwners
  \/ EvaluateValue \/ DropVariable \/ TakeBranch \/ AttemptSucceeds \/ AttemptFails
  \/ RunLoop \/ GotoHandler \/ PassHandler \/ LeaveFunction

OwnedSpec == OwnedInit /\ [][OwnedNext]_ownedVars

\* A program the checker accepts drops every owner exactly once, by whatever
\* path it leaves the function, and reads none after its drop (validateBlock
\* and evt1FunctionLowerer together: neither keeps this alone).
DroppedExactlyOnce ==
  /\ oStatus /= "used_after_drop"
  /\ \A t \in DOMAIN oDrops : oDrops[t] <= 1
  /\ oStatus = "returned" => \A t \in DOMAIN oDrops : oDrops[t] = 1
=============================================================================
