------------------------------ MODULE MCCompiler ------------------------------
(***************************************************************************)
(* Model checking the compiler's passes.  A behaviour chooses one part of  *)
(* the compiler, compiles one program of that part's family and runs what  *)
(* was generated; the other parts stay idle, so the state spaces add up.   *)
(***************************************************************************)
EXTENDS LoweredBounds, OwnedPrograms, AsyncMachine, LirMachine, MachineRun

CONSTANTS Parts,        \* the parts of the compiler this instance looks at
          OwnedGaps,    \* the program shapes left out of OwnedFamily unless named
          AsyncGaps,    \* the same of AsyncFamily
          LirGaps,      \* the same of LirFamily
          MachineGaps   \* the same of MachineFamily

VARIABLE part

Lowering == INSTANCE LirLower
Source == INSTANCE SourceMeaning

BoundsFamilies == INSTANCE BoundsUnits WITH Big <- MaxInt, BorrowCalls <- FALSE
OwnedFamilies == INSTANCE OwnedUnitsFamily WITH Gaps <- OwnedGaps
AsyncFamilies == INSTANCE AsyncUnitsFamily
LirFamilies == INSTANCE LirUnitsFamily
BoundsUnitsMC == BoundsFamilies!BoundsFamily
OwnedUnitsMC == OwnedFamilies!OwnedFamily
AsyncUnitsMC == AsyncFamilies!AsyncFamily
LirUnitsMC == LirFamilies!LirFamily
LirDefectiveMC == LirFamilies!DefectiveFamily
LirCodeMC == LET LirOf(u) == Lowering!LowerFunction2Lir(u) IN [u \in LirUnitsMC |-> LirOf(u)]
LirMeaningMC ==
  LET Meaning(u, n) == Source!SrcRun(u, GivenTo(u, n)) IN [u \in LirUnitsMC |-> [n \in LirArguments |-> Meaning(u, n)]]
MachineUnitsMC == LirFamilies!MachineFamily
MachineDefectiveMC == LirFamilies!DefectiveMachineFamily
\* Around 0, and the largest and smallest signed and unsigned integers of LirMaxInt = 4.
MachineArgumentsMC == {0, 1, 2, 4, 5, 9} \X {0, 1, 2, 4, 5, 9}
\* LIR that its verifier does not accept is not selected.
MachineCodeMC ==
  LET Selected(u) ==
        LET f == Lowering!LowerFunction2Lir(u) IN
        IF f.err = "" /\ LirFaults(f) = {} THEN LowerLirToAmd64Machine(f, u.params) ELSE <<>>
  IN [u \in MachineUnitsMC |-> Selected(u)]
MachineMeaningMC ==
  LET GivenIntegers(u, arg) ==
        [n \in DOMAIN u.params |->
           IF u.params[n].t = "array" THEN [j \in 1 .. u.params[n].extent |-> SignedOf(GivenArray(u.params[n], arg)[j])]
           ELSE IntegerOf(u.params[n].t, GivenPattern(u.params[n], n, arg))]
      Meaning(u, arg) == Source!SrcRun(u, GivenIntegers(u, arg))
  IN [u \in MachineUnitsMC |-> [arg \in MachineArgumentsMC |-> Meaning(u, arg)]]

BoundsIdle == bUnit = 0 /\ bPlan = 0 /\ bEnv = 0 /\ bKont = 0 /\ bStatus = 0
OwnedIdle == oUnit = 0 /\ oCode = 0 /\ oEnv = 0 /\ oDrops = 0 /\ oStatus = 0
AsyncIdle == aUnit = 0 /\ aArgument = 0 /\ aCode = 0 /\ aOperation = 0 /\ aOut = 0 /\ aStatus = 0
LirIdle ==
  /\ lUnit = 0 /\ lArgument = 0 /\ lCode = <<>> /\ lDefect = 0 /\ lAt = 0 /\ lSlots = 0
  /\ lOut = 0 /\ lStatus = "idle" /\ lResult = 0
MachineIdle ==
  /\ mUnit = 0 /\ mArgument = 0 /\ mCode = 0 /\ mDefect = 0 /\ mAt = 0 /\ mRegs = 0 /\ mSlots = 0 /\ mArray = 0
  /\ mOut = 0 /\ mStatus = 0 /\ mResult = 0

CompilerInit ==
  /\ part \in Parts
  /\ IF part = "bounds" THEN BoundsInit ELSE BoundsIdle
  /\ IF part = "owners" THEN OwnedInit ELSE OwnedIdle
  /\ IF part = "async" THEN AsyncInit ELSE AsyncIdle
  /\ IF part = "lir" THEN LirInit ELSE LirIdle
  /\ IF part = "machine" THEN MachineInit ELSE MachineIdle

CompilerNext ==
  /\ UNCHANGED part
  /\ \/ part = "bounds" /\ BoundsNext /\ UNCHANGED <<ownedVars, asyncVars, lirVars, machineVars>>
     \/ part = "owners" /\ OwnedNext /\ UNCHANGED <<boundsVars, asyncVars, lirVars, machineVars>>
     \/ part = "async" /\ AsyncNext /\ UNCHANGED <<boundsVars, ownedVars, lirVars, machineVars>>
     \/ part = "lir" /\ LirNext /\ UNCHANGED <<boundsVars, ownedVars, asyncVars, machineVars>>
     \/ part = "machine" /\ MachineNext /\ UNCHANGED <<boundsVars, ownedVars, asyncVars, lirVars>>

CompilerSpec == CompilerInit /\ [][CompilerNext]_<<part, boundsVars, ownedVars, asyncVars, lirVars, machineVars>>

-----------------------------------------------------------------------------
(* The properties of the parts *)

\* The part that runs is in a state of its type.
CompilerTypeOK ==
  CASE part = "bounds" -> BoundsTypeOK
    [] part = "owners" -> OwnedTypeOK
    [] part = "async" -> AsyncTypeOK
    [] part = "lir" -> LirTypeOK
    [] part = "machine" -> MachineTypeOK




\* A function the compiler lowers to LIR passes its verifier and does what its
\* source does (LirMachine!LirFollowsSource).
LirKeepsMeaning == part = "lir" => LirFollowsSource

\* The machine code selected from LIR computes on bit patterns and flags what
\* the source computes on integers, and passes its verifier
\* (MachineRun!MachineFollowsSource).
MachineKeepsMeaning == part = "machine" => MachineFollowsSource
====
