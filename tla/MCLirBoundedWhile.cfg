\* The native path alone, with a bounded loop among its programs.
SPECIFICATION CompilerSpec
CONSTANTS
  Parts = {"lir"}
  Units <- BoundsUnitsMC
  Plans <- BoundsPlans
  MaxInt = 4
  MaxLength = 2
  Arguments = {0, 2}
  Verify = FALSE
  OwnedUnits <- OwnedUnitsMC
  OwnedCode <- OwnedLowered
  OwnedGaps = {}
  LoopLimit = 2
  AsyncUnits <- AsyncUnitsMC
  AsyncMeaning <- AsyncMeant
  AsyncGaps = {}
  AsyncArguments = {0}
  StackCapacity = 3
  LirUnits <- LirUnitsMC
  LirCode <- LirCodeMC
  LirMeaning <- LirMeaningMC
  LirDefective = {}
  LirGaps = {"bounded_while"}
  LirArguments = {0, 1, 2}
  LirMaxInt = 4
  MachineUnits = {}
  MachineCode <- MachineCodeMC
  MachineMeaning <- MachineMeaningMC
  MachineDefective = {}
  MachineArguments <- MachineArgumentsMC
  MachineGaps = {}
INVARIANT LirKeepsMeaning
CHECK_DEADLOCK FALSE
