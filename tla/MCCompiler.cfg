\* One part at a time; a program ends, so the model may stop.
SPECIFICATION CompilerSpec
CONSTANTS
  Parts = {"bounds", "owners", "async", "lir", "machine"}
  Units <- BoundsUnitsMC
  Plans <- BoundsPlans
  MaxInt = 4
  MaxLength = 2
  Arguments = {0, 2}
  Verify = FALSE
  OwnedUnits <- OwnedUnitsMC
  OwnedCode <- OwnedLowered
  OwnedGaps = {}
  LoopLimit = 2
  AsyncUnits <- AsyncUnitsMC
  AsyncMeaning <- AsyncMeant
  AsyncGaps = {}
  AsyncArguments = {0, 1, 2, 3}
  StackCapacity = 3
  LirUnits <- LirUnitsMC
  LirCode <- LirCodeMC
  LirMeaning <- LirMeaningMC
  LirDefective <- LirDefectiveMC
  LirGaps = {}
  LirArguments = {0, 1, 2}
  LirMaxInt = 4
  MachineUnits <- MachineUnitsMC
  MachineCode <- MachineCodeMC
  MachineMeaning <- MachineMeaningMC
  MachineDefective <- MachineDefectiveMC
  MachineArguments <- MachineArgumentsMC
  MachineGaps = {}
INVARIANTS
  CompilerTypeOK
  
  
  
  LirKeepsMeaning
  AcceptedLirIsDefined
  MachineKeepsMeaning
CHECK_DEADLOCK FALSE
