SPECIFICATION MCSpec
CONSTANTS
  a = a
  b = b
  c = c
  filler = filler
  Ids <- MCIds
  EmptyContextId = filler
  Capacity = 3
  SlotCount = 3
  MaxGeneration = 2
  MaxReferences = 1
  MaxObjects = 4
  States = {"s", "t"}
  Start = "s"
  FrameCapacity = 2
  TraceCapacity = 4
  MemoryCapacity = 1
  EventCapacity = 2
  Pending = {1}
  Inputs <- AgentInputs
  LogCapacity = 2
INVARIANTS
  TypeOK
  WindowDistinct
  ContextIsReplayable
PROPERTIES
  ImplementsFifo
  ImplementsHeap
