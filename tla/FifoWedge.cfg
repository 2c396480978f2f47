\* One queue slot for two contexts, and a host that keeps asking for decisions.
SPECIFICATION FairSpec
CONSTANTS
  Kinds = {timer}
  NoKind = noKind
  ContextCapacity = 2
  ReadyCapacity = 1
  TraceCapacity = 13
  MaxTime = 1
  MaxDecisions = 0
PROPERTY
  RotationWithoutStarvation
