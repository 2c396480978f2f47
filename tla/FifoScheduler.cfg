\* Three contexts and a ready queue of two slots, so that scans fail half way; a trace with
\* room for a handful of decisions, so that it runs out at every point of one.
SPECIFICATION Spec
CONSTANTS
  Kinds = {timer}
  NoKind = noKind
  ContextCapacity = 3
  ReadyCapacity = 2
  TraceCapacity = 24
  MaxTime = 1
  MaxDecisions = 2
INVARIANTS
  TypeOK
  QueueAgreement
  NobodyStrandedRunning
  BoundedBypass
PROPERTIES
  IdleMeansNoReady
  LifecycleEdges
  BegunDecisionsAreRecorded
