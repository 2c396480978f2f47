\* Two workers and a host thread.  The core trace ends after a few registrations and wakes,
\* which also bounds the run: no wake is possible once it is full.
SPECIFICATION Spec
CONSTANTS
  Workers = {w1, w2}
  Hosts = {host}
  Free = free
  Kinds = {input, timer}
  NoKind = noKind
  ContextCapacity = 4
  ReadyCapacity = 3
  TraceCapacity = 4
  MaxTime = 1
INVARIANTS
  TypeOK
  QueueAgreement
  ClaimedOnce
  NeverTraps
  NobodyOversleeps
PROPERTIES
  NoLostNotification
  WorkersLeaveOnlyWhenIdle
  ImplementsLifecycle
