\* A trace with two entries, and a host that keeps calling Wake.
SPECIFICATION WakingSpec
CONSTANTS
  Workers = {w1, w2}
  Hosts = {host}
  Free = free
  Kinds = {input}
  NoKind = noKind
  ContextCapacity = 1
  ReadyCapacity = 1
  TraceCapacity = 2
  MaxTime = 1
PROPERTY
  WaitingContextsCanBeWoken
