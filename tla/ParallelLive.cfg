\* Two contexts and a fair schedule of the threads.
SPECIFICATION FairSpec
CONSTANTS
  Workers = {w1, w2}
  Hosts = {host}
  Free = free
  Kinds = {input}
  NoKind = noKind
  ContextCapacity = 2
  ReadyCapacity = 2
  TraceCapacity = 3
  MaxTime = 1
PROPERTIES
  ReadyContextsRun
  QuantaArePublished
