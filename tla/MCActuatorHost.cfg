SPECIFICATION Spec
CONSTANTS
  t1 = t1
  t2 = t2
  t3 = t3
  done = done
  late = late
  noReason = noReason
  free = free
  Threads <- MCThreads
  Reasons <- MCReasons
  NoReason = noReason
  Free = free
  Capacity = 2
  MaxId = 3
SYMMETRY Alike
INVARIANTS
  TypeOK
  ExactlyOnce
  ReasonIsWinners
PROPERTIES
  ImplementsObligations
