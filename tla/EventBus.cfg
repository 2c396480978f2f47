\* Two producers and two readers with two kinds of events on a bus that fills up.
SPECIFICATION Spec
CONSTANTS
  Producers = {p1, p2}
  Readers = {r1, r2}
  Kinds = {input, timer}
  NoKind = noKind
  Free = free
  Capacity = 4
INVARIANT
  TypeOK
PROPERTY
  ImplementsLog
