SPECIFICATION Spec
CONSTANTS
  t1 = t1
  t2 = t2
  t3 = t3
  k1 = k1
  k2 = k2
  k3 = k3
  a = a
  b = b
  noKey = noKey
  noValue = noValue
  free = free
  Threads <- MCThreads
  Keys <- MCKeys
  Values <- MCValues
  NoKey = noKey
  NoValue = noValue
  Free = free
  Capacity = 2
  MaxRevision = 1
SYMMETRY Alike
PROPERTY
  NewKeysAreDirty
