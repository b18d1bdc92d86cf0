SPECIFICATION Spec
CONSTANTS
  t1 = t1
  t2 = t2
  v1 = v1
  v2 = v2
  none = none
  Threads = {t1, t2}
  Keys <- ThreeKeys
  Values = {v1, v2}
  Nothing = none
  MaxItems = 2
  Ttl = 0
  MaxTime = 1
INVARIANT TypeOK
PROPERTY LeastRecentlyUsedGoes
PROPERTY ImplementsLossyMap

SYMMETRY Alike
