SPECIFICATION Spec
CONSTANTS
  k1 = k1
  k2 = k2
  k3 = k3
  v1 = v1
  v2 = v2
  Keys <- MCKeys
  Vals <- MCVals
  Capacity = 2
  NULL = NULL
  MaxAges = {1, 3}
  MaxTime = 3
SYMMETRY Symmetry
PROPERTY EvictsLeastRecentlyUsed
