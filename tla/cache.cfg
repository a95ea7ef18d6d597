SPECIFICATION Spec
CONSTANTS
  k1 = k1
  k2 = k2
  k3 = k3
  v1 = v1
  v2 = v2
  Keys <- MCKeys
  Vals <- MCVals
  Capacity = 2
  NULL = NULL
  MaxAges = {0, 2}
  MaxTime = 3
SYMMETRY Symmetry
INVARIANTS
  TypeOK
  SizeCounts
  UniqueKeys
PROPERTIES
  ImplementsStore
  AnswersLatest
