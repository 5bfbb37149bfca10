CONSTANTS
  v1 = v1
  v2 = v2
  VUs <- MCVUs
  MaxIters = 3
  Faults = TRUE

SPECIFICATION Spec
INVARIANT SelectionMatchesWeights
PROPERTY LedgerSpec
