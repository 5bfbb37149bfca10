CONSTANTS
  PointIterations = 2
  MaxIters = 1

SPECIFICATION Spec
INVARIANT TypeOK OverlapOnlyWhileDraining RequestsAccounted
