CONSTANTS
  v1 = v1
  v2 = v2
  v3 = v3
  VUs <- MCVUs
  MAX_USERS = 2
  Stock = 1
  SoldOutBodies <- MCSoldOutBodies
  AlreadyIssuedBodies <- MCAlreadyIssuedBodies
  FaultBodies <- MCFaultBodies
  MaxIters = 4
  Faults = TRUE

SYMMETRY Symmetry
SPECIFICATION Spec
INVARIANT ReportTotalCountsAllRequests
