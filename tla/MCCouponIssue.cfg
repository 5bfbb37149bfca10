CONSTANTS
  v1 = v1
  v2 = v2
  v3 = v3
  VUs <- MCVUs
  MAX_USERS = 2
  Stock = 1
  MaxIters = 3
  SoldOutBodies <- MCSoldOutBodies
  AlreadyIssuedBodies <- MCAlreadyIssuedBodies
  FaultBodies <- MCFaultBodies
  Faults = TRUE

SPECIFICATION Spec
INVARIANT TypeOK HarnessNeverOverCounts SinksAgree IssuedCountExact
PROPERTY LedgerSpec
