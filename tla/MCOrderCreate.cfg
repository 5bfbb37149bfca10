CONSTANTS
  v1 = v1
  v2 = v2
  v3 = v3
  VUs <- MCVUs
  MAX_USERS = 2
  InitialStock = 1
  MaxIters = 3
  StockBodies <- MCStockBodies
  FaultBodies <- MCFaultBodies
  Faults = TRUE

SPECIFICATION Spec
INVARIANT TypeOK OrdersNeverOverCounted SoldAndRefusedExact
PROPERTY LedgerSpec
