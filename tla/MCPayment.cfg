CONSTANTS
  v1 = v1
  v2 = v2
  VUs <- MCVUs
  MAX_USERS = 2
  PRODUCTS = 1
  SETUP_ORDERS = 1
  InitialStock = 2
  InitialPoints = 1000
  CouponHolders = {1}
  MaxIters = 3
  Faults = TRUE

SPECIFICATION Spec
INVARIANT TypeOK PaymentsNeverOverCounted EveryIterationCountedOnce
PROPERTY LedgerSpec
