CONSTANTS
  USER_COUNT = 2
  CHARGES_PER_USER = 2
  LockBodies <- MCLockBodies
  FaultBodies <- MCFaultBodies
  Faults = TRUE

SPECIFICATION Spec
INVARIANT TypeOK ChargesNeverOverCounted FailuresPartitioned SameUserOverlapOnlyAfterTimeout
PROPERTY LedgerSpec
