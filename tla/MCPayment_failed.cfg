CONSTANTS
  v1 = v1
  v2 = v2
  VUs <- MCVUs
  MAX_USERS = 2
  PRODUCTS = 2
  SETUP_ORDERS = 1
  InitialStock = 1
  InitialPoints = 1000
  CouponHolders = {1}
  MaxIters = 3
  Faults = FALSE
SYMMETRY Symmetry
SPECIFICATION Spec
INVARIANT PaymentFailedCountsPayments
