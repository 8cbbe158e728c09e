SPECIFICATION Spec
CONSTANTS
  r1 = r1
  r2 = r2
  k1 = k1
  k2 = k2
  Requests <- MCRequests
  Keys <- MCKeys
  Sourced <- MCSourced
  Capacity = 1
  Limit = 1
  CostOf <- MCCostOf
  MaxRetries = 2
  MaxCalls = 3
  IOFailures = TRUE
  MaxEvents = 3
  MaxBoth = 4
SYMMETRY Symmetry
INVARIANTS CacheSound WithinLimit BooksAgree
CHECK_DEADLOCK FALSE
