SPECIFICATION Spec
CHECK_DEADLOCK FALSE
CONSTANTS
  NClusters = 4
  Bpc = 2
  Cpg = 1
  ClCount = 1
  Requests <- MCRequests
  MaxFaults = 2
  MaxCalls = 4
  Modulus = 16
INVARIANTS AllocationSafe CleanIsSame Accounted
