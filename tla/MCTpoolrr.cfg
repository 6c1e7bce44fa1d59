CONSTANTS
  N = 2
  Cap = 1
  MaxJobs = 3
  MaxControl = 1
  Expiring <- MCExpiring
SPECIFICATION Spec
CHECK_DEADLOCK FALSE
INVARIANTS
  PoolInv
  Conservation
  HonestResults
PROPERTIES
  JoinRunsAll
