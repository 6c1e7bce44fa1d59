CONSTANTS
  Expiring <- MCExpiring
  Pools <- MCPools
  Ops <- MCOps
  MaxOps = 2
  MaxPushes = 2
  MaxControl = 1
  CancelToo = TRUE
SPECIFICATION Spec
CHECK_DEADLOCK FALSE
INVARIANTS
  CompletedHasRun
