CONSTANTS
  Expiring <- MCExpiring
  Pools <- MCPools
  Ops <- MCOps
  MaxOps = 2
  MaxPushes = 2
  MaxControl = 2
  CancelToo = TRUE
SPECIFICATION FairSpec
CHECK_DEADLOCK FALSE
INVARIANTS
  TypeOK
  OnePlace
  JobsInOnePlace
  HonestUnlessOverlapped
  JoinLeavesOnlyIO
  StoppedIsQuiet
  OnlyLimitsKill
PROPERTIES
  WorkGetsDone
  EndsReturn
