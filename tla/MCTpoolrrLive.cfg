CONSTANTS
  N = 1
  Cap = 2
  MaxJobs = 3
  MaxControl = 2
  Expiring <- MCExpiring
SPECIFICATION FairSpec
CHECK_DEADLOCK FALSE
INVARIANTS
  ThreadOrder
  SleepIsJustified
  AtMostOneLateStart
  StoppedIsQuiet
PROPERTIES
  WorkGetsDone
  CallsReturn
  PopallReturns
