CONSTANTS
  N = 2
  Cap = 1
  MaxJobs = 4
  MaxControl = 0
  Expiring <- MCExpiring
SPECIFICATION Spec
CHECK_DEADLOCK FALSE
PROPERTIES
  AssignCoversAllThreads
