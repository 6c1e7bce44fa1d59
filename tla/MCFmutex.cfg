CONSTANTS
  t1 = t1
  t2 = t2
  t3 = t3
  Thread <- MCThread
  Signals = TRUE
SPECIFICATION FairSpec
INVARIANTS
  MutexInv
PROPERTIES
  SomeoneGetsIt
