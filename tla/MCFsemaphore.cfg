CONSTANTS
  t1 = t1
  t2 = t2
  t3 = t3
  Thread <- MCThread
  Signals = TRUE
  Max = 2
  Val = 1
  Width = 4
SPECIFICATION Spec
SYMMETRY MCSymmetry
INVARIANTS
  SemaphoreInv
