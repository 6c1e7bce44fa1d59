CONSTANTS
  a = a
  b = b
  zero = zero
  Elem <- MCElem
  Zero = zero
  Cap = 3
  MaxBatch = 2
  IndexBound = 5
SPECIFICATION Spec
INVARIANTS
  IInv
PROPERTIES
  ImplementsFifo
