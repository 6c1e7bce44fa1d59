CONSTANTS
  p1 = p1
  p2 = p2
  a = a
  b = b
  Producer <- MCProducer
  None = None
  Elem <- MCElem
  Zero = Zero
  Cap = 2
SPECIFICATION Spec
INVARIANTS
  ProducersInv
PROPERTIES
  ImplementsFifo
