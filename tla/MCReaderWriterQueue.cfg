CONSTANTS
  marked = b
  Elem = {a, b}
  NoElem = none
  maxSize = 8
  MAX_BLOCK_SIZE = 4
SPECIFICATION Spec
VIEW Rotated
CONSTRAINT OneMarked
INVARIANTS
  RingInv
PROPERTIES
  ImplementsFifo
