CONSTANTS
  Elem = {a}
  NoElem = none
  MinCapacity = 1
  MaxCapacity = 1
  MaxSent = 1
SPECIFICATION Spec
INVARIANTS
  QueueIsAtEnd
