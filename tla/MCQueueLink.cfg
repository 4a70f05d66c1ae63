CONSTANTS
  Elem = {a, b}
  NoElem = none
  MinCapacity = 2
  MaxCapacity = 3
  MaxSent = 5
SPECIFICATION FairSpec
INVARIANTS
  DeliveredUpToLastMiss
  LinkInv
PROPERTIES
  ImplementsStream
  ImplementsFairStream
