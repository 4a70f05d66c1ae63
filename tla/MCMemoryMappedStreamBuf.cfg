CONSTANTS
  ViewSize = 3
  Header = 2
  SizeT = 12
  Sizes <- MCSizes
  MapMayFail = {TRUE, FALSE}
  MaxRead = 14
SPECIFICATION Spec
INVARIANTS
  ReadsOnlyMapped
  ReadsInOrder
  ReadsAll
