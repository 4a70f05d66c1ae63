CONSTANTS
  Nodes = {n1, n2, n3}
  Null = null
  Getters = {g1, g2, t1}
  Putters = {p1, t1}
  SHOULD_BE_ON_FREELIST = 8
SPECIFICATION ListSpec
SYMMETRY Symmetry
INVARIANTS
  ListSound
  NothingLost
