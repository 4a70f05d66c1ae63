CONSTANTS
  Consumers = {c1, c2}
  BLOCK_SIZE = 2
  IMPLICIT_INITIAL_INDEX_SIZE = 2
  initialBlockPoolSize = 1
  HalfRange = 6
  Nothing = nothing
  MaxIndex = 5
  MaxBlocks = 3
  MaxClaims = 4
SPECIFICATION Spec
SYMMETRY ConsumerSymmetry
INVARIANTS
  NeverOverdrawn
  FindsItsBlock
  DestroysEverything
PROPERTIES
  ImplementsStream
