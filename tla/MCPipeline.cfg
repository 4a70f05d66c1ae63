CONSTANTS
  MinCapacity = 1
  MaxCapacity = 2
  Garbage <- MCGarbage
  Files <- MCFiles
  Faulty <- MCFaulty
SPECIFICATION FairSpec
INVARIANTS
  TypeOK
  RowsAccountedFor
  OneRowPerDay
  StampsMerged
  HeapSound
  LossOnlyInQueues
  OutputIsPrefix
  EndsInOrder
PROPERTIES
  ReturnsUnlessFailure
  DownstreamEnds
