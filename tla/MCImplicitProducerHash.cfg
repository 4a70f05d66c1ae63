CONSTANTS
  a = a
  b = b
  c = c
  Ids = {a, b, c}
  Hash <- MCHash
  INITIAL_IMPLICIT_PRODUCER_HASH_SIZE = 2
  Empty = empty
  Null = null
  MaxFailures = 1
  MaxCalls <- MCCalls
SPECIFICATION FairSpec
INVARIANTS
  OneProducerPerThread
  RoomInTables
PROPERTIES
  CallsReturn
