CONSTANTS
  Threads = {t1, t2, t3, t4}
  Consumers = {c1, c2}
  NoProducer = null
  MaxPuts = 1
SPECIFICATION Spec
SYMMETRY Symmetry
INVARIANTS
  EveryProducerChecked
PROPERTIES
  ImplementsStreams
