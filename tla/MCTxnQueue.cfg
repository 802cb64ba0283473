SPECIFICATION Spec
CONSTANTS
  p1 = p1
  p2 = p2
  c1 = c1
  c2 = c2
  NoThread = NoThread
  Producers <- TwoProducers
  Consumers <- TwoConsumers
  Size = 2
  MaxTxns = 3
INVARIANTS
  TypeOK
  AssertsHold
  RingConsistent
  NoLostWakeup
PROPERTY
  FifoSpec
