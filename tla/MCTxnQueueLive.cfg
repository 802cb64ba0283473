SPECIFICATION FairSpec
CONSTANTS
  p1 = p1
  p2 = p2
  c1 = c1
  c2 = c2
  NoThread = NoThread
  Producers <- TwoProducers
  Consumers <- OneConsumer
  Size = 1
  MaxTxns = 3
PROPERTIES
  AcceptedIsDelivered
  CallsEnd
