SPECIFICATION FairSpec
CHECK_DEADLOCK FALSE
CONSTANTS
  c1 = c1
  c2 = c2
  NoReply = NoReply
  Clients <- TwoClients
  MaxRequests <- TwoAndOne
INVARIANTS
  TypeOK
  CountsAreTrue
  OnlyLastIsLost
  OneTxnPerClient
PROPERTIES
  ServerStops
  ReceiveEnds
  ClientsStop
