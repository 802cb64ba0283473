SPECIFICATION Spec
CHECK_DEADLOCK FALSE
CONSTANTS
  c1 = c1
  c2 = c2
  NoReply = NoReply
  Clients <- TwoClients
  MaxRequests <- OneEach
INVARIANT
  HandleAlive
