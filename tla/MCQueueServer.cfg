SPECIFICATION Spec
CONSTANTS
  a = a
  b = b
  p = p
  q = q
  NoJob = NoJob
  Clients <- TwoClients
  Procs <- TwoProcs
  NumClients = 2
  Size = 1
  NumItems = 1
  Starts <- Plain
  MaxRequests = 1
  Codes = {"ok", "failed"}
INVARIANTS
  TypeOK
  DoneCellLive
  StartTogether
  LastHandlerEnds
SYMMETRY Symmetry
