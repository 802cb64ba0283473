SPECIFICATION Spec
CONSTANTS
  a = a
  b = b
  p = p
  q = q
  NoJob = NoJob
  Clients <- OneClient
  Procs <- OneProc
  NumClients = 1
  Size = 1
  NumItems = 1
  Starts <- Plain
  MaxRequests = 1
  Codes = {"ok", "failed"}
INVARIANTS
  ReplyCarriesOutcome
