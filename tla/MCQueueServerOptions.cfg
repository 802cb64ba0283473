SPECIFICATION FairSpec
CONSTANTS
  a = a
  b = b
  p = p
  q = q
  NoJob = NoJob
  Clients <- OneClient
  Procs <- TwoProcs
  NumClients = 1
  Size = 1
  NumItems = 1
  Starts <- OneOption
  MaxRequests = 2
  Codes = {"ok"}
INVARIANTS
  SomeProcRuns
  RepliedAfterOneRun
PROPERTIES
  ShutdownCompletes
  RequestsAreRun
  AdmissionLifts
