SPECIFICATION Spec
CONSTANTS
  Files <- SomeFiles
  Options <- SomeOptions
  UpdatesPerThread = 2
  MaxStarts = 2
  NoSymbol = NoSymbol
  NumClients = 2
  NumUsers = 4
  NumStocks = 3
  MinPortfolios = 2
  MaxPortfolios = 3
  LoadIterations = 2
  NoRequest = NoRequest
INVARIANTS
  TypeOK
  LoadIsWhole
  ReleasedLast
  SlicesFit
  CountedItem
  EnvAlive
  OwnAccounts
PROPERTY
  OneLoader
CHECK_DEADLOCK FALSE
