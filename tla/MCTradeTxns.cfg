SPECIFICATION FairSpec
CHECK_DEADLOCK FALSE
CONSTANTS
  t1 = t1
  t2 = t2
  t3 = t3
  NoTxn = NoTxn
  Txns <- ThreeTxns
  Plans <- ThreeOfAll
  Accounts <- TwoAccounts
  Held <- OneHeld
  Symbols <- FourSymbols
  Listed <- ThreeListed
  Quoted <- ThreeQuoted
  MaxIds = 7
  MaxPrice = 2
INVARIANTS
  TypeOK
  HoldingsMatchLedger
PROPERTIES
  BookSpec
  TxnsEnd
