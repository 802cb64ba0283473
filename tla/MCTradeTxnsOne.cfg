SPECIFICATION Spec
CHECK_DEADLOCK FALSE
CONSTANTS
  t1 = t1
  t2 = t2
  t3 = t3
  NoTxn = NoTxn
  Txns <- TwoTxns
  Plans <- TwoPurchases
  Accounts <- TwoAccounts
  Held <- OneHeld
  Symbols <- FourSymbols
  Listed <- ThreeListed
  Quoted <- ThreeQuoted
  MaxIds = 3
  MaxPrice = 2
INVARIANT
  OnePortfolio
