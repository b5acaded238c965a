SPECIFICATION FairSpec
CONSTANTS
  NumDeposits = 2
  NumTopups = 1
  Amount <- Amounts
  Confirmations = 2
  BatchSize = 2
  MaxHeight = 4
  MaxBlocks = 5
INVARIANTS TypeOK NoneSkipped TopupsNotCredited
PROPERTIES CreditingSpec EveryDepositCredited
CHECK_DEADLOCK FALSE
