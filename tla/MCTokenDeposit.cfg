SPECIFICATION FairSpec
CONSTANTS
  NumEndpoints = 2
  MaxAttempts = 2
  NumDeposits = 1
  Amount <- Amounts
  Confirmations = 2
  BatchSize = 3
  MaxHeight = 3
  MaxForks = 1
INVARIANTS TypeOK NoneSkipped
PROPERTIES CreditingSpec EveryDepositCredited
CHECK_DEADLOCK FALSE
