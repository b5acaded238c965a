SPECIFICATION FairSpec
CONSTANTS
  NumDeposits = 2
  Amount <- Amounts
  Confirmations = 3
  BatchSize = 2
  MaxHeight = 5
  MaxForks = 1
INVARIANTS TypeOK RowsFollowChain
PROPERTIES CreditingSpec CreditedUnlessHalted
CHECK_DEADLOCK FALSE
