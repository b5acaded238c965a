SPECIFICATION FairSpec
CONSTANTS
  NumDeposits = 1
  Amount <- Amount1
  Confirmations = 2
  BatchSize = 2
  MaxHeight = 4
  MaxForks = 1
PROPERTY RescansReplaced
CHECK_DEADLOCK FALSE
