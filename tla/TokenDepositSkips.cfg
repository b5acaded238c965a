SPECIFICATION Spec
CONSTANTS
  NumEndpoints = 2
  MaxAttempts = 1
  NumDeposits = 1
  Amount <- Amounts
  Confirmations = 2
  BatchSize = 3
  MaxHeight = 3
  MaxForks = 0
INVARIANT NoBlockSkipped
CHECK_DEADLOCK FALSE
