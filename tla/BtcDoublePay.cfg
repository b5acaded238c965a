SPECIFICATION Spec
CONSTANTS
  NumDeposits = 2
  NumWithdrawals = 2
  Value <- TwoDeposits
  Amount = {500}
  Rate = 1
  Faults = {}
INVARIANT ReleasedUnpaid
CHECK_DEADLOCK FALSE
