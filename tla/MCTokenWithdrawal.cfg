SPECIFICATION FairSpec
CONSTANTS
  NumWithdrawals = 2
  Amount = {1, 2}
  Balance = 3
  Stock = 2
  NumTopups = 1
  Swept = 1
  Faults = {"reorg", "lag"}
INVARIANTS TypeOK BooksAgree NonceExclusive SentIsRecorded
PROPERTIES PayoutSpec WithdrawalsEnd
CHECK_DEADLOCK FALSE
