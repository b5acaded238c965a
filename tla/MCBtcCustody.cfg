SPECIFICATION Spec
CONSTANTS
  NumDeposits = 2
  NumWithdrawals = 2
  Value <- TwoDeposits
  Amount = {500}
  Rate = 1
  Faults = {"reorg", "evict"}
INVARIANTS TypeOK BooksAgree CompletedIsBuried SentIsRecorded LocksAreLive
CHECK_DEADLOCK FALSE
