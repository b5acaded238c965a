SPECIFICATION Spec
CONSTANTS
  NumKeys = 2
  NumSweeps = 0
  Amount = {2}
  Fee = {1, 2, 3}
  SweepFee = 1
  Balance0 = 6
  Handler = {h1}
  Faults = {"reorg", "evict"}
INVARIANTS TypeOK HoldsMatch LedgerBacked SentIsRecorded PaidOnce JournalExplains
PROPERTY PayoutSpec
