SPECIFICATION FairSpec
CONSTANTS
  NumDeposits = 2
  Value <- TwoDeposits
  Fee = {1, 2}
  SafetyBPS = 5000
  TopupMax = 2
  UserEth = 1
  Faults = {"reorg", "lag"}
INVARIANTS TypeOK RecognizedOnce CompletedIsDelivered SentIsRecorded GasBeforeSweep
PROPERTY SweepsEnd
CHECK_DEADLOCK FALSE
