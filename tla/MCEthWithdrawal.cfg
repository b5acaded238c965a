SPECIFICATION Spec
CONSTANTS
  NumKeys = 2
  NumSweeps = 1
  Amount = {1, 2}
  Fee = {0}
  SweepFee = 1
  Balance0 = 2
  Handler = {h1, h2}
  Faults = {"reorg", "deepReorg"}
SYMMETRY HandlerSymmetry
INVARIANTS AckedHonoured NonceExclusive
