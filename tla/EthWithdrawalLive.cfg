SPECIFICATION FairSpec
CONSTANTS
  NumKeys = 2
  NumSweeps = 0
  Amount = {1}
  Fee = {1, 2}
  SweepFee = 1
  Balance0 = 4
  Handler = {h1}
  Faults = {}
PROPERTY SettlesUnlessGap
