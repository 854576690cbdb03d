SPECIFICATION HSpec
CONSTANTS
  Values = {v1, v2, v3}
  Estimate <- ExactEstimate
  EstimateInterval = 8
  Word = 256
  Limit = 1
  NoTracker = NoTracker
  Below = 0
  Above = 0
  MaxInserts = 4
INVARIANT
  StableNeverCut
