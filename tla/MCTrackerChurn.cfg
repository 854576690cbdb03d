SPECIFICATION Spec
CONSTANTS
  Values = {v1, v2, v3, v4, v5}
  Twice = v1
  Hidden = v2
  Estimate <- ExactEstimate
  EstimateInterval = 4
  Word = 256
  Limit = 1
  NoTracker = NoTracker
  Below = 0
  Above = 0
  MaxInserts = 9
INVARIANT
  NewValuesBounded
