SPECIFICATION Spec
CONSTANTS
  Values = {v1, v2, v3, v4, v5}
  Twice = v1
  Hidden = v2
  Estimate <- RoughEstimate
  EstimateInterval = 4
  Word = 256
  Limit = 2
  NoTracker = NoTracker
  Below = 1
  Above = 1
  MaxInserts = 9
INVARIANTS
  TypeOK
  CacheLag
  DropIsJustified
  OvershootBounded
PROPERTIES
  StickyVerdict
  ImplementsLimiter
CHECK_DEADLOCK FALSE
