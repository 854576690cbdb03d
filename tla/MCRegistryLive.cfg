SPECIFICATION FairSpec
CONSTANTS
  Values = {v1}
  Estimate <- ExactEstimate
  EstimateInterval = 1
  Word = 16
  Threads = {t1, t2}
  k1 = k1
  k2 = k2
  k3 = k3
  k4 = k4
  t1 = t1
  t2 = t2
  Keys = {k1, k3}
  NumShards = 2
  ShardOf <- KeyPerShard
  TrackerIds = {i1, i2, i3}
  NoTracker = NoTracker
  NoKey = NoKey
  Rotator = Rotator
  Free = Free
  MaxTrackerCount = 1
  MaxCalls = 2
PROPERTIES
  EveryCallReturns
  RotationCompletes
  IdleEvicted
CHECK_DEADLOCK FALSE
