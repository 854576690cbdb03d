SPECIFICATION LSpec
CONSTANTS
  Keys = {"a", "b", "c"}
  NumShards = 2
  ShardOf <- MCShardOf
  Sizes = {1, 2}
  MaxRefreshes = 3
  Spellings = {"", "Tag_Only", "tag_only", "strip"}
  ToLower <- MCToLower
  Configs <- MCConfigs
  MetricNames = {"m1", "m2"}
  Second = 1000
  Word = 1048576
  Ids = {1, 2}
INVARIANTS
  LTypeOK
  AssumptionsMet
  TickerStarts
  SingleRotator
  CallbacksReleased
  KeepsLargest
PROPERTIES
  GaugeTellsRotation
  ReadBeforeReset
  GoroutineExits
  RotationsGoOn
CHECK_DEADLOCK FALSE
