SPECIFICATION PSpec
CONSTANTS
  key = key
  intOne = intOne
  stringOne = stringOne
  OverflowLabel = overflow
  True = true
  Sentinel = sentinel
  Spellings = {""}
  ToLower <- MCToLower
  Attributes <- MCAttributes
  Text <- MCText
  Numbers <- MCNumbers
  Times = {1, 2}
  Starts = {0, 1}
  Word = 4
  MaxPoints = 3
INVARIANT LatestPointKept
CHECK_DEADLOCK FALSE
