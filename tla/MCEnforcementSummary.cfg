SPECIFICATION Spec
CONSTANTS
  t1 = t1
  t2 = t2
  a = a
  b = b
  p = p
  Spellings = {"", "tag_only", "overflow_attribute", "strip_and_reaggregate", "Strip_And_Reaggregate", "strip"}
  ToLower <- MCToLower
  Threads = {t1, t2}
  Labels = {a, b, p}
  Protected = {p}
  DropLogMaxPerEpoch = 1
  MaxPoints = 2
PROPERTIES
  SummaryWhenSuppressed
CHECK_DEADLOCK FALSE
