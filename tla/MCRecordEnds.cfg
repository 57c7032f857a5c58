\* Comparisons end, whatever failed or was separated before.
SPECIFICATION FairSpec
CONSTANTS
  Rec = {r1, r2}
  Idx = {i1}
  Key = {k1, k2}
  IntVal = {n1}
  StrVal = {}
  Udf = Udf
  ValsCap <- Capacities
  Fails = {"def", "compare"}
  Seps = TRUE
  Compares = TRUE
CHECK_DEADLOCK FALSE
PROPERTIES CompareEnds
