\* Sub-indices of, and iterators over, five keys, two of them equal long strings.
SPECIFICATION Spec
CONSTANTS
  Free = Free
  Key <- FewKeys
  Hashings <- FewHashings
  BufCap <- Capacities
  Spread = {4, 6}
  Shared = 6
  WordSize = 2
  STR = 9
  Fails = {"old"}
  Blk = {0, 1}
  Selects = TRUE
  Iterates = TRUE
CHECK_DEADLOCK FALSE
INVARIANTS VisitsOnce SubExact
