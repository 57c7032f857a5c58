\* Six keys of every kind under half of the hash functions into two values, with growth
\* of both causes and growths that fail for want of memory.
SPECIFICATION Spec
CONSTANTS
  Free = Free
  Key <- Keys
  Hashings <- HalfHashings
  BufCap <- Capacities
  Spread = {4, 6}
  Shared = 6
  WordSize = 2
  STR = 9
  Fails = {"old", "buf"}
  Blk = {0, 1, 2, 3}
  Selects = FALSE
  Iterates = FALSE
CHECK_DEADLOCK FALSE
INVARIANTS TypeOK ScanComplete
PROPERTIES ImplementsKeyMap
CONSTRAINT FewFailures
