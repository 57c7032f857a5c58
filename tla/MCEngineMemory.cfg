\* Blocks of two sizes, objects whose size routine overstates theirs, and the
\* fairness that calls run on.
SPECIFICATION FairSpec
CONSTANTS
  b1 = b1
  b2 = b2
  None = None
  Block = {b1, b2}
  Size = {1, 3}
  EngineSize = 2
  InitLimit = 3
  MaxDepth = 2
  MaxBuckets = 1
  MaxRefs = 1
  Extra = {0, 2}
  MaxExcess = 2
  MaxCycles = 2
INVARIANTS FreesNeverCollect NothingLeft
PROPERTIES CallsReturn
CHECK_DEADLOCK FALSE
