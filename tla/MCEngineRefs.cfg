SPECIFICATION Spec
CONSTANTS
  b1 = b1
  b2 = b2
  b3 = b3
  None = None
  Block = {b1, b2, b3}
  Size = {1, 2}
  EngineSize = 1
  InitLimit = 4
  MaxDepth = 2
  MaxBuckets = 1
  MaxRefs = 1
  Extra = {0}
  MaxExcess = 0
  MaxCycles = 1
SYMMETRY Blocks
INVARIANTS TypeOK SoleOwner NoDangling
CHECK_DEADLOCK FALSE
