\* Eight whole numbers, six of which collide, in memory that suffices.
SPECIFICATION Spec
CONSTANTS
  Free = Free
  Key <- Numbers
  Hashings <- Colliding
  BufCap <- SmallCapacities
  Spread = {4, 6}
  Shared = 6
  WordSize = 2
  STR = 9
  Fails = {}
  Blk = {0, 1, 2, 3}
  Selects = FALSE
  Iterates = FALSE
CHECK_DEADLOCK FALSE
INVARIANTS AlwaysFreeSlot
