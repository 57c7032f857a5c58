\* Two records that may share an index of three keys, definitions that fail after
\* their key is in the index, and every comparison, cycles included.
SPECIFICATION Spec
CONSTANTS
  Rec = {r1, r2}
  Idx = {i1}
  Key = {k1, k2, k3}
  IntVal = {n1}
  StrVal = {}
  Udf = Udf
  ValsCap <- Capacities
  Fails = {"def"}
  Seps = FALSE
  Compares = TRUE
CHECK_DEADLOCK FALSE
SYMMETRY Symmetry
INVARIANTS TypeOK SlotsExist NoIsRight CycleIsRight
PROPERTIES IsolatesRecords
