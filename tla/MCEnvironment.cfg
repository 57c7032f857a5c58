\* Four globals, in an array that grows to 1, 3 and 7 slots, and two failures at
\* any of the allocations.
SPECIFICATION Spec
CONSTANTS
  Name = {n1, n2, n3, n4}
  Strategy = {s1}
  Operator = {o1}
  Value = {v1}
  Fun = {f1}
  Garbage = {"null", "wild"}
  Udf = Udf
  MaxFailures = 2
  MaxHandles = 1
SYMMETRY Symmetry
CHECK_DEADLOCK FALSE
INVARIANTS TypeOK HandlesFollow FailuresToPassEnd
PROPERTIES ImplementsFields
