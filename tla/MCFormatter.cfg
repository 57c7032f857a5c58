\* Records in records and values of all types, iterators that fail, and a writer that
\* defines a field.
SPECIFICATION Spec
CONSTANTS
  Heaps <- Nested
  Orders <- Sorts
  Calls <- CallSet
  IdentStr = {1}
  Width = 5
  BufSize = 5
  MaxDigits = 3
  Den = 4
  NewVals <- NewValues
  NewKeys <- Added
  Rehashes <- Grown
  Fails = TRUE
  MaxChanges = 1
  MaxDepth = 2
INVARIANTS ReadsBack ShownOnce
CHECK_DEADLOCK FALSE
