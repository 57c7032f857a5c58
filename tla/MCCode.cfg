\* Up to five calls of an assembler before its code is made, buffers of one element
\* at first, references to two locs, words of four bytes and unsigneds of two.
SPECIFICATION Spec
CONSTANTS
  Value = {v1, v2}
  Name = {n1}
  InitCap = 1
  RefSize = 2
  WordBytes = 4
  IntBytes = 2
  Infos <- HostInfos
  Reuse = FALSE
  MaxCalls = 5
  MaxFailures = 1
  MaxDrift = 1
SYMMETRY Symmetry
CHECK_DEADLOCK FALSE
INVARIANTS TypeOK RefsDenote NothingLost 
