\* Every graph of three objects, with segments of one entry.
SPECIFICATION FairSpec
CONSTANTS
  o1 = o1
  o2 = o2
  o3 = o3
  Obj <- Objects
  Segment = 1
INVARIANTS TriColour SweepExact NoDangling
PROPERTIES ImplementsHeap CollectTerminates
