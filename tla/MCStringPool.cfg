SPECIFICATION Spec
CONSTANTS
  t1 = t1
  t2 = t2
  u1 = u1
  l1 = l1
  l2 = l2
  None = None
  Medium = {t1, t2}
  Long = {u1}
  PerBlock = 2
  NBits = 4
  Interval = 3
  Loan = {l1, l2}
  Debug = FALSE
  Fails = {"nmap", "bmap", "node", "steal"}
  MaxBlocks = 4
SYMMETRY Alike
INVARIANTS TypeOK Interned RootedAlive DiesSoon LoansIntact
CHECK_DEADLOCK FALSE
