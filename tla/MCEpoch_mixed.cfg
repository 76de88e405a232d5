SPECIFICATION Spec
CONSTANTS
  Thread = {"t1", "t2"}
  Txn = {"x1", "x2", "x3"}
  Sweeper = {"gc"}
  ThreadOf <- MCThreadOf
  IsolationOf <- MCMixed
  Late = {"t2"}
  MayMiss = FALSE
  MaxEpoch = 3
  CidShift = 1
INVARIANTS QueueAboveBound SnapshotSettled
