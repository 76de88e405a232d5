SPECIFICATION FairSpec
CONSTANTS
  Thread = {"t1", "t2"}
  Txn = {"x1", "x2"}
  Sweeper = {"gc"}
  ThreadOf <- MCThreadOf
  IsolationOf <- MCReadWrite
  Late = {"t1"}
  MayMiss = FALSE
  MaxEpoch = 3
  CidShift = 2
INVARIANTS NoTxnInExpiredEpoch ExitFindsEpoch SnapshotAboveExpired
PROPERTIES KeepsPromise EpochsExpire EnterTerminates
