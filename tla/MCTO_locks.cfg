SPECIFICATION FairSpec
CONSTANTS
  Txn <- TwoTxns
  IsolationOf <- AllSerializable
  StatementsOf <- LockAndRekey
  Scans = {"index"}
  HasIndex = TRUE
  Loaded = TRUE
  MaxStatement = 2
  MaxSlot = 5
  MAX_CID = 8
INVARIANTS
  OwnersAlive
PROPERTIES
  WorkEnds
