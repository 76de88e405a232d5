SPECIFICATION Spec
CONSTANTS
  Txn <- ThreeTxns
  IsolationOf <- ThreeLevels
  StatementsOf <- Readers
  Scans = {"index", "seq"}
  HasIndex = TRUE
  Loaded = TRUE
  MaxStatement = 1
  MaxSlot = 4
  MAX_CID = 10
INVARIANTS
  SnapshotConsistent
