SPECIFICATION Spec
CONSTANTS
  Txn <- TwoTxns
  IsolationOf <- AllSerializable
  StatementsOf <- AllStatements
  Scans = {"index", "seq"}
  HasIndex = TRUE
  Loaded = TRUE
  MaxStatement = 2
  MaxSlot = 5
  MAX_CID = 8
INVARIANTS
  ReadsCommitted
  OwnerIsLastReader
