SPECIFICATION Spec
CONSTANTS
  Txn <- ThreeTxns
  IsolationOf <- AllSerializable
  StatementsOf <- Writers
  Scans = {"index"}
  HasIndex = TRUE
  Loaded = TRUE
  MaxStatement = 1
  MaxSlot = 4
  MAX_CID = 10
INVARIANTS
  TypeOK
  VersionsDisjoint
  OwnerAfterReaders
  CommitsNewest
  ChainIntact
  GarbageIsDead
PROPERTIES
  HistoryImmutable
