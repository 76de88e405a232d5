SPECIFICATION Spec
CONSTANTS
  x1 = x1
  x2 = x2
  s1 = s1
  s2 = s2
  s3 = s3
  e2 = e2
  e1 = e1
  g1 = g1
  NULL = NULL
  Txn = {x1, x2}
  Slot = {s1, s2, s3}
  Entry = {e1, e2}
  Loaded = {e1}
  FirstSlot <- OneTuple
  GCThread = {g1}
  HashToThread <- OneGCThread
  Statements = {"insert", "delete"}
  Unguarded = {}
  SnapshotTxn = {}
  MAX_ATTEMPT_COUNT = 1
  MaxEpoch = 3
SYMMETRY Symmetry
INVARIANTS
  UnlinkedIsDead
  HeldNotRecycled
  RecycledOnce
