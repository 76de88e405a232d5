SPECIFICATION Spec
CONSTANTS
  s1 = s1
  s2 = s2
  t1 = t1
  t2 = t2
  t3 = t3
  Session = {s1, s2}
  Clients <- SimpleOrExtended
  Txn = {t1, t2, t3}
  Outcome = {"success", "conflict", "exception"}
  MaxDepth = 2
  Name = {"", "a", "b"}
  CACHE_SIZE = 1
SYMMETRY Symmetry
INVARIANTS
  TypeOK
  PointersLive
PROPERTIES
  AbortReported
  LostOnly
