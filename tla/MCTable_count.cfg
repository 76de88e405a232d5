SPECIFICATION Spec
CONSTANTS
  t1 = t1
  t2 = t2
  Thread = {t1, t2}
  ActiveCounts = {2}
  num_tuple_slots = 1
  INDIRECTION_ARRAY_MAX_SIZE = 2
  MaxInserts = 3
  MaxId = 6
INVARIANTS
  GroupFound
CHECK_DEADLOCK FALSE
