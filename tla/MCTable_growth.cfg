SPECIFICATION FairSpec
CONSTANTS
  t1 = t1
  t2 = t2
  Thread = {t1, t2}
  ActiveCounts = {1, 2}
  num_tuple_slots = 2
  INDIRECTION_ARRAY_MAX_SIZE = 2
  MaxInserts = 4
  MaxId = 8
INVARIANTS
  SlotsUsable
  FullIsReplaced
  OvershootBounded
  GroupFoundSingle
  GroupsListed
PROPERTIES
  InsertEnds
CHECK_DEADLOCK FALSE
