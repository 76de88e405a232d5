----------------------------- MODULE DataTable ------------------------------
(***************************************************************************)
(* How a table grows: concurrent inserts claim tuple slots of the active   *)
(* tile groups and indirections of the active indirection arrays; whoever  *)
(* claims the last one puts a new tile group, or array, in place while the *)
(* others spin.                                                            *)
(*                                                                         *)
(* Each access to a shared atomic is a step.  Recycled slots are module    *)
(* TransactionLevelGC's; here the garbage collector has none to return.    *)
(* Tuples, layouts and keys are left out.                                  *)
(***************************************************************************)
EXTENDS Integers, FiniteSets

CONSTANTS Thread,
          ActiveCounts,               \* values of default_active_tilegroup_count_
          num_tuple_slots,            \* of a tile group
          INDIRECTION_ARRAY_MAX_SIZE,
          MaxInserts,                 \* bound: versions that are inserted
          MaxId                       \* bound: ids of tile groups and of arrays

ASSUME TableAssumption ==
  /\ ActiveCounts \subseteq Nat \ {0}
  /\ num_tuple_slots \in Nat \ {0}
  /\ INDIRECTION_ARRAY_MAX_SIZE \in Nat \ {0}
  /\ MaxInserts \in Nat
  /\ MaxId \in Nat /\ \A n \in ActiveCounts : n <= MaxId

ASSUME ThreadAssumption == IsFiniteSet(Thread)

VARIABLES
  active_count,            \* active_tilegroup_count_, and that of the arrays
  tile_group_oid_,         \* the last id given to a tile group
  active_tile_groups_,
  next_tuple_slot,         \* TileGroupHeader, by tile group
  lock_free_array_offset,  \* LockFreeArray: indexes of tile_groups_ given out
  tile_groups_,            \* LockFreeArray: what is stored at them, 0 at first
  tile_group_locator_,     \* tile groups the catalog's manager knows
  tile_group_count_,
  indirection_array_oid_, active_indirection_arrays_, indirection_counter_,
  number_of_tuples_,
  pc, version,             \* where a thread is in an insert, and in which
  active, block,           \* its locals: active_tile_group_id, or the same of
                           \* the arrays; tile_group_id;
  new,                     \* the tile group or array it is adding;
  index,                   \* the place in tile_groups_, or the array
  started,                 \* history: inserts begun so far
  handed, entries,         \* history: slots and indirections by insert
  inserted                 \* history: tile groups of the inserts that returned

groupVars == <<tile_group_oid_, active_tile_groups_, next_tuple_slot>>
listVars == <<lock_free_array_offset, tile_groups_, tile_group_locator_, tile_group_count_>>
arrayVars == <<indirection_array_oid_, active_indirection_arrays_, indirection_counter_>>
localVars == <<pc, version, active, block, new, index>>
historyVars == <<started, handed, entries, inserted>>
vars == <<active_count, groupVars, listVars, arrayVars, number_of_tuples_, localVars,
          historyVars>>

Id == 1 .. MaxId
Active == 0 .. active_count - 1
Zero == [t \in Thread |-> 0]

\* The constructor adds a tile group and an array for each active one.
Init ==
  /\ active_count \in ActiveCounts
  /\ tile_group_oid_ = active_count
  /\ active_tile_groups_ = [a \in Active |-> a + 1]
  /\ next_tuple_slot = [g \in Id |-> 0]
  /\ lock_free_array_offset = active_count
  /\ tile_groups_ = [i \in 0 .. MaxId - 1 |-> IF i < active_count THEN i + 1 ELSE 0]
  /\ tile_group_locator_ = 1 .. active_count
  /\ tile_group_count_ = active_count
  /\ indirection_array_oid_ = active_count
  /\ active_indirection_arrays_ = [a \in Active |-> a + 1]
  /\ indirection_counter_ = [g \in Id |-> 0]
  /\ number_of_tuples_ = 0
  /\ pc = [t \in Thread |-> "idle"]
  /\ version = Zero /\ active = Zero /\ block = Zero /\ new = Zero /\ index = Zero
  /\ started = 0 /\ handed = {} /\ entries = {} /\ inserted = {}

At(t, l) == pc[t] = l
Goto(t, l) == pc' = [pc EXCEPT ![t] = l]
\* The locals of the insert are gone.
Leave(t) ==
  /\ Goto(t, "idle")
  /\ version' = [version EXCEPT ![t] = 0] /\ active' = [active EXCEPT ![t] = 0]
  /\ block' = [block EXCEPT ![t] = 0] /\ new' = [new EXCEPT ![t] = 0]
  /\ index' = [index EXCEPT ![t] = 0]
-----------------------------------------------------------------------------
(* GetEmptyTupleSlot *)

\* InsertTuple or AcquireVersion is called.
Start(t) ==
  /\ At(t, "idle")
  /\ started < MaxInserts
  /\ started' = started + 1
  /\ version' = [version EXCEPT ![t] = started']
  /\ active' = [active EXCEPT ![t] = number_of_tuples_ % active_count]
  /\ Goto(t, "test")
  /\ UNCHANGED <<active_count, groupVars, listVars, arrayVars, number_of_tuples_, block, new,
                 index, handed, entries, inserted>>

\* Mutant: the counter is not looked at first.
TestSlotNot(t) ==
  /\ At(t, "test")
  /\ block' = [block EXCEPT ![t] = active_tile_groups_[active[t]]]
  /\ Goto(t, "claim")
  /\ UNCHANGED <<active_count, groupVars, listVars, arrayVars, number_of_tuples_, version,
                 active, new, index, historyVars>>

\* The active tile group has a slot left; with none left the loop goes on.
TestSlot(t) ==
  /\ At(t, "test")
  /\ LET g == active_tile_groups_[active[t]]
     IN /\ next_tuple_slot[g] < num_tuple_slots
        /\ block' = [block EXCEPT ![t] = g]
  /\ Goto(t, "claim")
  /\ UNCHANGED <<active_count, groupVars, listVars, arrayVars, number_of_tuples_, version,
                 active, new, index, historyVars>>

\* Mutant: a claim behind the last slot succeeds.
ClaimedAll(slot) == TRUE

Claimed(slot) == slot < num_tuple_slots

\* Mutant: the new tile group is due before the last slot is taken.
LastSlotEarly(slot) == slot = num_tuple_slots - 2

LastSlot(slot) == slot = num_tuple_slots - 1

\* GetNextEmptyTupleSlot adds one, and looks at what it got.
ClaimSlot(t) ==
  /\ At(t, "claim")
  /\ LET g == block[t]
         slot == next_tuple_slot[g]
     IN /\ next_tuple_slot' = [next_tuple_slot EXCEPT ![g] = @ + 1]
        /\ \/ /\ ~Claimed(slot)
              /\ Goto(t, "test")
              /\ UNCHANGED handed
           \/ /\ Claimed(slot)
              /\ handed' = handed \union {<<version[t], g, slot>>}
              /\ Goto(t, IF LastSlot(slot) THEN "create" ELSE "got")
  /\ UNCHANGED <<active_count, tile_group_oid_, active_tile_groups_, listVars, arrayVars,
                 number_of_tuples_, version, active, block, new, index, started, entries,
                 inserted>>
-----------------------------------------------------------------------------
(* AddDefaultTileGroup *)

CreateTileGroup(t) ==
  /\ At(t, "create")
  /\ tile_group_oid_ < MaxId
  /\ tile_group_oid_' = tile_group_oid_ + 1
  /\ new' = [new EXCEPT ![t] = tile_group_oid_']
  /\ Goto(t, "append")
  /\ UNCHANGED <<active_count, active_tile_groups_, next_tuple_slot, listVars, arrayVars,
                 number_of_tuples_, version, active, block, index, historyVars>>

\* Mutant: the element is stored behind the place that was added.
AppendOffsetFirst(t) ==
  /\ At(t, "append")
  /\ lock_free_array_offset' = lock_free_array_offset + 1
  /\ index' = [index EXCEPT ![t] = lock_free_array_offset']
  /\ Goto(t, "store")
  /\ UNCHANGED <<active_count, groupVars, tile_groups_, tile_group_locator_,
                 tile_group_count_, arrayVars, number_of_tuples_, version, active, block,
                 new, historyVars>>

\* Append: the size of the array grows before the element is stored.
AppendOffset(t) ==
  /\ At(t, "append")
  /\ lock_free_array_offset' = lock_free_array_offset + 1
  /\ index' = [index EXCEPT ![t] = lock_free_array_offset]
  /\ Goto(t, "store")
  /\ UNCHANGED <<active_count, groupVars, tile_groups_, tile_group_locator_,
                 tile_group_count_, arrayVars, number_of_tuples_, version, active, block,
                 new, historyVars>>

AppendStore(t) ==
  /\ At(t, "store")
  /\ tile_groups_' = [tile_groups_ EXCEPT ![index[t]] = new[t]]
  /\ Goto(t, "locate")
  /\ UNCHANGED <<active_count, groupVars, lock_free_array_offset, tile_group_locator_,
                 tile_group_count_, arrayVars, number_of_tuples_, version, active, block,
                 new, index, historyVars>>

AddTileGroup(t) ==
  /\ At(t, "locate")
  /\ tile_group_locator_' = tile_group_locator_ \union {new[t]}
  /\ Goto(t, "activate")
  /\ UNCHANGED <<active_count, groupVars, lock_free_array_offset, tile_groups_,
                 tile_group_count_, arrayVars, number_of_tuples_, version, active, block,
                 new, index, historyVars>>

ActivateTileGroup(t) ==
  /\ At(t, "activate")
  /\ active_tile_groups_' = [active_tile_groups_ EXCEPT ![active[t]] = new[t]]
  /\ Goto(t, "count")
  /\ UNCHANGED <<active_count, tile_group_oid_, next_tuple_slot, listVars, arrayVars,
                 number_of_tuples_, version, active, block, new, index, historyVars>>

\* Mutant: the new tile group is not counted.
CountTileGroupNot(t) ==
  /\ At(t, "count")
  /\ Goto(t, "got")
  /\ UNCHANGED <<active_count, groupVars, listVars, arrayVars, number_of_tuples_, version,
                 active, block, new, index, historyVars>>

CountTileGroup(t) ==
  /\ At(t, "count")
  /\ tile_group_count_' = tile_group_count_ + 1
  /\ Goto(t, "got")
  /\ UNCHANGED <<active_count, groupVars, lock_free_array_offset, tile_groups_,
                 tile_group_locator_, arrayVars, number_of_tuples_, version, active, block,
                 new, index, historyVars>>
-----------------------------------------------------------------------------
(* The index entry of an inserted tuple, and the end of the insert. *)

\* AcquireVersion and a table without indexes: the version is counted.
\* InsertInIndexes: an indirection is needed.
Continue(t) ==
  /\ At(t, "got")
  /\ \/ /\ number_of_tuples_' = number_of_tuples_ + 1
        /\ inserted' = inserted \union {block[t]}
        /\ Leave(t)
     \/ /\ active' = [active EXCEPT ![t] = number_of_tuples_ % active_count]
        /\ Goto(t, "test_indirection")
        /\ UNCHANGED <<number_of_tuples_, inserted, version, block, new, index>>
  /\ UNCHANGED <<active_count, groupVars, listVars, arrayVars, started, handed, entries>>

TestIndirection(t) ==
  /\ At(t, "test_indirection")
  /\ LET a == active_indirection_arrays_[active[t]]
     IN /\ indirection_counter_[a] < INDIRECTION_ARRAY_MAX_SIZE
        /\ index' = [index EXCEPT ![t] = a]
  /\ Goto(t, "claim_indirection")
  /\ UNCHANGED <<active_count, groupVars, listVars, arrayVars, number_of_tuples_, version,
                 active, block, new, historyVars>>

Allocated(i) == i < INDIRECTION_ARRAY_MAX_SIZE

\* AllocateIndirection adds one, and looks at what it got.
ClaimIndirection(t) ==
  /\ At(t, "claim_indirection")
  /\ LET a == index[t]
         i == indirection_counter_[a]
     IN /\ indirection_counter_' = [indirection_counter_ EXCEPT ![a] = @ + 1]
        /\ \/ /\ ~Allocated(i)
              /\ Goto(t, "test_indirection")
              /\ UNCHANGED entries
           \/ /\ Allocated(i)
              /\ entries' = entries \union {<<version[t], a, i>>}
              /\ Goto(t, IF i = INDIRECTION_ARRAY_MAX_SIZE - 1 THEN "create_array"
                         ELSE "insert")
  /\ UNCHANGED <<active_count, groupVars, listVars, indirection_array_oid_,
                 active_indirection_arrays_, number_of_tuples_, version, active, block, new,
                 index, started, handed, inserted>>

\* AddDefaultIndirectionArray; nobody looks an array up in the catalog.
CreateIndirectionArray(t) ==
  /\ At(t, "create_array")
  /\ indirection_array_oid_ < MaxId
  /\ indirection_array_oid_' = indirection_array_oid_ + 1
  /\ new' = [new EXCEPT ![t] = indirection_array_oid_']
  /\ Goto(t, "activate_array")
  /\ UNCHANGED <<active_count, groupVars, listVars, active_indirection_arrays_,
                 indirection_counter_, number_of_tuples_, version, active, block, index,
                 historyVars>>

\* Mutant: the array of another inserter's turn is replaced.
ActivateIndirectionArrayNext(t) ==
  /\ At(t, "activate_array")
  /\ active_indirection_arrays_' = [active_indirection_arrays_ EXCEPT
       ![(active[t] + 1) % active_count] = new[t]]
  /\ Goto(t, "insert")
  /\ UNCHANGED <<active_count, groupVars, listVars, indirection_array_oid_,
                 indirection_counter_, number_of_tuples_, version, active, block, new, index,
                 historyVars>>

ActivateIndirectionArray(t) ==
  /\ At(t, "activate_array")
  /\ active_indirection_arrays_' = [active_indirection_arrays_ EXCEPT
       ![active[t]] = new[t]]
  /\ Goto(t, "insert")
  /\ UNCHANGED <<active_count, groupVars, listVars, indirection_array_oid_,
                 indirection_counter_, number_of_tuples_, version, active, block, new, index,
                 historyVars>>

\* The indexes take the entry, and the tuple is counted, or refuse it; then
\* its slot and its indirection stay as they are.
InsertEntries(t) ==
  /\ At(t, "insert")
  /\ Leave(t)
  /\ \/ /\ number_of_tuples_' = number_of_tuples_ + 1
        /\ inserted' = inserted \union {block[t]}
     \/ UNCHANGED <<number_of_tuples_, inserted>>
  /\ UNCHANGED <<active_count, groupVars, listVars, arrayVars, started, handed, entries>>

GetSlot(t) == TestSlot(t) \/ ClaimSlot(t)

AddDefaultTileGroup(t) ==
  \/ CreateTileGroup(t) \/ AppendOffset(t) \/ AppendStore(t) \/ AddTileGroup(t)
  \/ ActivateTileGroup(t) \/ CountTileGroup(t)

InsertInIndexes(t) ==
  \/ Continue(t) \/ TestIndirection(t) \/ ClaimIndirection(t)
  \/ CreateIndirectionArray(t) \/ ActivateIndirectionArray(t) \/ InsertEntries(t)

Insert(t) == GetSlot(t) \/ AddDefaultTileGroup(t) \/ InsertInIndexes(t)

Next == \E t \in Thread : Start(t) \/ Insert(t)

Spec == Init /\ [][Next]_vars

\* The operating system runs every thread that is in an insert.
FairSpec == Spec /\ \A t \in Thread : WF_vars(Insert(t))
-----------------------------------------------------------------------------
Growing == {"create", "append", "store", "locate", "activate"}
PC == {"idle", "test", "claim", "count", "got", "test_indirection", "claim_indirection",
       "create_array", "activate_array", "insert"} \union Growing

TypeOK ==
  /\ active_count \in ActiveCounts
  /\ tile_group_oid_ \in Id /\ indirection_array_oid_ \in Id
  /\ active_tile_groups_ \in [Active -> Id]
  /\ active_indirection_arrays_ \in [Active -> Id]
  /\ next_tuple_slot \in [Id -> Nat] /\ indirection_counter_ \in [Id -> Nat]
  /\ lock_free_array_offset \in Nat
  /\ tile_groups_ \in [0 .. MaxId - 1 -> 0 .. MaxId]
  /\ tile_group_locator_ \subseteq Id
  /\ tile_group_count_ \in Nat /\ number_of_tuples_ \in Nat /\ started \in Nat
  /\ pc \in [Thread -> PC] /\ active \in [Thread -> Active]
  /\ version \in [Thread -> Nat] /\ block \in [Thread -> 0 .. MaxId]
  /\ new \in [Thread -> 0 .. MaxId] /\ index \in [Thread -> Nat]
  /\ handed \subseteq Nat \X Id \X Nat
  /\ entries \subseteq Nat \X Id \X Nat
  /\ inserted \subseteq 0 .. MaxId

\* No slot is handed to two inserts, whatever number of threads race for the
\* last ones, and every slot is one of a tile group that the catalog finds,
\* so that an executor can go through the location it got; and no two index
\* entries share an indirection.
SlotsUsable ==
  /\ \A x, y \in handed : x[2] = y[2] /\ x[3] = y[3] => x = y
  /\ \A x \in handed : x[2] \in tile_group_locator_ /\ x[3] < num_tuple_slots
  /\ \A x, y \in entries : x[2] = y[2] /\ x[3] = y[3] => x = y
  /\ \A x \in entries : x[3] < INDIRECTION_ARRAY_MAX_SIZE

\* While an active tile group is full there is just one thread that is
\* replacing it ("if there's no available slot, then some other threads must
\* be allocating a new tile group"), and no thread replaces one that is not.
FullIsReplaced ==
  \A a \in Active :
    LET growers == {t \in Thread : pc[t] \in Growing /\ active[t] = a}
    IN IF next_tuple_slot[active_tile_groups_[a]] >= num_tuple_slots
         THEN \E t \in growers : growers = {t} /\ block[t] = active_tile_groups_[a]
         ELSE growers = {}

\* What counts past the last slot is one for each of the other threads: the
\* counter of a full tile group does not run away.
OvershootBounded ==
  \A g \in Id : next_tuple_slot[g] < num_tuple_slots + Cardinality(Thread)

\* tile_groups_.FindValid: an element that is not stored yet is 0, not the
\* invalid id, and counts as valid.
FindValid(i) == IF i < lock_free_array_offset THEN tile_groups_[i] ELSE -1

\* GetTileGroup finds a tile group at every offset below tile_group_count_
\* ("we must guarantee that the compiler always add tile group before adding
\* tile_group_count_").
GroupFound == \A i \in 0 .. tile_group_count_ - 1 : FindValid(i) \in tile_group_locator_

\* It does as long as there is one active tile group, as in the catalog's
\* tables.
GroupFoundSingle == active_count = 1 => GroupFound

\* Between inserts the list of the table, the catalog and the count agree:
\* each tile group is listed once.
GroupsListed ==
  (\A t \in Thread : At(t, "idle")) =>
    /\ tile_group_count_ = lock_free_array_offset
    /\ {tile_groups_[i] : i \in 0 .. tile_group_count_ - 1} = tile_group_locator_
    /\ tile_group_locator_ = 1 .. tile_group_oid_
    /\ tile_group_count_ = tile_group_oid_

\* Whoever spins on a full tile group or array gets a slot, or an indirection,
\* in the end.
InsertEnds == \A t \in Thread : ~At(t, "idle") ~> At(t, "idle")

\* A scan that begins after an insert returned counts its tile group.
InsertsCounted == inserted \subseteq {tile_groups_[i] : i \in 0 .. tile_group_count_ - 1}
=============================================================================
