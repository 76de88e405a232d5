---------------------------- MODULE TableProofs -----------------------------
(***************************************************************************)
(* The invariant of DataTable's inserts, and the proof that every step     *)
(* keeps the types.                                                        *)
(***************************************************************************)
EXTENDS DataTable, TLAPS

Pending == {"append", "store", "locate", "activate"}
Full(g) == next_tuple_slot[g] >= num_tuple_slots

\* Active tile groups are known to the catalog and distinct; an id that was
\* not given out has no slots in use.
GroupInv ==
  /\ tile_group_locator_ \subseteq 1 .. tile_group_oid_
  /\ \A a \in Active : active_tile_groups_[a] \in tile_group_locator_
  /\ \A a, b \in Active : active_tile_groups_[a] = active_tile_groups_[b] => a = b
  /\ \A g \in Id : g > tile_group_oid_ => next_tuple_slot[g] = 0

\* A tile group that is being added is one thread's alone, and empty.
NewInv ==
  /\ \A t \in Thread : pc[t] \in Pending =>
       /\ new[t] \in 1 .. tile_group_oid_
       /\ next_tuple_slot[new[t]] = 0
       /\ \A a \in Active : active_tile_groups_[a] # new[t]
  /\ \A t, u \in Thread : pc[t] \in Pending /\ pc[u] \in Pending /\ new[t] = new[u] => t = u
  /\ \A t \in Thread : pc[t] = "activate" => new[t] \in tile_group_locator_

\* A thread between the test and the claim holds the active tile group, or
\* one that has run full since.
ClaimInv ==
  \A t \in Thread : pc[t] = "claim" =>
    /\ block[t] \in tile_group_locator_
    /\ block[t] = active_tile_groups_[active[t]] \/ Full(block[t])

\* The threads that replace a tile group, and the full active ones, are paired.
GrowInv ==
  /\ \A t \in Thread : pc[t] \in Growing =>
       block[t] = active_tile_groups_[active[t]] /\ Full(block[t])
  /\ \A t, u \in Thread :
       pc[t] \in Growing /\ pc[u] \in Growing /\ active[t] = active[u] => t = u
  /\ \A a \in Active : Full(active_tile_groups_[a]) =>
       \E t \in Thread : pc[t] \in Growing /\ active[t] = a

\* What was handed out lies below the counters.
HandedInv ==
  /\ \A x \in handed :
       /\ x[2] \in tile_group_locator_
       /\ x[3] < num_tuple_slots /\ x[3] < next_tuple_slot[x[2]]
  /\ \A x, y \in handed : x[2] = y[2] /\ x[3] = y[3] => x = y

EntriesInv ==
  /\ \A t \in Thread : pc[t] = "claim_indirection" => index[t] \in Id
  /\ \A t \in Thread : pc[t] = "activate_array" => new[t] \in Id
  /\ \A x \in entries :
       x[3] < INDIRECTION_ARRAY_MAX_SIZE /\ x[3] < indirection_counter_[x[2]]
  /\ \A x, y \in entries : x[2] = y[2] /\ x[3] = y[3] => x = y

TableInv == GroupInv /\ NewInv /\ ClaimInv /\ GrowInv /\ HandedInv /\ EntriesInv
IInv == TypeOK /\ TableInv
-----------------------------------------------------------------------------
\* The types of what the threads share, and of their locals.
SharedOK ==
  /\ active_count \in ActiveCounts
  /\ tile_group_oid_ \in Id /\ indirection_array_oid_ \in Id
  /\ active_tile_groups_ \in [Active -> Id]
  /\ active_indirection_arrays_ \in [Active -> Id]
  /\ next_tuple_slot \in [Id -> Nat] /\ indirection_counter_ \in [Id -> Nat]
ListsOK ==
  /\ lock_free_array_offset \in Nat
  /\ tile_groups_ \in [0 .. MaxId - 1 -> 0 .. MaxId]
  /\ tile_group_locator_ \subseteq Id
  /\ tile_group_count_ \in Nat /\ number_of_tuples_ \in Nat /\ started \in Nat
LocalsOK ==
  /\ pc \in [Thread -> PC] /\ active \in [Thread -> Active]
  /\ version \in [Thread -> Nat] /\ block \in [Thread -> 0 .. MaxId]
  /\ new \in [Thread -> 0 .. MaxId] /\ index \in [Thread -> Nat]
HistoryOK ==
  /\ handed \subseteq Nat \X Id \X Nat
  /\ entries \subseteq Nat \X Id \X Nat
  /\ inserted \subseteq 0 .. MaxId

LEMMA Types == TypeOK <=> SharedOK /\ ListsOK /\ LocalsOK /\ HistoryOK
BY Zenon DEF TypeOK, SharedOK, ListsOK, LocalsOK, HistoryOK

\* Locals that matter are ids.
LEMMA Ids ==
  ASSUME IInv, NEW t \in Thread
  PROVE  /\ pc[t] = "claim" => block[t] \in Id
         /\ pc[t] \in Pending => new[t] \in Id
         /\ pc[t] = "activate_array" => new[t] \in Id
         /\ pc[t] = "claim_indirection" => index[t] \in Id
<1>1. tile_group_oid_ \in Id
  BY Zenon DEF IInv, TypeOK
<1>2. 1 .. tile_group_oid_ \subseteq Id
  BY <1>1, TableAssumption DEF Id
<1> QED
  BY <1>2, Zenon DEF IInv, TableInv, GroupInv, NewInv, ClaimInv, EntriesInv

\* The choice of the active tile group, or array, is one of the active ones.
LEMMA Turn ==
  ASSUME IInv
  PROVE  number_of_tuples_ % active_count \in Active
<1>1. active_count \in Nat \ {0} /\ number_of_tuples_ \in Nat
  BY TableAssumption, Zenon DEF IInv, TypeOK
<1> QED
  BY <1>1 DEF Active

\* The number of active tile groups never changes.
LEMMA ActiveStays ==
  ASSUME [Next]_vars
  PROVE  Active' = Active
<1>1. active_count' = active_count
  BY DEF vars, Next, Insert, GetSlot, AddDefaultTileGroup, InsertInIndexes, Start,
     TestSlot, ClaimSlot, CreateTileGroup, AppendOffset, AppendStore, AddTileGroup,
     ActivateTileGroup, CountTileGroup, Continue, TestIndirection, ClaimIndirection,
     CreateIndirectionArray, ActivateIndirectionArray, InsertEntries
<1> QED
  BY <1>1, Zenon DEF Active

\* Every step keeps the types of what the threads share.
LEMMA SharedStep ==
  ASSUME IInv, [Next]_vars
  PROVE  SharedOK'
<1>1. SharedOK /\ LocalsOK /\ TableInv
  BY Types, Zenon DEF IInv
<1> USE <1>1, ActiveStays, TableAssumption DEF TableInv
<1>2. CASE UNCHANGED vars
  BY <1>2, Zenon DEF vars, groupVars, arrayVars, SharedOK
<1>3. ASSUME NEW t \in Thread, Start(t) \/ Insert(t)
      PROVE  SharedOK'
  <2>1. /\ pc[t] = "claim" => block[t] \in Id
        /\ pc[t] \in Pending => new[t] \in Id
        /\ pc[t] = "activate_array" => new[t] \in Id
        /\ pc[t] = "claim_indirection" => index[t] \in Id
    BY Ids, Zenon
  <2>2. CASE Start(t)
    BY <2>2, Zenon DEF Start, groupVars, arrayVars, SharedOK
  <2>3. CASE TestSlot(t)
    BY <2>3, Zenon DEF TestSlot, groupVars, arrayVars, SharedOK
  <2>4. CASE ClaimSlot(t)
    BY <2>1, <2>4 DEF ClaimSlot, At, arrayVars, SharedOK
  <2>5. CASE CreateTileGroup(t)
    <3>1. tile_group_oid_' \in Id
      BY <2>5 DEF CreateTileGroup, SharedOK, Id
    <3> QED
      BY <3>1, <2>5, Zenon DEF CreateTileGroup, arrayVars, SharedOK
  <2>6. CASE AppendOffset(t)
    BY <2>6, Zenon DEF AppendOffset, groupVars, arrayVars, SharedOK
  <2>7. CASE AppendStore(t)
    BY <2>7, Zenon DEF AppendStore, groupVars, arrayVars, SharedOK
  <2>8. CASE AddTileGroup(t)
    BY <2>8, Zenon DEF AddTileGroup, groupVars, arrayVars, SharedOK
  <2>9. CASE ActivateTileGroup(t)
    BY <2>1, <2>9, Zenon DEF ActivateTileGroup, At, arrayVars, SharedOK, LocalsOK, Pending
  <2>10. CASE CountTileGroup(t)
    BY <2>10, Zenon DEF CountTileGroup, groupVars, arrayVars, SharedOK
  <2>11. CASE Continue(t)
    BY <2>11, Zenon DEF Continue, groupVars, arrayVars, SharedOK
  <2>12. CASE TestIndirection(t)
    BY <2>12, Zenon DEF TestIndirection, groupVars, arrayVars, SharedOK
  <2>13. CASE ClaimIndirection(t)
    BY <2>1, <2>13 DEF ClaimIndirection, At, groupVars, SharedOK
  <2>14. CASE CreateIndirectionArray(t)
    <3>1. indirection_array_oid_' \in Id
      BY <2>14 DEF CreateIndirectionArray, SharedOK, Id
    <3> QED
      BY <3>1, <2>14, Zenon DEF CreateIndirectionArray, groupVars, SharedOK
  <2>15. CASE ActivateIndirectionArray(t)
    BY <2>1, <2>15, Zenon DEF ActivateIndirectionArray, At, groupVars, SharedOK, LocalsOK
  <2>16. CASE InsertEntries(t)
    BY <2>16, Zenon DEF InsertEntries, groupVars, arrayVars, SharedOK
  <2> QED
    BY <1>3, <2>2, <2>3, <2>4, <2>5, <2>6, <2>7, <2>8, <2>9, <2>10, <2>11, <2>12, <2>13,
       <2>14, <2>15, <2>16, Zenon DEF Insert, GetSlot, AddDefaultTileGroup, InsertInIndexes
<1> QED
  BY <1>2, <1>3, Zenon DEF Next

\* The same of the table's lists and counters.
LEMMA ListsStep ==
  ASSUME IInv, [Next]_vars
  PROVE  ListsOK'
<1>1. SharedOK /\ ListsOK /\ LocalsOK /\ TableInv
  BY Types, Zenon DEF IInv
<1> USE <1>1, ActiveStays, TableAssumption DEF TableInv
<1>2. CASE UNCHANGED vars
  BY <1>2, Zenon DEF vars, listVars, historyVars, ListsOK
<1>3. ASSUME NEW t \in Thread, Start(t) \/ Insert(t)
      PROVE  ListsOK'
  <2>1. /\ pc[t] = "claim" => block[t] \in Id
        /\ pc[t] \in Pending => new[t] \in Id
        /\ pc[t] = "activate_array" => new[t] \in Id
        /\ pc[t] = "claim_indirection" => index[t] \in Id
    BY Ids, Zenon
  <2>2. CASE Start(t)
    BY <2>2 DEF Start, listVars, ListsOK
  <2>3. CASE TestSlot(t)
    BY <2>3, Zenon DEF TestSlot, listVars, historyVars, ListsOK
  <2>4. CASE ClaimSlot(t)
    BY <2>4, Zenon DEF ClaimSlot, listVars, ListsOK
  <2>5. CASE CreateTileGroup(t)
    BY <2>5, Zenon DEF CreateTileGroup, listVars, historyVars, ListsOK
  <2>6. CASE AppendOffset(t)
    BY <2>6 DEF AppendOffset, historyVars, ListsOK
  <2>7. CASE AppendStore(t)
    BY <2>1, <2>7, Zenon DEF AppendStore, At, historyVars, ListsOK, LocalsOK
  <2>8. CASE AddTileGroup(t)
    BY <2>1, <2>8, Zenon DEF AddTileGroup, At, historyVars, ListsOK, Pending
  <2>9. CASE ActivateTileGroup(t)
    BY <2>9, Zenon DEF ActivateTileGroup, listVars, historyVars, ListsOK
  <2>10. CASE CountTileGroup(t)
    BY <2>10 DEF CountTileGroup, historyVars, ListsOK
  <2>11. CASE Continue(t)
    BY <2>11 DEF Continue, listVars, ListsOK
  <2>12. CASE TestIndirection(t)
    BY <2>12, Zenon DEF TestIndirection, listVars, historyVars, ListsOK
  <2>13. CASE ClaimIndirection(t)
    BY <2>13, Zenon DEF ClaimIndirection, listVars, ListsOK
  <2>14. CASE CreateIndirectionArray(t)
    BY <2>14, Zenon DEF CreateIndirectionArray, listVars, historyVars, ListsOK
  <2>15. CASE ActivateIndirectionArray(t)
    BY <2>15, Zenon DEF ActivateIndirectionArray, listVars, historyVars, ListsOK
  <2>16. CASE InsertEntries(t)
    BY <2>16 DEF InsertEntries, listVars, ListsOK
  <2> QED
    BY <1>3, <2>2, <2>3, <2>4, <2>5, <2>6, <2>7, <2>8, <2>9, <2>10, <2>11, <2>12, <2>13,
       <2>14, <2>15, <2>16, Zenon DEF Insert, GetSlot, AddDefaultTileGroup, InsertInIndexes
<1> QED
  BY <1>2, <1>3, Zenon DEF Next

\* The same of the locals.
LEMMA LocalsStep ==
  ASSUME IInv, [Next]_vars
  PROVE  LocalsOK'
<1>1. SharedOK /\ LocalsOK /\ ListsOK /\ TableInv
  BY Types, Zenon DEF IInv
<1> USE <1>1, ActiveStays, TableAssumption DEF TableInv
<1>2. CASE UNCHANGED vars
  BY <1>2, Zenon DEF vars, localVars, LocalsOK, PC, Growing
<1>3. ASSUME NEW t \in Thread, Start(t) \/ Insert(t)
      PROVE  LocalsOK'
  <2>1. CASE Start(t)
    BY <2>1, Turn DEF Start, Goto, LocalsOK, ListsOK, PC
  <2>2. CASE TestSlot(t)
    <3>1. active_tile_groups_[active[t]] \in 0 .. MaxId
      BY DEF SharedOK, LocalsOK, Id
    <3> QED
      BY <3>1, <2>2, Zenon DEF TestSlot, Goto, LocalsOK, PC
  <2>3. CASE ClaimSlot(t)
    BY <2>3, Zenon DEF ClaimSlot, At, Goto, LocalsOK, PC, Growing
  <2>4. CASE CreateTileGroup(t)
    <3>1. tile_group_oid_' \in 0 .. MaxId
      BY <2>4 DEF CreateTileGroup, SharedOK, Id
    <3> QED
      BY <3>1, <2>4, Zenon DEF CreateTileGroup, Goto, LocalsOK, PC, Growing
  <2>5. CASE AppendOffset(t)
    BY <2>5, Zenon DEF AppendOffset, Goto, ListsOK, LocalsOK, PC, Growing
  <2>6. CASE AppendStore(t)
    BY <2>6, Zenon DEF AppendStore, At, Goto, LocalsOK, PC, Growing
  <2>7. CASE AddTileGroup(t)
    BY <2>7, Zenon DEF AddTileGroup, At, Goto, LocalsOK, PC, Growing
  <2>8. CASE ActivateTileGroup(t)
    BY <2>8, Zenon DEF ActivateTileGroup, At, Goto, LocalsOK, PC, Growing
  <2>9. CASE CountTileGroup(t)
    BY <2>9, Zenon DEF CountTileGroup, At, Goto, LocalsOK, PC, Growing
  <2>10. CASE Continue(t)
    <3>1. 0 \in Active /\ 0 \in 0 .. MaxId
      BY DEF SharedOK, Active
    <3>2. CASE Leave(t)
      BY <3>1, <3>2, Zenon DEF Leave, Goto, LocalsOK, PC
    <3>3. CASE ~Leave(t)
      BY <3>3, <2>10, Turn DEF Continue, Goto, LocalsOK, PC
    <3> QED
      BY <3>2, <3>3, Zenon
  <2>11. CASE TestIndirection(t)
    <3>1. active_indirection_arrays_[active[t]] \in Nat
      BY DEF SharedOK, LocalsOK, Id
    <3> QED
      BY <3>1, <2>11, Zenon DEF TestIndirection, Goto, LocalsOK, PC
  <2>12. CASE ClaimIndirection(t)
    BY <2>12 DEF ClaimIndirection, At, Goto, LocalsOK, PC, Growing
  <2>13. CASE CreateIndirectionArray(t)
    <3>1. indirection_array_oid_' \in 0 .. MaxId
      BY <2>13 DEF CreateIndirectionArray, SharedOK, Id
    <3> QED
      BY <3>1, <2>13, Zenon DEF CreateIndirectionArray, Goto, LocalsOK, PC
  <2>14. CASE ActivateIndirectionArray(t)
    BY <2>14, Zenon DEF ActivateIndirectionArray, At, Goto, LocalsOK, PC, Growing
  <2>15. CASE InsertEntries(t)
    <3>1. 0 \in Active /\ 0 \in 0 .. MaxId
      BY DEF SharedOK, Active
    <3> QED
      BY <3>1, <2>15, Zenon DEF InsertEntries, Leave, Goto, LocalsOK, PC
  <2> QED
    BY <1>3, <2>1, <2>2, <2>3, <2>4, <2>5, <2>6, <2>7, <2>8, <2>9, <2>10, <2>11, <2>12,
       <2>13, <2>14, <2>15, Zenon DEF Insert, GetSlot, AddDefaultTileGroup, InsertInIndexes
<1> QED
  BY <1>2, <1>3, Zenon DEF Next

\* The same of what was handed out.
LEMMA HistoryStep ==
  ASSUME IInv, [Next]_vars
  PROVE  HistoryOK'
<1>1. SharedOK /\ LocalsOK /\ HistoryOK /\ TableInv
  BY Types, Zenon DEF IInv
<1> USE <1>1, ActiveStays, TableAssumption DEF TableInv
<1>2. CASE UNCHANGED vars
  BY <1>2, Zenon DEF vars, historyVars, HistoryOK
<1>3. ASSUME NEW t \in Thread, Start(t) \/ Insert(t)
      PROVE  HistoryOK'
  <2>1. /\ pc[t] = "claim" => block[t] \in Id
        /\ pc[t] \in Pending => new[t] \in Id
        /\ pc[t] = "activate_array" => new[t] \in Id
        /\ pc[t] = "claim_indirection" => index[t] \in Id
    BY Ids, Zenon
  <2>2. CASE Start(t)
    BY <2>2, Zenon DEF Start, HistoryOK
  <2>3. CASE TestSlot(t)
    BY <2>3, Zenon DEF TestSlot, historyVars, HistoryOK
  <2>4. CASE ClaimSlot(t)
    BY <2>1, <2>4 DEF ClaimSlot, At, SharedOK, LocalsOK, HistoryOK
  <2>5. CASE CreateTileGroup(t)
    BY <2>5, Zenon DEF CreateTileGroup, historyVars, HistoryOK
  <2>6. CASE AppendOffset(t)
    BY <2>6, Zenon DEF AppendOffset, historyVars, HistoryOK
  <2>7. CASE AppendStore(t)
    BY <2>7, Zenon DEF AppendStore, historyVars, HistoryOK
  <2>8. CASE AddTileGroup(t)
    BY <2>8, Zenon DEF AddTileGroup, historyVars, HistoryOK
  <2>9. CASE ActivateTileGroup(t)
    BY <2>9, Zenon DEF ActivateTileGroup, historyVars, HistoryOK
  <2>10. CASE CountTileGroup(t)
    BY <2>10, Zenon DEF CountTileGroup, historyVars, HistoryOK
  <2>11. CASE Continue(t)
    BY <2>11, Zenon DEF Continue, LocalsOK, HistoryOK
  <2>12. CASE TestIndirection(t)
    BY <2>12, Zenon DEF TestIndirection, historyVars, HistoryOK
  <2>13. CASE ClaimIndirection(t)
    BY <2>1, <2>13 DEF ClaimIndirection, At, SharedOK, LocalsOK, HistoryOK
  <2>14. CASE CreateIndirectionArray(t)
    BY <2>14, Zenon DEF CreateIndirectionArray, historyVars, HistoryOK
  <2>15. CASE ActivateIndirectionArray(t)
    BY <2>15, Zenon DEF ActivateIndirectionArray, historyVars, HistoryOK
  <2>16. CASE InsertEntries(t)
    BY <2>16, Zenon DEF InsertEntries, LocalsOK, HistoryOK
  <2> QED
    BY <1>3, <2>2, <2>3, <2>4, <2>5, <2>6, <2>7, <2>8, <2>9, <2>10, <2>11, <2>12, <2>13,
       <2>14, <2>15, <2>16, Zenon DEF Insert, GetSlot, AddDefaultTileGroup, InsertInIndexes
<1> QED
  BY <1>2, <1>3, Zenon DEF Next
-----------------------------------------------------------------------------
(***************************************************************************)
(* Proofs about DataTable, for any set of threads and any sizes: no slot   *)
(* and no indirection is given out twice, and a full tile group has just   *)
(* one thread that replaces it.                                            *)
(***************************************************************************)

\* An insert that leaves, or goes on with the index entry, touches no other
\* thread's locals.
LEMMA Leaving ==
  ASSUME IInv, NEW t \in Thread, Continue(t) \/ InsertEntries(t)
  PROVE  /\ pc[t] \in {"got", "insert"} /\ pc'[t] \in {"idle", "test_indirection"}
         /\ \A u \in Thread : u # t =>
              /\ pc'[u] = pc[u] /\ active'[u] = active[u] /\ block'[u] = block[u]
              /\ new'[u] = new[u] /\ index'[u] = index[u]
         /\ UNCHANGED <<tile_group_oid_, active_tile_groups_, next_tuple_slot,
                        tile_group_locator_, active_indirection_arrays_,
                        indirection_counter_, handed, entries>>
<1>1. LocalsOK
  BY Types, Zenon DEF IInv
<1>2. CASE Continue(t)
  BY <1>1, <1>2 DEF Continue, At, Goto, Leave, groupVars, listVars, arrayVars, LocalsOK
<1>3. CASE InsertEntries(t)
  BY <1>1, <1>3, Zenon DEF InsertEntries, At, Goto, Leave, groupVars, listVars, arrayVars, LocalsOK
<1> QED
  BY <1>2, <1>3, Zenon

\* Only an id that the catalog knows and that nobody else activated becomes active.
LEMMA GroupStep ==
  ASSUME IInv, [Next]_vars
  PROVE  GroupInv'
<1>1. SharedOK /\ LocalsOK /\ TableInv
  BY Types, Zenon DEF IInv
<1> USE <1>1, ActiveStays, TableAssumption DEF TableInv
<1>2. CASE UNCHANGED vars
  BY <1>2, Zenon DEF vars, groupVars, listVars, GroupInv
<1>3. ASSUME NEW t \in Thread, Start(t) \/ Insert(t)
      PROVE  GroupInv'
  <2>1. CASE Start(t)
    BY <2>1, Zenon DEF Start, groupVars, listVars, GroupInv
  <2>2. CASE TestSlot(t)
    BY <2>2, ZenonT(30) DEF TestSlot, groupVars, listVars, GroupInv
  <2>3. CASE ClaimSlot(t)
    <3>1. /\ block[t] \in tile_group_locator_
          /\ tile_group_locator_ \subseteq 1 .. tile_group_oid_
      BY <2>3, Zenon DEF ClaimSlot, At, ClaimInv, GroupInv
    <3>2. \A g \in Id : g > tile_group_oid_ => next_tuple_slot'[g] = 0
      BY <3>1, <2>3 DEF ClaimSlot, SharedOK, GroupInv, Id
    <3> QED
      BY <3>2, <2>3, Zenon DEF ClaimSlot, listVars, GroupInv
  <2>4. CASE CreateTileGroup(t)
    <3>1. 1 .. tile_group_oid_ \subseteq 1 .. tile_group_oid_'
      BY <2>4 DEF CreateTileGroup, SharedOK, Id
    <3>2. \A g \in Id : g > tile_group_oid_' => next_tuple_slot'[g] = 0
      BY <2>4 DEF CreateTileGroup, SharedOK, GroupInv, Id
    <3> QED
      BY <3>1, <3>2, <2>4, Zenon DEF CreateTileGroup, listVars, GroupInv
  <2>5. CASE AppendOffset(t)
    BY <2>5, Zenon DEF AppendOffset, groupVars, GroupInv
  <2>6. CASE AppendStore(t)
    BY <2>6, Zenon DEF AppendStore, groupVars, GroupInv
  <2>7. CASE AddTileGroup(t)
    BY <2>7, Zenon DEF AddTileGroup, At, groupVars, GroupInv, NewInv, Pending
  <2>8. CASE ActivateTileGroup(t)
    BY <2>8 DEF ActivateTileGroup, At, listVars, SharedOK, LocalsOK, GroupInv, NewInv,
       Pending
  <2>9. CASE CountTileGroup(t)
    BY <2>9, Zenon DEF CountTileGroup, groupVars, GroupInv
  <2>10. CASE Continue(t)
    BY <2>10, Zenon DEF Continue, groupVars, listVars, GroupInv
  <2>11. CASE TestIndirection(t)
    BY <2>11, ZenonT(30) DEF TestIndirection, groupVars, listVars, GroupInv
  <2>12. CASE ClaimIndirection(t)
    BY <2>12, ZenonT(30) DEF ClaimIndirection, groupVars, listVars, GroupInv
  <2>13. CASE CreateIndirectionArray(t)
    BY <2>13, Zenon DEF CreateIndirectionArray, groupVars, listVars, GroupInv
  <2>14. CASE ActivateIndirectionArray(t)
    BY <2>14, Zenon DEF ActivateIndirectionArray, groupVars, listVars, GroupInv
  <2>15. CASE InsertEntries(t)
    BY <2>15, Zenon DEF InsertEntries, groupVars, listVars, GroupInv
  <2> QED
    BY <1>3, <2>1, <2>2, <2>3, <2>4, <2>5, <2>6, <2>7, <2>8, <2>9, <2>10, <2>11, <2>12,
       <2>13, <2>14, <2>15, Zenon DEF Insert, GetSlot, AddDefaultTileGroup, InsertInIndexes
<1> QED
  BY <1>2, <1>3, Zenon DEF Next

\* A new tile group stays empty until it is active: claims go to active tile
\* groups, or to full ones.
LEMMA NewStep ==
  ASSUME IInv, [Next]_vars
  PROVE  NewInv'
<1>1. SharedOK /\ LocalsOK /\ TableInv
  BY Types, Zenon DEF IInv
<1> USE <1>1, ActiveStays, TableAssumption DEF TableInv
<1>2. CASE UNCHANGED vars
  BY <1>2, Zenon DEF vars, groupVars, listVars, localVars, LocalsOK, NewInv, Pending
<1>3. ASSUME NEW t \in Thread, Start(t) \/ Insert(t)
      PROVE  NewInv'
  <2>1. CASE Start(t)
    BY <2>1, Zenon DEF Start, At, Goto, groupVars, listVars, LocalsOK, NewInv, Pending
  <2>2. CASE TestSlot(t)
    BY <2>2, Zenon DEF TestSlot, At, Goto, groupVars, listVars, LocalsOK, NewInv, Pending
  <2>3. CASE ClaimSlot(t)
    <3>1. pc[t] = "claim" /\ (pc'[t] \in {"test", "create", "got"})
      BY <2>3, Zenon DEF ClaimSlot, At, Goto, LocalsOK
    <3>2. /\ next_tuple_slot' = [next_tuple_slot EXCEPT ![block[t]] = @ + 1]
          /\ \A u \in Thread : u # t => pc'[u] = pc[u]
          /\ UNCHANGED <<new, active_tile_groups_, tile_group_oid_, tile_group_locator_>>
      BY <2>3, Zenon DEF ClaimSlot, Goto, LocalsOK, listVars
    <3>3. \A u \in Thread : pc[u] \in Pending => block[t] # new[u]
      BY <3>1 DEF ClaimInv, NewInv, Full, SharedOK, LocalsOK
    <3>4. \A u \in Thread : pc'[u] \in Pending => pc[u] \in Pending
      BY <3>1, <3>2, Zenon DEF Pending
    <3>5. \A u \in Thread : pc[u] \in Pending => next_tuple_slot'[new[u]] = 0
      BY <3>2, <3>3, Ids, ZenonT(30) DEF NewInv, SharedOK
    <3>6. \A u \in Thread : pc'[u] = "activate" => pc[u] = "activate"
      BY <3>1, <3>2, Zenon
    <3> QED
      BY <3>2, <3>4, <3>5, <3>6, ActiveStays, Zenon DEF NewInv
  <2>4. CASE CreateTileGroup(t)
    <3>1. /\ tile_group_oid_ \in Nat /\ tile_group_oid_' = tile_group_oid_ + 1
          /\ tile_group_oid_' \in Id
      BY <2>4 DEF CreateTileGroup, SharedOK, Id
    <3>2. /\ pc' = [pc EXCEPT ![t] = "append"] /\ new' = [new EXCEPT ![t] = tile_group_oid_']
          /\ UNCHANGED <<active_tile_groups_, next_tuple_slot, tile_group_locator_>>
      BY <2>4, Zenon DEF CreateTileGroup, Goto, listVars
    <3>3. /\ next_tuple_slot[tile_group_oid_'] = 0
          /\ \A a \in Active : active_tile_groups_[a] # tile_group_oid_'
      BY <3>1 DEF GroupInv
    <3>4. \A u \in Thread : u # t /\ pc'[u] \in Pending =>
            pc[u] \in Pending /\ new'[u] = new[u] /\ new[u] \in 1 .. tile_group_oid_
      BY <3>2, Zenon DEF LocalsOK, NewInv
    <3>5. pc'[t] = "append" /\ new'[t] = tile_group_oid_'
      BY <3>2, Zenon DEF LocalsOK
    <3>6. \A u \in Thread : pc'[u] \in Pending =>
            /\ new'[u] \in 1 .. tile_group_oid_'
            /\ next_tuple_slot'[new'[u]] = 0
            /\ \A a \in Active : active_tile_groups_'[a] # new'[u]
      BY <3>1, <3>2, <3>3, <3>4, <3>5 DEF NewInv
    <3>7. \A u, v \in Thread :
            pc'[u] \in Pending /\ pc'[v] \in Pending /\ new'[u] = new'[v] => u = v
      BY <3>1, <3>4, <3>5 DEF NewInv
    <3>8. \A u \in Thread : pc'[u] = "activate" => new'[u] \in tile_group_locator_'
      BY <3>2, <3>4, <3>5 DEF NewInv, Pending
    <3> QED
      BY <3>6, <3>7, <3>8, ActiveStays, ZenonT(30) DEF NewInv
  <2>5. CASE AppendOffset(t)
    BY <2>5 DEF AppendOffset, At, Goto, groupVars, LocalsOK, NewInv, Pending
  <2>6. CASE AppendStore(t)
    BY <2>6 DEF AppendStore, At, Goto, groupVars, LocalsOK, NewInv, Pending
  <2>7. CASE AddTileGroup(t)
    BY <2>7 DEF AddTileGroup, At, Goto, groupVars, LocalsOK, NewInv, Pending
  <2>8. CASE ActivateTileGroup(t)
    BY <2>8 DEF ActivateTileGroup, At, Goto, listVars, LocalsOK, NewInv, Pending
  <2>9. CASE CountTileGroup(t)
    BY <2>9 DEF CountTileGroup, At, Goto, groupVars, LocalsOK, NewInv, Pending
  <2>10. CASE Continue(t)
    BY <2>10, Leaving DEF NewInv, Pending
  <2>11. CASE TestIndirection(t)
    BY <2>11, ZenonT(30) DEF TestIndirection, At, Goto, groupVars, listVars, LocalsOK, NewInv,
       Pending
  <2>12. CASE ClaimIndirection(t)
    BY <2>12 DEF ClaimIndirection, At, Goto, groupVars, listVars, LocalsOK, NewInv, Pending
  <2>13. CASE CreateIndirectionArray(t)
    BY <2>13 DEF CreateIndirectionArray, At, Goto, groupVars, listVars, LocalsOK,
       NewInv, Pending
  <2>14. CASE ActivateIndirectionArray(t)
    BY <2>14 DEF ActivateIndirectionArray, At, Goto, groupVars, listVars, LocalsOK,
       NewInv, Pending
  <2>15. CASE InsertEntries(t)
    BY <2>15, Leaving DEF NewInv, Pending
  <2> QED
    BY <1>3, <2>1, <2>2, <2>3, <2>4, <2>5, <2>6, <2>7, <2>8, <2>9, <2>10, <2>11, <2>12,
       <2>13, <2>14, <2>15, Zenon DEF Insert, GetSlot, AddDefaultTileGroup, InsertInIndexes
<1> QED
  BY <1>2, <1>3, Zenon DEF Next

\* A tile group that stops being active under a thread is full.
LEMMA ClaimStep ==
  ASSUME IInv, [Next]_vars
  PROVE  ClaimInv'
<1>1. SharedOK /\ LocalsOK /\ TableInv
  BY Types, Zenon DEF IInv
<1> USE <1>1, ActiveStays, TableAssumption DEF TableInv
<1>2. CASE UNCHANGED vars
  BY <1>2, Zenon DEF vars, groupVars, listVars, localVars, LocalsOK, ClaimInv, Full
<1>3. ASSUME NEW t \in Thread, Start(t) \/ Insert(t)
      PROVE  ClaimInv'
  <2>1. /\ pc[t] = "claim" => block[t] \in Id
        /\ pc[t] \in Pending => new[t] \in Id
        /\ pc[t] = "activate_array" => new[t] \in Id
        /\ pc[t] = "claim_indirection" => index[t] \in Id
    BY Ids, Zenon
  <2>2. CASE Start(t)
    BY <2>2, Zenon DEF Start, At, Goto, groupVars, listVars, LocalsOK, ClaimInv, Full
  <2>3. CASE TestSlot(t)
    BY <2>3, Zenon DEF TestSlot, Goto, groupVars, listVars, LocalsOK, GroupInv, ClaimInv, Full
  <2>4. CASE ClaimSlot(t)
    BY <2>1, <2>4 DEF ClaimSlot, At, Goto, listVars, SharedOK, LocalsOK, ClaimInv, Full
  <2>5. CASE CreateTileGroup(t)
    BY <2>5, Zenon DEF CreateTileGroup, At, Goto, listVars, LocalsOK, ClaimInv, Full
  <2>6. CASE AppendOffset(t)
    BY <2>6, Zenon DEF AppendOffset, At, Goto, groupVars, LocalsOK, ClaimInv, Full
  <2>7. CASE AppendStore(t)
    BY <2>7, Zenon DEF AppendStore, At, Goto, groupVars, LocalsOK, ClaimInv, Full
  <2>8. CASE AddTileGroup(t)
    BY <2>8, Zenon DEF AddTileGroup, At, Goto, groupVars, LocalsOK, ClaimInv, Full
  <2>9. CASE ActivateTileGroup(t)
    BY <2>9 DEF ActivateTileGroup, At, Goto, listVars, SharedOK, LocalsOK, ClaimInv,
       GrowInv, Growing, Full
  <2>10. CASE CountTileGroup(t)
    BY <2>10, Zenon DEF CountTileGroup, At, Goto, groupVars, LocalsOK, ClaimInv, Full
  <2>11. CASE Continue(t)
    BY <2>11, Leaving, ZenonT(30) DEF ClaimInv, Full
  <2>12. CASE TestIndirection(t)
    BY <2>12, ZenonT(30) DEF TestIndirection, At, Goto, groupVars, listVars, LocalsOK, ClaimInv,
       Full
  <2>13. CASE ClaimIndirection(t)
    BY <2>13, ZenonT(30) DEF ClaimIndirection, At, Goto, groupVars, listVars, LocalsOK, ClaimInv,
       Full
  <2>14. CASE CreateIndirectionArray(t)
    BY <2>14, Zenon DEF CreateIndirectionArray, At, Goto, groupVars, listVars, LocalsOK,
       ClaimInv, Full
  <2>15. CASE ActivateIndirectionArray(t)
    BY <2>15, Zenon DEF ActivateIndirectionArray, At, Goto, groupVars, listVars, LocalsOK,
       ClaimInv, Full
  <2>16. CASE InsertEntries(t)
    BY <2>16, Leaving, ZenonT(30) DEF ClaimInv, Full
  <2> QED
    BY <1>3, <2>2, <2>3, <2>4, <2>5, <2>6, <2>7, <2>8, <2>9, <2>10, <2>11, <2>12, <2>13,
       <2>14, <2>15, <2>16, Zenon DEF Insert, GetSlot, AddDefaultTileGroup, InsertInIndexes
<1> QED
  BY <1>2, <1>3, Zenon DEF Next

\* A step that leaves the tile groups alone, and the threads that replace one.
LEMMA GrowKept ==
  ASSUME GrowInv, Active' = Active, UNCHANGED <<active_tile_groups_, next_tuple_slot>>,
         \A u \in Thread : /\ pc'[u] \in Growing <=> pc[u] \in Growing
                           /\ pc[u] \in Growing => active'[u] = active[u] /\ block'[u] = block[u]
  PROVE  GrowInv'
<1>1. \A u \in Thread : pc'[u] \in Growing =>
        block'[u] = active_tile_groups_'[active'[u]] /\ Full(block[u])'
  BY Zenon DEF GrowInv, Full
<1>2. \A u, v \in Thread :
        pc'[u] \in Growing /\ pc'[v] \in Growing /\ active'[u] = active'[v] => u = v
  BY ZenonT(30) DEF GrowInv
<1>3. \A a \in Active' : Full(active_tile_groups_[a])' =>
        \E u \in Thread : pc'[u] \in Growing /\ active'[u] = a
  BY DEF GrowInv, Full
<1> QED
  BY <1>1, <1>2, <1>3, ZenonT(30) DEF GrowInv

\* The thread that takes the last slot is the one that begins to replace; the
\* pair is dissolved when the new tile group is active.
LEMMA GrowStep ==
  ASSUME IInv, [Next]_vars
  PROVE  GrowInv'
<1>1. SharedOK /\ LocalsOK /\ TableInv
  BY Types, Zenon DEF IInv
<1> USE <1>1, ActiveStays, TableAssumption DEF TableInv
<1>2. CASE UNCHANGED vars
  BY <1>2, ZenonT(30) DEF vars, groupVars, localVars, LocalsOK, GrowInv, Growing, Full
<1>3. ASSUME NEW t \in Thread, Start(t) \/ Insert(t)
      PROVE  GrowInv'
  <2>1. /\ pc[t] = "claim" => block[t] \in Id
        /\ pc[t] \in Pending => new[t] \in Id
        /\ pc[t] = "activate_array" => new[t] \in Id
        /\ pc[t] = "claim_indirection" => index[t] \in Id
    BY Ids, Zenon
  <2>2. CASE Start(t)
    <3>1. /\ UNCHANGED <<active_tile_groups_, next_tuple_slot>>
          /\ \A u \in Thread : /\ pc'[u] \in Growing <=> pc[u] \in Growing
                               /\ pc[u] \in Growing => active'[u] = active[u] /\ block'[u] = block[u]
      BY <2>2, Zenon DEF Start, At, Goto, groupVars, LocalsOK, Growing
    <3> QED
      BY <3>1, GrowKept, ZenonT(30)
  <2>3. CASE TestSlot(t)
    <3>1. /\ UNCHANGED <<active_tile_groups_, next_tuple_slot>>
          /\ \A u \in Thread : /\ pc'[u] \in Growing <=> pc[u] \in Growing
                               /\ pc[u] \in Growing => active'[u] = active[u] /\ block'[u] = block[u]
      BY <2>3, Zenon DEF TestSlot, At, Goto, groupVars, LocalsOK, Growing
    <3> QED
      BY <3>1, GrowKept, Zenon
  <2>4. CASE ClaimSlot(t)
    <3> DEFINE g == block[t]
    <3>1. /\ pc[t] = "claim" /\ g \in Id /\ next_tuple_slot[g] \in Nat
          /\ next_tuple_slot' = [next_tuple_slot EXCEPT ![g] = @ + 1]
          /\ \A u \in Thread : u # t => pc'[u] = pc[u]
          /\ UNCHANGED <<active_tile_groups_, active, block>>
      BY <2>1, <2>4, ZenonT(30) DEF ClaimSlot, At, Goto, SharedOK, LocalsOK
    <3>2. \A h \in Id : Full(h) => Full(h)'
      BY <3>1 DEF Full, SharedOK
    <3>3. \A h \in Id : h # g /\ Full(h)' => Full(h)
      BY <3>1, Zenon DEF Full, SharedOK
    <3>4. \A u \in Thread : pc[u] \in Growing => u # t /\ pc'[u] \in Growing
      BY <3>1, ZenonT(30) DEF Growing
    <3>5. \A a \in Active : active_tile_groups_[a] \in Id
      BY Zenon DEF SharedOK
    <3>6. CASE Full(g)
      <4>1. pc'[t] = "test"
        BY <3>1, <3>6, <2>4 DEF ClaimSlot, Goto, Claimed, Full, LocalsOK
      <4>2. \A u \in Thread : pc'[u] \in Growing => pc[u] \in Growing
        BY <3>1, <4>1, ZenonT(30) DEF Growing
      <4> QED
        BY <3>1, <3>2, <3>3, <3>4, <3>5, <3>6, <4>2 DEF GrowInv, LocalsOK
    <3>7. CASE ~Full(g)
      <4>1. g = active_tile_groups_[active[t]] /\ active[t] \in Active
        BY <3>1, <3>7, Zenon DEF ClaimInv, LocalsOK
      <4>2. \A u \in Thread : pc[u] \in Growing => active[u] # active[t]
        BY <3>7, <4>1 DEF GrowInv
      <4>3. CASE next_tuple_slot[g] = num_tuple_slots - 1
        <5>1. pc'[t] = "create" /\ Full(g)'
          BY <3>1, <4>3, <2>4 DEF ClaimSlot, Goto, Claimed, LastSlot, Full, SharedOK, LocalsOK
        <5>2. \A u \in Thread : pc'[u] \in Growing => u = t \/ pc[u] \in Growing
          BY <3>1, ZenonT(30)
        <5>3. \A u \in Thread : pc'[u] \in Growing =>
                block'[u] = active_tile_groups_'[active'[u]] /\ Full(block[u])'
          BY <3>1, <3>2, <3>5, <4>1, <5>1, <5>2 DEF GrowInv, LocalsOK
        <5>4. \A u, v \in Thread :
                pc'[u] \in Growing /\ pc'[v] \in Growing /\ active'[u] = active'[v] => u = v
          BY <3>1, <4>2, <5>2, ZenonT(30) DEF GrowInv
        <5>5. \A a \in Active : Full(active_tile_groups_[a])' =>
                \E u \in Thread : pc'[u] \in Growing /\ active'[u] = a
          BY <3>1, <3>3, <3>4, <3>5, <4>1, <5>1 DEF GrowInv, Growing, GroupInv
        <5> QED
          BY <3>1, <5>3, <5>4, <5>5, ZenonT(30) DEF GrowInv
      <4>4. CASE next_tuple_slot[g] # num_tuple_slots - 1
        <5>1. pc'[t] = "got" /\ ~Full(g)'
          <6>1. next_tuple_slot[g] < num_tuple_slots - 1
            BY <3>1, <3>7, <4>4 DEF Full
          <6>2. pc'[t] = "got"
            BY <3>1, <6>1, <2>4 DEF ClaimSlot, Goto, Claimed, LastSlot, LocalsOK
          <6>3. next_tuple_slot'[g] = next_tuple_slot[g] + 1
            BY <3>1, ZenonT(30) DEF SharedOK
          <6> QED
            BY <3>1, <6>1, <6>2, <6>3 DEF Full
        <5>2. \A u \in Thread : pc'[u] \in Growing => pc[u] \in Growing
          BY <3>1, <5>1, Zenon DEF Growing
        <5> QED
          BY <3>1, <3>2, <3>3, <3>4, <3>5, <5>1, <5>2 DEF GrowInv, LocalsOK
      <4> QED
        BY <4>3, <4>4, Zenon
    <3> QED
      BY <3>6, <3>7, Zenon
  <2>5. CASE CreateTileGroup(t)
    <3>1. /\ UNCHANGED <<active_tile_groups_, next_tuple_slot>>
          /\ \A u \in Thread : /\ pc'[u] \in Growing <=> pc[u] \in Growing
                               /\ pc[u] \in Growing => active'[u] = active[u] /\ block'[u] = block[u]
      BY <2>5, Zenon DEF CreateTileGroup, At, Goto, LocalsOK, Growing
    <3> QED
      BY <3>1, GrowKept, Zenon
  <2>6. CASE AppendOffset(t)
    <3>1. /\ UNCHANGED <<active_tile_groups_, next_tuple_slot>>
          /\ \A u \in Thread : /\ pc'[u] \in Growing <=> pc[u] \in Growing
                               /\ pc[u] \in Growing => active'[u] = active[u] /\ block'[u] = block[u]
      BY <2>6, Zenon DEF AppendOffset, At, Goto, groupVars, LocalsOK, Growing
    <3> QED
      BY <3>1, GrowKept, Zenon
  <2>7. CASE AppendStore(t)
    <3>1. /\ UNCHANGED <<active_tile_groups_, next_tuple_slot>>
          /\ \A u \in Thread : /\ pc'[u] \in Growing <=> pc[u] \in Growing
                               /\ pc[u] \in Growing => active'[u] = active[u] /\ block'[u] = block[u]
      BY <2>7, Zenon DEF AppendStore, At, Goto, groupVars, LocalsOK, Growing
    <3> QED
      BY <3>1, GrowKept, Zenon
  <2>8. CASE AddTileGroup(t)
    <3>1. /\ UNCHANGED <<active_tile_groups_, next_tuple_slot>>
          /\ \A u \in Thread : /\ pc'[u] \in Growing <=> pc[u] \in Growing
                               /\ pc[u] \in Growing => active'[u] = active[u] /\ block'[u] = block[u]
      BY <2>8, Zenon DEF AddTileGroup, At, Goto, groupVars, LocalsOK, Growing
    <3> QED
      BY <3>1, GrowKept, Zenon
  <2>9. CASE ActivateTileGroup(t)
    BY <2>9 DEF ActivateTileGroup, At, Goto, SharedOK, LocalsOK, NewInv, GrowInv,
       Pending, Growing, Full
  <2>10. CASE CountTileGroup(t)
    <3>1. /\ UNCHANGED <<active_tile_groups_, next_tuple_slot>>
          /\ \A u \in Thread : /\ pc'[u] \in Growing <=> pc[u] \in Growing
                               /\ pc[u] \in Growing => active'[u] = active[u] /\ block'[u] = block[u]
      BY <2>10, Zenon DEF CountTileGroup, At, Goto, groupVars, LocalsOK, Growing
    <3> QED
      BY <3>1, GrowKept, Zenon
  <2>11. CASE Continue(t)
    <3>1. /\ UNCHANGED <<active_tile_groups_, next_tuple_slot>>
          /\ \A u \in Thread : /\ pc'[u] \in Growing <=> pc[u] \in Growing
                               /\ pc[u] \in Growing => active'[u] = active[u] /\ block'[u] = block[u]
      BY <2>11, Leaving, ZenonT(30) DEF Growing
    <3> QED
      BY <3>1, GrowKept, Zenon
  <2>12. CASE TestIndirection(t)
    <3>1. /\ UNCHANGED <<active_tile_groups_, next_tuple_slot>>
          /\ \A u \in Thread : /\ pc'[u] \in Growing <=> pc[u] \in Growing
                               /\ pc[u] \in Growing => active'[u] = active[u] /\ block'[u] = block[u]
      BY <2>12, Zenon DEF TestIndirection, At, Goto, groupVars, LocalsOK, Growing
    <3> QED
      BY <3>1, GrowKept, Zenon
  <2>13. CASE ClaimIndirection(t)
    <3>1. /\ UNCHANGED <<active_tile_groups_, next_tuple_slot>>
          /\ \A u \in Thread : /\ pc'[u] \in Growing <=> pc[u] \in Growing
                               /\ pc[u] \in Growing => active'[u] = active[u] /\ block'[u] = block[u]
      BY <2>13 DEF ClaimIndirection, At, Goto, groupVars, LocalsOK, Growing
    <3> QED
      BY <3>1, GrowKept, Zenon
  <2>14. CASE CreateIndirectionArray(t)
    <3>1. /\ UNCHANGED <<active_tile_groups_, next_tuple_slot>>
          /\ \A u \in Thread : /\ pc'[u] \in Growing <=> pc[u] \in Growing
                               /\ pc[u] \in Growing => active'[u] = active[u] /\ block'[u] = block[u]
      BY <2>14, Zenon DEF CreateIndirectionArray, At, Goto, groupVars, LocalsOK, Growing
    <3> QED
      BY <3>1, GrowKept, Zenon
  <2>15. CASE ActivateIndirectionArray(t)
    <3>1. /\ UNCHANGED <<active_tile_groups_, next_tuple_slot>>
          /\ \A u \in Thread : /\ pc'[u] \in Growing <=> pc[u] \in Growing
                               /\ pc[u] \in Growing => active'[u] = active[u] /\ block'[u] = block[u]
      BY <2>15, Zenon DEF ActivateIndirectionArray, At, Goto, groupVars, LocalsOK, Growing
    <3> QED
      BY <3>1, GrowKept, Zenon
  <2>16. CASE InsertEntries(t)
    <3>1. /\ UNCHANGED <<active_tile_groups_, next_tuple_slot>>
          /\ \A u \in Thread : /\ pc'[u] \in Growing <=> pc[u] \in Growing
                               /\ pc[u] \in Growing => active'[u] = active[u] /\ block'[u] = block[u]
      BY <2>16, Leaving, Zenon DEF Growing
    <3> QED
      BY <3>1, GrowKept, Zenon
  <2> QED
    BY <1>3, <2>2, <2>3, <2>4, <2>5, <2>6, <2>7, <2>8, <2>9, <2>10, <2>11, <2>12, <2>13,
       <2>14, <2>15, <2>16, Zenon DEF Insert, GetSlot, AddDefaultTileGroup, InsertInIndexes
<1> QED
  BY <1>2, <1>3, Zenon DEF Next

\* A claim hands out what the counter showed, and moves it on.
LEMMA HandedStep ==
  ASSUME IInv, [Next]_vars
  PROVE  HandedInv'
<1>1. SharedOK /\ LocalsOK /\ HistoryOK /\ TableInv
  BY Types, Zenon DEF IInv
<1> USE <1>1, ActiveStays, TableAssumption DEF TableInv
<1>2. CASE UNCHANGED vars
  BY <1>2, Zenon DEF vars, groupVars, listVars, historyVars, HandedInv
<1>3. ASSUME NEW t \in Thread, Start(t) \/ Insert(t)
      PROVE  HandedInv'
  <2>1. /\ pc[t] = "claim" => block[t] \in Id
        /\ pc[t] \in Pending => new[t] \in Id
        /\ pc[t] = "activate_array" => new[t] \in Id
        /\ pc[t] = "claim_indirection" => index[t] \in Id
    BY Ids, Zenon
  <2>2. CASE Start(t)
    BY <2>2, Zenon DEF Start, groupVars, listVars, HandedInv
  <2>3. CASE TestSlot(t)
    BY <2>3, ZenonT(30) DEF TestSlot, groupVars, listVars, historyVars, HandedInv
  <2>4. CASE ClaimSlot(t)
    BY <2>1, <2>4 DEF ClaimSlot, At, Claimed, listVars, SharedOK, LocalsOK, HistoryOK,
       ClaimInv, HandedInv
  <2>5. CASE CreateTileGroup(t)
    BY <2>5, Zenon DEF CreateTileGroup, listVars, historyVars, HandedInv
  <2>6. CASE AppendOffset(t)
    BY <2>6, Zenon DEF AppendOffset, groupVars, historyVars, HandedInv
  <2>7. CASE AppendStore(t)
    BY <2>7, ZenonT(30) DEF AppendStore, groupVars, historyVars, HandedInv
  <2>8. CASE AddTileGroup(t)
    BY <2>8, Zenon DEF AddTileGroup, groupVars, historyVars, HandedInv
  <2>9. CASE ActivateTileGroup(t)
    BY <2>9, ZenonT(30) DEF ActivateTileGroup, listVars, historyVars, HandedInv
  <2>10. CASE CountTileGroup(t)
    BY <2>10, Zenon DEF CountTileGroup, groupVars, historyVars, HandedInv
  <2>11. CASE Continue(t)
    BY <2>11, Leaving DEF HandedInv
  <2>12. CASE TestIndirection(t)
    BY <2>12, ZenonT(30) DEF TestIndirection, groupVars, listVars, historyVars, HandedInv
  <2>13. CASE ClaimIndirection(t)
    BY <2>13, ZenonT(30) DEF ClaimIndirection, groupVars, listVars, HandedInv
  <2>14. CASE CreateIndirectionArray(t)
    BY <2>14, Zenon DEF CreateIndirectionArray, groupVars, listVars, historyVars, HandedInv
  <2>15. CASE ActivateIndirectionArray(t)
    BY <2>15, ZenonT(30) DEF ActivateIndirectionArray, groupVars, listVars, historyVars, HandedInv
  <2>16. CASE InsertEntries(t)
    BY <2>16, Leaving DEF HandedInv
  <2> QED
    BY <1>3, <2>2, <2>3, <2>4, <2>5, <2>6, <2>7, <2>8, <2>9, <2>10, <2>11, <2>12, <2>13,
       <2>14, <2>15, <2>16, Zenon DEF Insert, GetSlot, AddDefaultTileGroup, InsertInIndexes
<1> QED
  BY <1>2, <1>3, Zenon DEF Next

\* The same of the indirections.
LEMMA EntriesStep ==
  ASSUME IInv, [Next]_vars
  PROVE  EntriesInv'
<1>1. SharedOK /\ LocalsOK /\ HistoryOK /\ TableInv
  BY Types, Zenon DEF IInv
<1> USE <1>1, ActiveStays, TableAssumption DEF TableInv
<1>2. CASE UNCHANGED vars
  BY <1>2, ZenonT(30) DEF vars, arrayVars, historyVars, localVars, LocalsOK, EntriesInv
<1>3. ASSUME NEW t \in Thread, Start(t) \/ Insert(t)
      PROVE  EntriesInv'
  <2>1. /\ pc[t] = "claim" => block[t] \in Id
        /\ pc[t] \in Pending => new[t] \in Id
        /\ pc[t] = "activate_array" => new[t] \in Id
        /\ pc[t] = "claim_indirection" => index[t] \in Id
    BY Ids, Zenon
  <2>2. CASE Start(t)
    BY <2>2, ZenonT(30) DEF Start, At, Goto, arrayVars, LocalsOK, EntriesInv
  <2>3. CASE TestSlot(t)
    BY <2>3, Zenon DEF TestSlot, At, Goto, arrayVars, historyVars, LocalsOK, EntriesInv
  <2>4. CASE ClaimSlot(t)
    BY <2>4, ZenonT(30) DEF ClaimSlot, At, Goto, arrayVars, LocalsOK, EntriesInv
  <2>5. CASE CreateTileGroup(t)
    BY <2>5, ZenonT(30) DEF CreateTileGroup, At, Goto, arrayVars, historyVars, LocalsOK, EntriesInv
  <2>6. CASE AppendOffset(t)
    BY <2>6, ZenonT(30) DEF AppendOffset, At, Goto, arrayVars, historyVars, LocalsOK, EntriesInv
  <2>7. CASE AppendStore(t)
    BY <2>7, ZenonT(30) DEF AppendStore, At, Goto, arrayVars, historyVars, LocalsOK, EntriesInv
  <2>8. CASE AddTileGroup(t)
    BY <2>8, ZenonT(30) DEF AddTileGroup, At, Goto, arrayVars, historyVars, LocalsOK, EntriesInv
  <2>9. CASE ActivateTileGroup(t)
    BY <2>9, ZenonT(30) DEF ActivateTileGroup, At, Goto, arrayVars, historyVars, LocalsOK,
       EntriesInv
  <2>10. CASE CountTileGroup(t)
    BY <2>10, ZenonT(30) DEF CountTileGroup, At, Goto, arrayVars, historyVars, LocalsOK, EntriesInv
  <2>11. CASE Continue(t)
    BY <2>11, Leaving DEF EntriesInv
  <2>12. CASE TestIndirection(t)
    BY <2>12, ZenonT(30) DEF TestIndirection, Goto, arrayVars, historyVars, SharedOK, LocalsOK,
       EntriesInv
  <2>13. CASE ClaimIndirection(t)
    <3> DEFINE a == index[t]
               i == indirection_counter_[a]
    <3>1. /\ a \in Id /\ i \in Nat /\ version[t] \in Nat
          /\ indirection_counter_' = [indirection_counter_ EXCEPT ![a] = i + 1]
          /\ \/ entries' = entries
             \/ entries' = entries \union {<<version[t], a, i>>}
                  /\ i < INDIRECTION_ARRAY_MAX_SIZE
      BY <2>1, <2>13, ZenonT(30) DEF ClaimIndirection, At, Allocated, SharedOK, LocalsOK
    <3>2. /\ \A u \in Thread : pc'[u] \in {"claim_indirection", "activate_array"} => pc'[u] = pc[u]
          /\ index' = index /\ new' = new
      BY <2>13, Zenon DEF ClaimIndirection, Goto, LocalsOK
    <3>3. \A x \in entries : x[2] \in Id /\ x[3] \in Nat
      BY Zenon DEF HistoryOK
    <3>4. \A h \in Id : /\ indirection_counter_'[h] \in Nat /\ indirection_counter_[h] \in Nat
                        /\ indirection_counter_[h] <= indirection_counter_'[h]
                        /\ h = a => indirection_counter_'[h] = i + 1
      BY <3>1 DEF SharedOK
    <3>5. \A x \in entries : x[3] < indirection_counter_'[x[2]]
      BY <3>3, <3>4 DEF EntriesInv
    <3>6. \A x \in entries : ~(x[2] = a /\ x[3] = i)
      BY <3>1, <3>3 DEF EntriesInv
    <3> HIDE DEF i, a
    <3>7. \A x \in entries' : \/ x \in entries
                             \/ /\ x = <<version[t], a, i>> /\ x[2] = a /\ x[3] = i
                                /\ i < INDIRECTION_ARRAY_MAX_SIZE
      BY <3>1
    <3>8. \A x \in entries' :
            x[3] < INDIRECTION_ARRAY_MAX_SIZE /\ x[3] < indirection_counter_'[x[2]]
      BY <3>1, <3>4, <3>5, <3>7 DEF EntriesInv
    <3>9. \A x, y \in entries' : x[2] = y[2] /\ x[3] = y[3] => x = y
      BY <3>6, <3>7, ZenonT(30) DEF EntriesInv
    <3> QED
      BY <3>2, <3>8, <3>9, ZenonT(30) DEF EntriesInv
  <2>14. CASE CreateIndirectionArray(t)
    <3>1. indirection_array_oid_' \in Id
      BY <2>14 DEF CreateIndirectionArray, SharedOK, Id
    <3> QED
      BY <3>1, <2>14, ZenonT(30) DEF CreateIndirectionArray, Goto, historyVars, LocalsOK, EntriesInv
  <2>15. CASE ActivateIndirectionArray(t)
    BY <2>15, ZenonT(30) DEF ActivateIndirectionArray, At, Goto, historyVars, LocalsOK, EntriesInv
  <2>16. CASE InsertEntries(t)
    BY <2>16, Leaving DEF EntriesInv
  <2> QED
    BY <1>3, <2>2, <2>3, <2>4, <2>5, <2>6, <2>7, <2>8, <2>9, <2>10, <2>11, <2>12, <2>13,
       <2>14, <2>15, <2>16, Zenon DEF Insert, GetSlot, AddDefaultTileGroup, InsertInIndexes
<1> QED
  BY <1>2, <1>3, Zenon DEF Next

-----------------------------------------------------------------------------
LEMMA InitInv == Init => IInv
<1> USE TableAssumption DEF Init
<1>1. Init => SharedOK /\ ListsOK /\ LocalsOK /\ HistoryOK
  <2>1. Init => SharedOK
    BY DEF SharedOK, Id, Active
  <2>2. Init => ListsOK
    BY DEF ListsOK, Id
  <2>3. Init => LocalsOK
    BY DEF LocalsOK, Active, Zero, PC
  <2>4. Init => HistoryOK
    BY Zenon DEF HistoryOK
  <2> QED
    BY <2>1, <2>2, <2>3, <2>4, ZenonT(30)
<1>2. Init => GroupInv
  BY DEF GroupInv, Id, Active
<1>3. Init => NewInv /\ ClaimInv /\ HandedInv /\ EntriesInv
  BY ZenonT(30) DEF NewInv, ClaimInv, HandedInv, EntriesInv, Pending
<1>4. Init => GrowInv
  BY DEF GrowInv, Growing, Full, Id, Active
<1> QED
  BY <1>1, <1>2, <1>3, <1>4, Types, ZenonT(30) DEF IInv, TableInv

\* The inductive invariant of the inserts: the types, and the layers above.
THEOREM TableInvariant == Spec => []IInv
<1>1. IInv /\ [Next]_vars => IInv'
  BY Types, SharedStep, ListsStep, LocalsStep, HistoryStep, GroupStep, NewStep, ClaimStep,
     GrowStep, HandedStep, EntriesStep, Zenon
  DEF IInv, TableInv, TypeOK, SharedOK, ListsOK, LocalsOK, HistoryOK
<1> QED
  BY <1>1, InitInv, PTL DEF Spec

\* GetEmptyTupleSlot and AllocateIndirection never give the same place to two
\* inserts, and the catalog finds the tile group of every slot, however many
\* threads race and however small tile groups and arrays are.
THEOREM SlotsGivenOnce == Spec => []SlotsUsable
<1>1. IInv => SlotsUsable
  BY ZenonT(30) DEF IInv, TableInv, HandedInv, EntriesInv, SlotsUsable
<1> QED
  BY <1>1, TableInvariant, PTL

\* A full tile group always has one thread in AddDefaultTileGroup on its
\* behalf, and only one, however many spin on it.
THEOREM FullReplacedByOne == Spec => []FullIsReplaced
<1>1. IInv => FullIsReplaced
  <2> SUFFICES ASSUME IInv, NEW a \in Active
               PROVE  LET growers == {t \in Thread : pc[t] \in Growing /\ active[t] = a}
                      IN IF next_tuple_slot[active_tile_groups_[a]] >= num_tuple_slots
                           THEN \E t \in growers :
                                  growers = {t} /\ block[t] = active_tile_groups_[a]
                           ELSE growers = {}
    BY ZenonT(30) DEF FullIsReplaced
  <2>1. GrowInv
    BY Zenon DEF IInv, TableInv
  <2>2. CASE Full(active_tile_groups_[a])
    BY ONLY <2>1, <2>2 DEF GrowInv, Full
  <2>3. CASE ~Full(active_tile_groups_[a])
    BY ONLY <2>1, <2>3 DEF GrowInv, Full
  <2> QED
    BY <2>2, <2>3, ZenonT(30)
<1> QED
  BY <1>1, TableInvariant, PTL
-----------------------------------------------------------------------------
(***************************************************************************)
(* Proofs about DataTable's list of tile groups and its counters: the list *)
(* is complete between inserts, and the counter of a full tile group does  *)
(* not run away.                                                           *)
(***************************************************************************)

\* Threads between the test and the claim of a slot of g.
Claimers(g) == {t \in Thread : pc[t] = "claim" /\ block[t] = g}

\* Each of them adds at most one more.
OverInv ==
  \A g \in Id : next_tuple_slot[g] + Cardinality(Claimers(g)) < num_tuple_slots + Cardinality(Thread)

\* AddDefaultTileGroup, from the new id to the count.
Appending == {t \in Thread : pc[t] = "append"}
Listed == {"store", "locate", "activate", "count"}
Counting == {t \in Thread : pc[t] \in Listed}

\* A tile group with an id is about to be appended, or has an index; one that
\* has an index is about to be counted, or is.
CountsInv ==
  /\ lock_free_array_offset + Cardinality(Appending) = tile_group_oid_
  /\ tile_group_count_ + Cardinality(Counting) = lock_free_array_offset

\* An index is one thread's until its tile group is stored there.
IndexInv ==
  /\ \A i \in 0 .. MaxId - 1 : i >= lock_free_array_offset => tile_groups_[i] = 0
  /\ \A t \in Thread : pc[t] = "store" =>
       index[t] < lock_free_array_offset /\ tile_groups_[index[t]] = 0
  /\ \A t \in Thread : pc[t] = "locate" =>
       index[t] < lock_free_array_offset /\ tile_groups_[index[t]] = new[t]
  /\ \A t, u \in Thread : pc[t] = "store" /\ pc[u] = "store" /\ index[t] = index[u] => t = u

\* What is not in the list, or not in the catalog, has a thread that puts it there.
IndexLocated ==
  \A i \in 0 .. lock_free_array_offset - 1 :
    \/ tile_groups_[i] \in tile_group_locator_
    \/ \E t \in Thread : pc[t] \in {"store", "locate"} /\ index[t] = i
GroupStored ==
  \A g \in 1 .. tile_group_oid_ :
    \/ \E i \in 0 .. lock_free_array_offset - 1 : tile_groups_[i] = g
    \/ \E t \in Thread : pc[t] \in {"append", "store"} /\ new[t] = g
GroupLocated ==
  \A g \in 1 .. tile_group_oid_ :
    \/ g \in tile_group_locator_
    \/ \E t \in Thread : pc[t] \in {"append", "store", "locate"} /\ new[t] = g
ListInv == IndexLocated /\ GroupStored /\ GroupLocated

\* With one active tile group there is one thread between append and activate.
SingleInv ==
  active_count = 1 =>
    \A t \in Thread : pc[t] \in {"store", "locate"} => index[t] = lock_free_array_offset - 1

LInv == OverInv /\ CountsInv /\ IndexInv /\ ListInv /\ SingleInv

\* Outside AddDefaultTileGroup an insert leaves the lists and the threads that
\* are in it alone.
LEMMA ListFrame ==
  ASSUME IInv, NEW t \in Thread, Start(t) \/ GetSlot(t) \/ InsertInIndexes(t)
  PROVE  /\ pc[t] \notin Listed \union {"append"} /\ pc'[t] \notin Listed \union {"append"}
         /\ \A u \in Thread : u # t =>
              pc'[u] = pc[u] /\ new'[u] = new[u] /\ index'[u] = index[u]
         /\ UNCHANGED <<active_count, tile_group_oid_, lock_free_array_offset, tile_groups_,
                        tile_group_locator_, tile_group_count_>>
<1>1. LocalsOK
  BY Types, Zenon DEF IInv
<1> USE <1>1 DEF At, Goto, listVars, groupVars, LocalsOK, Listed
<1>2. CASE Start(t)
  BY <1>2, ZenonT(30) DEF Start
<1>3. CASE TestSlot(t)
  BY <1>3, Zenon DEF TestSlot
<1>4. CASE ClaimSlot(t)
  BY <1>4, ZenonT(30) DEF ClaimSlot
<1>5. CASE Continue(t)
  BY <1>5, Zenon DEF Continue, Leave
<1>6. CASE TestIndirection(t)
  BY <1>6, Zenon DEF TestIndirection
<1>7. CASE ClaimIndirection(t)
  BY <1>7, ZenonT(30) DEF ClaimIndirection
<1>8. CASE CreateIndirectionArray(t)
  BY <1>8, Zenon DEF CreateIndirectionArray
<1>9. CASE ActivateIndirectionArray(t)
  BY <1>9, Zenon DEF ActivateIndirectionArray
<1>10. CASE InsertEntries(t)
  BY <1>10, ZenonT(30) DEF InsertEntries, Leave
<1> QED
  BY <1>2, <1>3, <1>4, <1>5, <1>6, <1>7, <1>8, <1>9, <1>10, Zenon DEF GetSlot, InsertInIndexes

\* A step of AddDefaultTileGroup, and what it does to the thread.
LEMMA AddFrame ==
  ASSUME IInv, NEW t \in Thread, AddDefaultTileGroup(t)
  PROVE  /\ \A u \in Thread : u # t =>
              pc'[u] = pc[u] /\ new'[u] = new[u] /\ index'[u] = index[u]
         /\ UNCHANGED <<active_count, next_tuple_slot, block>>
         /\ \/ CreateTileGroup(t) /\ pc[t] = "create" /\ pc'[t] = "append"
            \/ AppendOffset(t) /\ pc[t] = "append" /\ pc'[t] = "store"
            \/ AppendStore(t) /\ pc[t] = "store" /\ pc'[t] = "locate"
            \/ AddTileGroup(t) /\ pc[t] = "locate" /\ pc'[t] = "activate"
            \/ ActivateTileGroup(t) /\ pc[t] = "activate" /\ pc'[t] = "count"
            \/ CountTileGroup(t) /\ pc[t] = "count" /\ pc'[t] = "got"
<1>1. LocalsOK
  BY Types, Zenon DEF IInv
<1> USE <1>1 DEF At, Goto, groupVars, LocalsOK
<1>2. CASE CreateTileGroup(t)
  BY <1>2, ZenonT(30) DEF CreateTileGroup
<1>3. CASE AppendOffset(t)
  BY <1>3, ZenonT(30) DEF AppendOffset
<1>4. CASE AppendStore(t)
  BY <1>4, ZenonT(30) DEF AppendStore
<1>5. CASE AddTileGroup(t)
  BY <1>5, ZenonT(30) DEF AddTileGroup
<1>6. CASE ActivateTileGroup(t)
  BY <1>6, ZenonT(30) DEF ActivateTileGroup
<1>7. CASE CountTileGroup(t)
  BY <1>7, ZenonT(30) DEF CountTileGroup
<1> QED
  BY <1>2, <1>3, <1>4, <1>5, <1>6, <1>7, Zenon DEF AddDefaultTileGroup

\* A step that leaves the array alone, and brings no thread to it.
LEMMA IndexKept ==
  ASSUME IndexInv,
         \A u \in Thread : pc'[u] \in {"store", "locate"} =>
           pc'[u] = pc[u] /\ new'[u] = new[u] /\ index'[u] = index[u],
         UNCHANGED <<lock_free_array_offset, tile_groups_>>
  PROVE  IndexInv'
<1>1. \A i \in 0 .. MaxId - 1 : i >= lock_free_array_offset' => tile_groups_'[i] = 0
  BY ZenonT(30) DEF IndexInv
<1>2. \A u \in Thread : pc'[u] = "store" =>
        index'[u] < lock_free_array_offset' /\ tile_groups_'[index'[u]] = 0
  BY Zenon DEF IndexInv
<1>3. \A u \in Thread : pc'[u] = "locate" =>
        index'[u] < lock_free_array_offset' /\ tile_groups_'[index'[u]] = new'[u]
  BY DEF IndexInv
<1>4. \A u, v \in Thread :
        pc'[u] = "store" /\ pc'[v] = "store" /\ index'[u] = index'[v] => u = v
  BY DEF IndexInv
<1> QED
  BY <1>1, <1>2, <1>3, <1>4, Zenon DEF IndexInv

\* A step that leaves the list alone, and the threads that have work to do on it.
LEMMA ListKept ==
  ASSUME ListInv,
         \A u \in Thread : pc[u] \in {"append", "store", "locate"} =>
           pc'[u] = pc[u] /\ new'[u] = new[u] /\ index'[u] = index[u],
         UNCHANGED <<tile_group_oid_, lock_free_array_offset, tile_groups_, tile_group_locator_>>
  PROVE  ListInv'
<1>1. IndexLocated'
  BY DEF ListInv, IndexLocated
<1>2. GroupStored'
  BY DEF ListInv, GroupStored
<1>3. GroupLocated'
  BY DEF ListInv, GroupLocated
<1> QED
  BY <1>1, <1>2, <1>3, Zenon DEF ListInv

\* One active tile group, one thread that replaces it, and the last index is its own.
LEMMA SingleStep ==
  ASSUME IInv, SingleInv, [Next]_vars PROVE SingleInv'
<1> SUFFICES ASSUME active_count' = 1
             PROVE  \A u \in Thread : pc'[u] \in {"store", "locate"} =>
                      index'[u] = lock_free_array_offset' - 1
  BY Zenon DEF SingleInv
<1>1. /\ lock_free_array_offset \in Nat /\ index \in [Thread -> Nat]
  BY Zenon DEF IInv, TypeOK
<1>2. ASSUME NEW t \in Thread, Start(t) \/ GetSlot(t) \/ InsertInIndexes(t)
      PROVE  \A u \in Thread : pc'[u] \in {"store", "locate"} =>
               index'[u] = lock_free_array_offset' - 1
  <2>1. /\ \A u \in Thread : pc'[u] \in {"store", "locate"} =>
             pc'[u] = pc[u] /\ index'[u] = index[u]
        /\ UNCHANGED <<active_count, lock_free_array_offset>>
    BY <1>2, ListFrame, ZenonT(30) DEF Listed
  <2> QED
    BY <2>1, Zenon DEF SingleInv
<1>3. ASSUME NEW t \in Thread, AddDefaultTileGroup(t)
      PROVE  \A u \in Thread : pc'[u] \in {"store", "locate"} =>
               index'[u] = lock_free_array_offset' - 1
  <2>1. /\ \A u \in Thread : u # t => pc'[u] = pc[u] /\ index'[u] = index[u]
        /\ active_count = 1
    BY <1>3, AddFrame, ZenonT(30)
  <2>2. CASE AppendOffset(t)
    <3>0. pc[t] = "append"
      BY <2>2, Zenon DEF AppendOffset, At
    <3>1. \A u \in Thread : pc[u] \in Growing => u = t
      <4>1. \A u \in Thread : active[u] = 0
        BY <2>1 DEF IInv, TypeOK, Active
      <4> QED
        <5>1. \A u \in Thread : pc[u] \in Growing /\ pc[t] \in Growing
                /\ active[u] = active[t] => u = t
          BY ZenonT(30) DEF IInv, TableInv, GrowInv
        <5> QED
          BY <3>0, <4>1, <5>1, Zenon DEF Growing
    <3>2. \A u \in Thread : pc'[u] \in {"store", "locate"} => u = t
      BY <2>1, <3>1, ZenonT(30) DEF Growing
    <3>3. index'[t] = lock_free_array_offset /\ lock_free_array_offset' = lock_free_array_offset + 1
      BY <1>1, <2>2, Zenon DEF AppendOffset
    <3> QED
      BY <1>1, <3>2, <3>3
  <2>3. CASE ~AppendOffset(t)
    <3>1. /\ pc'[t] \in {"store", "locate"} => pc[t] = "store"
          /\ UNCHANGED lock_free_array_offset
          /\ pc[t] = "store" => index'[t] = index[t]
      BY <1>3, <2>3, AddFrame, Zenon
      DEF CreateTileGroup, AppendStore, AddTileGroup, ActivateTileGroup, CountTileGroup, listVars
    <3> QED
      BY <2>1, <3>1, Zenon DEF SingleInv
  <2> QED
    BY <2>2, <2>3, Zenon
<1>4. CASE UNCHANGED vars
  <2>1. UNCHANGED <<active_count, lock_free_array_offset, pc, index>>
    BY <1>4, Zenon DEF vars, listVars, localVars
  <2> QED
    BY <2>1, Zenon DEF SingleInv
<1> QED
  BY <1>2, <1>3, <1>4, Zenon DEF Next, Insert
-----------------------------------------------------------------------------
(* Cardinalities, from here on. *)

FS == INSTANCE FiniteSetTheorems

\* The library's cardinality is this module's.
LEMMA SameCardinality ==
  ASSUME NEW S
  PROVE  (FS!IsFiniteSet(S) <=> IsFiniteSet(S)) /\ FS!Cardinality(S) = Cardinality(S)
  BY Zenon DEF IsFiniteSet, FS!IsFiniteSet, Cardinality, FS!Cardinality

LEMMA FiniteSubset ==
  ASSUME NEW S, IsFiniteSet(S), NEW T \in SUBSET S
  PROVE  IsFiniteSet(T) /\ Cardinality(T) <= Cardinality(S)
  BY SameCardinality, FS!FS_Subset

LEMMA CardinalityNat ==
  ASSUME NEW S, IsFiniteSet(S)
  PROVE  Cardinality(S) \in Nat
  BY SameCardinality, FS!FS_CardinalityType, Zenon

LEMMA EmptyCardinality ==
  Cardinality({}) = 0 /\ \A S : IsFiniteSet(S) => (Cardinality(S) = 0 <=> S = {})
  BY SameCardinality, FS!FS_EmptySet, Zenon

LEMMA AddedCardinality ==
  ASSUME NEW S, NEW x, IsFiniteSet(S), x \notin S
  PROVE  Cardinality(S \union {x}) = Cardinality(S) + 1
  BY SameCardinality, FS!FS_AddElement, Zenon

LEMMA RemovedCardinality ==
  ASSUME NEW S, NEW x \in S, IsFiniteSet(S)
  PROVE  Cardinality(S \ {x}) = Cardinality(S) - 1
  BY SameCardinality, FS!FS_RemoveElement, Zenon

\* Sets of threads are finite, and a thread that enters or leaves one counts.
LEMMA Counted ==
  ASSUME NEW S \in SUBSET Thread
  PROVE  /\ IsFiniteSet(S) /\ Cardinality(S) \in Nat /\ Cardinality(Thread) \in Nat
         /\ Cardinality(S) <= Cardinality(Thread)
         /\ \A t \in S : Cardinality(S \ {t}) = Cardinality(S) - 1
         /\ \A t \in Thread \ S : Cardinality(S \union {t}) = Cardinality(S) + 1
<1>1. IsFiniteSet(S) /\ Cardinality(S) <= Cardinality(Thread)
  BY ThreadAssumption, FiniteSubset, Zenon
<1>2. Cardinality(S) \in Nat /\ Cardinality(Thread) \in Nat
  BY <1>1, ThreadAssumption, CardinalityNat, Zenon
<1>3. \A t \in S : Cardinality(S \ {t}) = Cardinality(S) - 1
  BY <1>1, RemovedCardinality, Zenon
<1>4. \A t \in Thread \ S : Cardinality(S \union {t}) = Cardinality(S) + 1
  BY <1>1, AddedCardinality, Zenon
<1> QED
  BY <1>1, <1>2, <1>3, <1>4, Zenon

\* The test lets a thread claim only while slots are left; a claim trades the
\* thread for one more on the counter.
LEMMA OverStep ==
  ASSUME IInv, OverInv, [Next]_vars PROVE OverInv'
<1>1. SharedOK /\ LocalsOK
  BY Types, Zenon DEF IInv
<1>2. ASSUME UNCHANGED next_tuple_slot, \A g \in Id : Claimers(g)' \subseteq Claimers(g)
      PROVE  OverInv'
  <2> SUFFICES ASSUME NEW g \in Id
               PROVE  next_tuple_slot'[g] + Cardinality(Claimers(g)')
                        < num_tuple_slots + Cardinality(Thread)
    BY Zenon DEF OverInv
  <2>1. Claimers(g) \in SUBSET Thread /\ Claimers(g)' \in SUBSET Claimers(g)
    BY <1>2, ZenonT(30) DEF Claimers
  <2>2. Cardinality(Claimers(g)') <= Cardinality(Claimers(g)) /\ IsFiniteSet(Claimers(g)')
    BY <2>1, Counted, FiniteSubset, Zenon
  <2>3. Cardinality(Claimers(g)') \in Nat /\ Cardinality(Claimers(g)) \in Nat
        /\ Cardinality(Thread) \in Nat
    BY <2>1, <2>2, Counted, CardinalityNat, Zenon
  <2>4. next_tuple_slot[g] \in Nat
    BY <1>1, Zenon DEF SharedOK
  <2> QED
    BY <1>2, <2>2, <2>3, <2>4, TableAssumption DEF OverInv
<1>3. ASSUME NEW t \in Thread, TestSlot(t) PROVE OverInv'
  <2> SUFFICES ASSUME NEW g \in Id
               PROVE  next_tuple_slot'[g] + Cardinality(Claimers(g)')
                        < num_tuple_slots + Cardinality(Thread)
    BY ZenonT(30) DEF OverInv
  <2> DEFINE h == active_tile_groups_[active[t]]
  <2>1. /\ next_tuple_slot[h] < num_tuple_slots /\ next_tuple_slot' = next_tuple_slot
        /\ pc[t] = "test" /\ pc' = [pc EXCEPT ![t] = "claim"]
        /\ block' = [block EXCEPT ![t] = h]
    BY <1>3, ZenonT(30) DEF TestSlot, At, Goto, groupVars
  <2>2. next_tuple_slot[g] \in Nat
    BY <1>1, Zenon DEF SharedOK
  <2>3. CASE g = h
    <3>1. Claimers(g)' \in SUBSET Thread
      BY Zenon DEF Claimers
    <3> QED
      BY <2>1, <2>2, <2>3, <3>1, Counted, TableAssumption
  <2>4. CASE g # h
    <3>1. Claimers(g)' = Claimers(g)
      BY <1>1, <2>1, <2>4, Zenon DEF Claimers, LocalsOK
    <3> QED
      BY <2>1, <3>1, ZenonT(30) DEF OverInv
  <2> QED
    BY <2>3, <2>4, ZenonT(30)
<1>4. ASSUME NEW t \in Thread, ClaimSlot(t) PROVE OverInv'
  <2> SUFFICES ASSUME NEW g \in Id
               PROVE  next_tuple_slot'[g] + Cardinality(Claimers(g)')
                        < num_tuple_slots + Cardinality(Thread)
    BY Zenon DEF OverInv
  <2>1. /\ pc[t] = "claim" /\ pc'[t] # "claim" /\ \A u \in Thread : u # t => pc'[u] = pc[u]
        /\ block' = block
        /\ next_tuple_slot' = [next_tuple_slot EXCEPT ![block[t]] = @ + 1]
    BY <1>1, <1>4, ZenonT(30) DEF ClaimSlot, At, Goto, LocalsOK
  <2>2. next_tuple_slot[g] \in Nat /\ block[t] \in Id
    BY <1>1, <2>1, Ids, Zenon DEF SharedOK
  <2>3. CASE g = block[t]
    <3>1. Claimers(g)' = Claimers(g) \ {t} /\ t \in Claimers(g) /\ Claimers(g) \in SUBSET Thread
      BY <2>1, <2>3, ZenonT(30) DEF Claimers
    <3>2. /\ Cardinality(Claimers(g)') = Cardinality(Claimers(g)) - 1
          /\ Cardinality(Claimers(g)) \in Nat
      BY <3>1, Counted, Zenon
    <3>3. next_tuple_slot'[g] = next_tuple_slot[g] + 1
      BY <1>1, <2>1, <2>3, ZenonT(30) DEF SharedOK
    <3> QED
      BY <2>2, <3>2, <3>3 DEF OverInv
  <2>4. CASE g # block[t]
    <3>1. Claimers(g)' = Claimers(g)
      BY <2>1, <2>4, Zenon DEF Claimers
    <3>2. next_tuple_slot'[g] = next_tuple_slot[g]
      BY <1>1, <2>1, <2>4, ZenonT(30) DEF SharedOK
    <3> QED
      BY <3>1, <3>2, ZenonT(30) DEF OverInv
  <2> QED
    BY <2>3, <2>4, Zenon
<1>5. ASSUME NEW t \in Thread, Start(t) \/ InsertInIndexes(t) \/ AddDefaultTileGroup(t)
      PROVE  OverInv'
  <2>1. /\ pc'[t] # "claim" /\ UNCHANGED next_tuple_slot
        /\ \A u \in Thread : u # t => pc'[u] = pc[u] /\ block'[u] = block[u]
    <3>1. CASE AddDefaultTileGroup(t)
      BY <3>1, AddFrame, Zenon
    <3>2. CASE Start(t)
      BY <1>1, <3>2, ZenonT(30) DEF Start, Goto, groupVars, LocalsOK
    <3>3. CASE Continue(t) \/ InsertEntries(t)
      BY <3>3, Leaving, Zenon
    <3>4. CASE TestIndirection(t) \/ ClaimIndirection(t)
      BY <1>1, <3>4, ZenonT(30) DEF TestIndirection, ClaimIndirection, Goto, groupVars, LocalsOK
    <3>5. CASE CreateIndirectionArray(t) \/ ActivateIndirectionArray(t)
      BY <1>1, <3>5, ZenonT(30) DEF CreateIndirectionArray, ActivateIndirectionArray, Goto, groupVars, LocalsOK
    <3> QED
      BY <1>5, <3>1, <3>2, <3>3, <3>4, <3>5, Zenon DEF InsertInIndexes
  <2> QED
    BY <1>2, <2>1, Zenon DEF Claimers
<1>6. CASE UNCHANGED vars
  BY <1>2, <1>6, Zenon DEF vars, groupVars, localVars, Claimers
<1> QED
  BY <1>3, <1>4, <1>5, <1>6, Zenon DEF Next, Insert, GetSlot

\* An id, an index and a count are each given once.
LEMMA CountsStep ==
  ASSUME IInv, CountsInv, [Next]_vars PROVE CountsInv'
<1>1. /\ lock_free_array_offset \in Nat /\ tile_group_count_ \in Nat /\ tile_group_oid_ \in Nat
      /\ Appending \in SUBSET Thread /\ Counting \in SUBSET Thread
  BY DEF IInv, TypeOK, Id, Appending, Counting
<1>2. Cardinality(Appending) \in Nat /\ Cardinality(Counting) \in Nat
  BY <1>1, Counted, Zenon
<1>3. ASSUME NEW t \in Thread, Start(t) \/ GetSlot(t) \/ InsertInIndexes(t) PROVE CountsInv'
  <2>1. Appending' = Appending /\ Counting' = Counting
    BY <1>3, ListFrame, ZenonT(30) DEF Appending, Counting, Listed
  <2>2. UNCHANGED <<tile_group_oid_, lock_free_array_offset, tile_group_count_>>
    BY <1>3, ListFrame, Zenon
  <2> QED
    BY <2>1, <2>2, Zenon DEF CountsInv
<1>4. ASSUME NEW t \in Thread, AddDefaultTileGroup(t) PROVE CountsInv'
  <2>1. \A u \in Thread : u # t => pc'[u] = pc[u]
    BY <1>4, AddFrame, Zenon
  <2>2. CASE CreateTileGroup(t) /\ pc[t] = "create" /\ pc'[t] = "append"
    <3>1. Appending' = Appending \union {t} /\ t \in Thread \ Appending /\ Counting' = Counting
      BY <2>1, <2>2, ZenonT(30) DEF Appending, Counting, Listed
    <3>2. Cardinality(Appending') = Cardinality(Appending) + 1
      BY <1>1, <3>1, Counted, Zenon
    <3>3. /\ tile_group_oid_' = tile_group_oid_ + 1
          /\ UNCHANGED <<lock_free_array_offset, tile_group_count_>>
      BY <2>2, Zenon DEF CreateTileGroup, listVars
    <3> QED
      BY <1>1, <1>2, <3>1, <3>2, <3>3 DEF CountsInv
  <2>3. CASE AppendOffset(t) /\ pc[t] = "append" /\ pc'[t] = "store"
    <3>1. /\ Appending' = Appending \ {t} /\ t \in Appending
          /\ Counting' = Counting \union {t} /\ t \in Thread \ Counting
      BY <2>1, <2>3, ZenonT(30) DEF Appending, Counting, Listed
    <3>2. /\ Cardinality(Appending') = Cardinality(Appending) - 1
          /\ Cardinality(Counting') = Cardinality(Counting) + 1
      BY <1>1, <3>1, Counted, ZenonT(30)
    <3>3. /\ lock_free_array_offset' = lock_free_array_offset + 1
          /\ UNCHANGED <<tile_group_oid_, tile_group_count_>>
      BY <2>3, ZenonT(30) DEF AppendOffset, groupVars
    <3> QED
      BY <1>1, <1>2, <3>2, <3>3 DEF CountsInv
  <2>4. CASE \/ AppendStore(t) /\ pc[t] = "store" /\ pc'[t] = "locate"
             \/ AddTileGroup(t) /\ pc[t] = "locate" /\ pc'[t] = "activate"
             \/ ActivateTileGroup(t) /\ pc[t] = "activate" /\ pc'[t] = "count"
    <3>1. Appending' = Appending /\ Counting' = Counting
      BY <2>1, <2>4, ZenonT(30) DEF Appending, Counting, Listed
    <3>2. UNCHANGED <<tile_group_oid_, lock_free_array_offset, tile_group_count_>>
      BY <2>4, Zenon DEF AppendStore, AddTileGroup, ActivateTileGroup, groupVars, listVars
    <3> QED
      BY <3>1, <3>2, Zenon DEF CountsInv
  <2>5. CASE CountTileGroup(t) /\ pc[t] = "count" /\ pc'[t] = "got"
    <3>1. Appending' = Appending /\ Counting' = Counting \ {t} /\ t \in Counting
      BY <2>1, <2>5, ZenonT(30) DEF Appending, Counting, Listed
    <3>2. Cardinality(Counting') = Cardinality(Counting) - 1
      BY <1>1, <3>1, Counted, Zenon
    <3>3. /\ tile_group_count_' = tile_group_count_ + 1
          /\ UNCHANGED <<tile_group_oid_, lock_free_array_offset>>
      BY <2>5, Zenon DEF CountTileGroup, groupVars
    <3> QED
      BY <1>1, <1>2, <3>1, <3>2, <3>3 DEF CountsInv
  <2> QED
    BY <1>4, <2>2, <2>3, <2>4, <2>5, AddFrame, Zenon
<1>5. CASE UNCHANGED vars
  BY <1>5, ZenonT(30) DEF vars, groupVars, listVars, localVars, CountsInv, Appending, Counting
<1> QED
  BY <1>3, <1>4, <1>5, Zenon DEF Next, Insert
-----------------------------------------------------------------------------
(* The list *)

\* An index that is given out lies in the array.
LEMMA OffsetInList ==
  ASSUME IInv, CountsInv
  PROVE  /\ lock_free_array_offset \in Nat /\ tile_group_oid_ \in Nat /\ tile_group_count_ \in Nat
         /\ tile_group_oid_ <= MaxId /\ lock_free_array_offset <= tile_group_oid_
         /\ \A t \in Thread : pc[t] = "append" => lock_free_array_offset < tile_group_oid_
         /\ \A t \in Thread : pc[t] \in Listed => tile_group_count_ < lock_free_array_offset
         /\ tile_group_count_ <= lock_free_array_offset
<1>1. /\ lock_free_array_offset \in Nat /\ tile_group_count_ \in Nat /\ tile_group_oid_ \in Nat
      /\ Appending \in SUBSET Thread /\ Counting \in SUBSET Thread /\ tile_group_oid_ <= MaxId
  BY TableAssumption DEF IInv, TypeOK, Id, Appending, Counting
<1>2. /\ Cardinality(Appending) \in Nat /\ Cardinality(Counting) \in Nat
      /\ IsFiniteSet(Appending) /\ IsFiniteSet(Counting)
  BY <1>1, Counted, Zenon
<1>3. /\ Appending # {} => Cardinality(Appending) # 0
      /\ Counting # {} => Cardinality(Counting) # 0
  BY <1>2, EmptyCardinality, Zenon
<1>4. ASSUME NEW t \in Thread, pc[t] = "append" PROVE lock_free_array_offset < tile_group_oid_
  <2>1. Appending # {}
    BY <1>4, Zenon DEF Appending
  <2>2. Cardinality(Appending) > 0
    BY <1>2, <1>3, <2>1
  <2> QED
    BY <1>1, <1>2, <2>2 DEF CountsInv
<1>5. ASSUME NEW t \in Thread, pc[t] \in Listed PROVE tile_group_count_ < lock_free_array_offset
  <2>1. Counting # {}
    BY <1>5, Zenon DEF Counting
  <2>2. Cardinality(Counting) > 0
    BY <1>2, <1>3, <2>1
  <2> QED
    BY <1>1, <1>2, <2>2 DEF CountsInv
<1>6. /\ lock_free_array_offset <= tile_group_oid_
      /\ tile_group_count_ <= lock_free_array_offset
  BY <1>1, <1>2 DEF CountsInv
<1> QED
  BY <1>1, <1>4, <1>5, <1>6, ZenonT(30)

\* A thread that stores finds its place empty, and is alone there.
LEMMA IndexStep ==
  ASSUME IInv, CountsInv, IndexInv, [Next]_vars PROVE IndexInv'
<1>1. /\ tile_groups_ \in [0 .. MaxId - 1 -> 0 .. MaxId] /\ index \in [Thread -> Nat]
      /\ new \in [Thread -> 0 .. MaxId] /\ MaxId \in Nat
  BY TableAssumption, ZenonT(30) DEF IInv, TypeOK
<1>2. /\ lock_free_array_offset \in Nat /\ lock_free_array_offset <= MaxId
      /\ \A t \in Thread : pc[t] = "append" => lock_free_array_offset < MaxId
  BY <1>1, OffsetInList
<1>3. ASSUME NEW t \in Thread, Start(t) \/ GetSlot(t) \/ InsertInIndexes(t) PROVE IndexInv'
  <2>1. \A u \in Thread : pc'[u] \in {"store", "locate"} =>
          pc'[u] = pc[u] /\ new'[u] = new[u] /\ index'[u] = index[u]
    BY <1>3, ListFrame, ZenonT(30) DEF Listed
  <2>2. UNCHANGED <<lock_free_array_offset, tile_groups_>>
    BY <1>3, ListFrame, Zenon
  <2> QED
    BY <2>1, <2>2, IndexKept, ZenonT(30)
<1>4. ASSUME NEW t \in Thread, AddDefaultTileGroup(t) PROVE IndexInv'
  <2>1. \A u \in Thread : u # t => pc'[u] = pc[u] /\ new'[u] = new[u] /\ index'[u] = index[u]
    BY <1>4, AddFrame, Zenon
  <2>2. CASE \/ CreateTileGroup(t) /\ pc[t] = "create" /\ pc'[t] = "append"
             \/ AddTileGroup(t) /\ pc[t] = "locate" /\ pc'[t] = "activate"
             \/ ActivateTileGroup(t) /\ pc[t] = "activate" /\ pc'[t] = "count"
             \/ CountTileGroup(t) /\ pc[t] = "count" /\ pc'[t] = "got"
    <3>1. UNCHANGED <<lock_free_array_offset, tile_groups_>>
      BY <2>2, Zenon DEF CreateTileGroup, AddTileGroup, ActivateTileGroup, CountTileGroup, listVars
    <3>2. \A u \in Thread : pc'[u] \in {"store", "locate"} =>
            pc'[u] = pc[u] /\ new'[u] = new[u] /\ index'[u] = index[u]
      BY <2>1, <2>2, Zenon
    <3> QED
      BY <3>1, <3>2, IndexKept, Zenon
  <2>3. CASE AppendOffset(t) /\ pc[t] = "append" /\ pc'[t] = "store"
    <3>1. /\ lock_free_array_offset' = lock_free_array_offset + 1
          /\ tile_groups_' = tile_groups_ /\ index'[t] = lock_free_array_offset
      BY <1>1, <2>3, ZenonT(30) DEF AppendOffset
    <3>2. tile_groups_[lock_free_array_offset] = 0 /\ lock_free_array_offset \in 0 .. MaxId - 1
      <4>1. lock_free_array_offset \in 0 .. MaxId - 1
        BY ONLY <1>1, <1>2, <2>3
      <4> QED
        BY <1>2, <4>1 DEF IndexInv
    <3>3. \A i \in 0 .. MaxId - 1 : i >= lock_free_array_offset' => tile_groups_'[i] = 0
      BY <1>1, <1>2, <3>1 DEF IndexInv
    <3>4. \A u \in Thread : pc'[u] = "store" =>
            index'[u] < lock_free_array_offset' /\ tile_groups_'[index'[u]] = 0
      <4>1. \A u \in Thread : u # t /\ pc'[u] = "store" =>
              /\ index'[u] = index[u] /\ index[u] \in Nat
              /\ index[u] < lock_free_array_offset /\ tile_groups_[index[u]] = 0
        BY <1>1, <2>1 DEF IndexInv
      <4> QED
        BY <1>2, <3>1, <3>2, <4>1
    <3>5. \A u \in Thread : pc'[u] = "locate" =>
            index'[u] < lock_free_array_offset' /\ tile_groups_'[index'[u]] = new'[u]
      BY <1>1, <1>2, <2>1, <2>3, <3>1 DEF IndexInv
    <3>6. \A u, v \in Thread :
            pc'[u] = "store" /\ pc'[v] = "store" /\ index'[u] = index'[v] => u = v
      <4>1. \A u \in Thread : u # t /\ pc'[u] = "store" =>
              pc[u] = "store" /\ index'[u] = index[u] /\ index'[u] # index'[t]
        BY <1>1, <1>2, <2>1, <3>1 DEF IndexInv
      <4> QED
        BY <4>1 DEF IndexInv
    <3> QED
      BY <3>3, <3>4, <3>5, <3>6, Zenon DEF IndexInv
  <2>4. CASE AppendStore(t) /\ pc[t] = "store" /\ pc'[t] = "locate"
    <3>1. /\ tile_groups_' = [tile_groups_ EXCEPT ![index[t]] = new[t]]
          /\ UNCHANGED <<lock_free_array_offset, new, index>>
      BY <2>4, Zenon DEF AppendStore
    <3>2. index[t] \in 0 .. MaxId - 1 /\ index[t] < lock_free_array_offset
      <4>1. index[t] \in Nat /\ index[t] < lock_free_array_offset
        BY <1>1, <2>4, Zenon DEF IndexInv
      <4> QED
        BY ONLY <1>1, <1>2, <4>1, TableAssumption
    <3>3. \A i \in 0 .. MaxId - 1 : i >= lock_free_array_offset' => tile_groups_'[i] = 0
      BY <1>1, <1>2, <3>1, <3>2 DEF IndexInv
    <3>4. \A u \in Thread : pc'[u] = "store" =>
            index'[u] < lock_free_array_offset' /\ tile_groups_'[index'[u]] = 0
      <4>1. \A u \in Thread : pc'[u] = "store" =>
              /\ u # t /\ index'[u] = index[u] /\ index[u] # index[t]
              /\ index[u] < lock_free_array_offset /\ tile_groups_[index[u]] = 0
        BY <2>1, <2>4, Zenon DEF IndexInv
      <4> QED
        BY <1>1, <1>2, <3>1, <3>2, <4>1
    <3>5. \A u \in Thread : pc'[u] = "locate" =>
            index'[u] < lock_free_array_offset' /\ tile_groups_'[index'[u]] = new'[u]
      <4> SUFFICES ASSUME NEW u \in Thread, pc'[u] = "locate"
                   PROVE  index[u] < lock_free_array_offset /\ tile_groups_'[index[u]] = new[u]
        BY <3>1, ZenonT(30)
      <4>1. CASE u = t
        BY <1>1, <3>1, <3>2, <4>1, Zenon
      <4>2. CASE u # t
        <5>1. pc[u] = "locate" /\ index[u] < lock_free_array_offset
              /\ tile_groups_[index[u]] = new[u]
          BY <2>1, <4>2, ZenonT(30) DEF IndexInv
        <5>2. new[u] # 0
          BY <5>1 DEF IInv, TableInv, NewInv, Pending
        <5>3. index[u] # index[t]
          BY <2>4, <5>1, <5>2, ZenonT(30) DEF IndexInv
        <5> QED
          BY <1>1, <1>2, <3>1, <3>2, <5>1, <5>3
      <4> QED
        BY <4>1, <4>2, ZenonT(30)
    <3>6. \A u, v \in Thread :
            pc'[u] = "store" /\ pc'[v] = "store" /\ index'[u] = index'[v] => u = v
      BY <2>1, <2>4, <3>1, Zenon DEF IndexInv
    <3> QED
      BY <3>3, <3>4, <3>5, <3>6, ZenonT(30) DEF IndexInv
  <2> QED
    BY <1>4, <2>2, <2>3, <2>4, AddFrame, Zenon
<1>5. CASE UNCHANGED vars
  BY <1>5, IndexKept, Zenon DEF vars, listVars, localVars
<1> QED
  BY <1>3, <1>4, <1>5, Zenon DEF Next, Insert

\* From the index to the catalog, the tile group is in a thread's hands.
LEMMA ListStep ==
  ASSUME IInv, CountsInv, IndexInv, ListInv, [Next]_vars PROVE ListInv'
<1>1. /\ tile_groups_ \in [0 .. MaxId - 1 -> 0 .. MaxId] /\ index \in [Thread -> Nat]
      /\ new \in [Thread -> 0 .. MaxId] /\ MaxId \in Nat
      /\ lock_free_array_offset \in Nat /\ tile_group_oid_ \in Nat
      /\ lock_free_array_offset <= MaxId
  <2>1. /\ tile_groups_ \in [0 .. MaxId - 1 -> 0 .. MaxId] /\ index \in [Thread -> Nat]
        /\ new \in [Thread -> 0 .. MaxId] /\ MaxId \in Nat
    BY TableAssumption, ZenonT(30) DEF IInv, TypeOK
  <2> QED
    BY <2>1, OffsetInList
<1>2. ASSUME NEW t \in Thread, Start(t) \/ GetSlot(t) \/ InsertInIndexes(t) PROVE ListInv'
  <2>1. /\ \A u \in Thread : pc[u] \in {"append", "store", "locate"} =>
             pc'[u] = pc[u] /\ new'[u] = new[u] /\ index'[u] = index[u]
        /\ UNCHANGED <<tile_group_oid_, lock_free_array_offset, tile_groups_, tile_group_locator_>>
    BY <1>2, ListFrame, Zenon DEF Listed
  <2> QED
    BY <2>1, ListKept, ZenonT(30)
<1>3. ASSUME NEW t \in Thread, AddDefaultTileGroup(t) PROVE ListInv'
  <2>1. \A u \in Thread : u # t => pc'[u] = pc[u] /\ new'[u] = new[u] /\ index'[u] = index[u]
    BY <1>3, AddFrame, Zenon
  <2>2. CASE CreateTileGroup(t) /\ pc[t] = "create" /\ pc'[t] = "append"
    <3>1. /\ tile_group_oid_' = tile_group_oid_ + 1 /\ new'[t] = tile_group_oid_'
          /\ UNCHANGED <<lock_free_array_offset, tile_groups_, tile_group_locator_>>
      BY <1>1, <2>2, Zenon DEF CreateTileGroup, listVars
    <3>2. \A u \in Thread : pc[u] \in {"append", "store", "locate"} =>
            pc'[u] = pc[u] /\ new'[u] = new[u] /\ index'[u] = index[u]
      BY <2>1, <2>2, Zenon
    <3>3. \A g \in 1 .. tile_group_oid_' : g \in 1 .. tile_group_oid_ \/ g = new'[t]
      BY <1>1, <3>1
    <3>4. IndexLocated'
      BY <3>1, <3>2 DEF ListInv, IndexLocated
    <3>5. GroupStored'
      BY <2>2, <3>1, <3>2, <3>3 DEF ListInv, GroupStored
    <3>6. GroupLocated'
      BY <2>2, <3>1, <3>2, <3>3 DEF ListInv, GroupLocated
    <3> QED
      BY <3>4, <3>5, <3>6, Zenon DEF ListInv
  <2>3. CASE AppendOffset(t) /\ pc[t] = "append" /\ pc'[t] = "store"
    <3>1. /\ lock_free_array_offset' = lock_free_array_offset + 1
          /\ UNCHANGED <<tile_group_oid_, tile_groups_, tile_group_locator_>>
          /\ index'[t] = lock_free_array_offset /\ new' = new
      BY <1>1, <2>3, Zenon DEF AppendOffset, groupVars
    <3>2. \A u \in Thread : pc[u] \in {"store", "locate"} =>
            pc'[u] = pc[u] /\ index'[u] = index[u]
      BY <2>1, <2>3, ZenonT(30)
    <3>3. \A u \in Thread : /\ pc[u] \in {"append", "store"} => pc'[u] \in {"append", "store"}
                            /\ pc[u] = "locate" => pc'[u] = "locate"
      BY <2>1, <2>3, ZenonT(30)
    <3>4. /\ \A i \in 0 .. lock_free_array_offset' - 1 :
               i \in 0 .. lock_free_array_offset - 1 \/ i = index'[t]
          /\ 0 .. lock_free_array_offset - 1 \subseteq 0 .. lock_free_array_offset' - 1
      BY <1>1, <3>1
    <3>5. \A i \in 0 .. lock_free_array_offset' - 1 :
            \/ tile_groups_'[i] \in tile_group_locator_'
            \/ \E u \in Thread : pc'[u] \in {"store", "locate"} /\ index'[u] = i
      BY <2>3, <3>1, <3>2, <3>4 DEF ListInv, IndexLocated
    <3>6. \A g \in 1 .. tile_group_oid_' :
            \/ \E i \in 0 .. lock_free_array_offset' - 1 : tile_groups_'[i] = g
            \/ \E u \in Thread : pc'[u] \in {"append", "store"} /\ new'[u] = g
      BY <3>1, <3>3, <3>4, ZenonT(30) DEF ListInv, GroupStored
    <3>7. \A g \in 1 .. tile_group_oid_' :
            \/ g \in tile_group_locator_'
            \/ \E u \in Thread : pc'[u] \in {"append", "store", "locate"} /\ new'[u] = g
      BY <3>1, <3>3, ZenonT(30) DEF ListInv, GroupLocated
    <3> QED
      BY <3>5, <3>6, <3>7, ZenonT(30) DEF ListInv, IndexLocated, GroupStored, GroupLocated
  <2>4. CASE AppendStore(t) /\ pc[t] = "store" /\ pc'[t] = "locate"
    <3>1. /\ tile_groups_' = [tile_groups_ EXCEPT ![index[t]] = new[t]]
          /\ UNCHANGED <<lock_free_array_offset, tile_group_oid_, tile_group_locator_, new, index>>
      BY <2>4, ZenonT(30) DEF AppendStore, groupVars
    <3>2. /\ index[t] \in 0 .. MaxId - 1 /\ index[t] \in 0 .. lock_free_array_offset - 1
          /\ tile_groups_[index[t]] = 0
      BY <1>1, <2>4 DEF IndexInv
    <3>3. \A i \in 0 .. lock_free_array_offset - 1 : i # index[t] =>
            tile_groups_'[i] = tile_groups_[i]
      BY <1>1, <3>1
    <3>4. tile_groups_'[index[t]] = new[t]
      BY <1>1, <3>1, <3>2, Zenon
    <3>5. \A i \in 0 .. lock_free_array_offset' - 1 :
            \/ tile_groups_'[i] \in tile_group_locator_'
            \/ \E u \in Thread : pc'[u] \in {"store", "locate"} /\ index'[u] = i
      BY <2>1, <2>4, <3>1, <3>3 DEF ListInv, IndexLocated
    <3>6. \A g \in 1 .. tile_group_oid_' :
            \/ \E i \in 0 .. lock_free_array_offset' - 1 : tile_groups_'[i] = g
            \/ \E u \in Thread : pc'[u] \in {"append", "store"} /\ new'[u] = g
      <4> SUFFICES ASSUME NEW g \in 1 .. tile_group_oid_
                   PROVE  \/ \E i \in 0 .. lock_free_array_offset - 1 : tile_groups_'[i] = g
                          \/ \E u \in Thread : pc'[u] \in {"append", "store"} /\ new[u] = g
        BY <3>1, Zenon
      <4>1. CASE \E i \in 0 .. lock_free_array_offset - 1 : tile_groups_[i] = g
        <5>1. PICK i \in 0 .. lock_free_array_offset - 1 : tile_groups_[i] = g
          BY <4>1, Zenon
        <5>2. i # index[t]
          BY <3>2, <5>1
        <5> QED
          BY <3>3, <5>1, <5>2, ZenonT(30)
      <4>2. CASE \E u \in Thread : pc[u] \in {"append", "store"} /\ new[u] = g
        BY <2>1, <3>2, <3>4, <4>2, ZenonT(30)
      <4> QED
        BY <4>1, <4>2, ZenonT(30) DEF ListInv, GroupStored
    <3>7. \A g \in 1 .. tile_group_oid_' :
            \/ g \in tile_group_locator_'
            \/ \E u \in Thread : pc'[u] \in {"append", "store", "locate"} /\ new'[u] = g
      BY <2>1, <2>4, <3>1, ZenonT(30) DEF ListInv, GroupLocated
    <3> QED
      BY <3>5, <3>6, <3>7, Zenon DEF ListInv, IndexLocated, GroupStored, GroupLocated
  <2>5. CASE AddTileGroup(t) /\ pc[t] = "locate" /\ pc'[t] = "activate"
    <3>1. /\ tile_group_locator_' = tile_group_locator_ \union {new[t]}
          /\ UNCHANGED <<lock_free_array_offset, tile_group_oid_, tile_groups_, new, index>>
      BY <2>5, Zenon DEF AddTileGroup, groupVars
    <3>2. tile_groups_[index[t]] = new[t]
      BY <2>5, Zenon DEF IndexInv
    <3>3. IndexLocated'
      BY <2>1, <3>1, <3>2, Zenon DEF ListInv, IndexLocated
    <3>4. GroupStored'
      BY <2>1, <2>5, <3>1, Zenon DEF ListInv, GroupStored
    <3>5. GroupLocated'
      BY <2>1, <3>1, Zenon DEF ListInv, GroupLocated
    <3> QED
      BY <3>3, <3>4, <3>5, Zenon DEF ListInv
  <2>6. CASE \/ ActivateTileGroup(t) /\ pc[t] = "activate" /\ pc'[t] = "count"
             \/ CountTileGroup(t) /\ pc[t] = "count" /\ pc'[t] = "got"
    <3>1. UNCHANGED <<lock_free_array_offset, tile_group_oid_, tile_groups_, tile_group_locator_>>
      BY <2>6, ZenonT(30) DEF ActivateTileGroup, CountTileGroup, listVars, groupVars
    <3>2. \A u \in Thread : pc[u] \in {"append", "store", "locate"} =>
            pc'[u] = pc[u] /\ new'[u] = new[u] /\ index'[u] = index[u]
      BY <2>1, <2>6, Zenon
    <3> QED
      BY <3>1, <3>2, ListKept, ZenonT(30)
  <2> QED
    BY <1>3, <2>2, <2>3, <2>4, <2>5, <2>6, AddFrame, Zenon
<1>4. CASE UNCHANGED vars
  BY <1>4, ListKept, ZenonT(30) DEF vars, listVars, groupVars, localVars
<1> QED
  BY <1>2, <1>3, <1>4, Zenon DEF Next, Insert

-----------------------------------------------------------------------------
LEMMA ListInit == Init => LInv
<1> SUFFICES ASSUME Init PROVE LInv
  BY Zenon
<1>0. active_count \in Nat \ {0} /\ active_count <= MaxId
  BY TableAssumption, ZenonT(30) DEF Init
<1>1. Appending = {} /\ Counting = {} /\ \A g \in Id : Claimers(g) = {}
  BY ZenonT(30) DEF Init, Appending, Counting, Claimers, Listed
<1>2. Cardinality({}) = 0 /\ Cardinality(Thread) \in Nat
  BY EmptyCardinality, ThreadAssumption, CardinalityNat, ZenonT(30)
<1>3. OverInv
  <2>1. \A g \in Id : next_tuple_slot[g] = 0
    BY ZenonT(30) DEF Init
  <2> QED
    BY <1>1, <1>2, <2>1, TableAssumption DEF OverInv
<1>4. CountsInv
  BY <1>0, <1>1, <1>2 DEF Init, CountsInv
<1>5. IndexInv /\ SingleInv
  BY <1>0 DEF Init, IndexInv, SingleInv
<1>6. ListInv
  <2>1. \A i \in 0 .. active_count - 1 : tile_groups_[i] = i + 1 /\ i + 1 \in 1 .. active_count
    BY <1>0, TableAssumption DEF Init
  <2>2. \A g \in 1 .. active_count : g - 1 \in 0 .. active_count - 1 /\ (g - 1) + 1 = g
    BY <1>0
  <2>3. \A g \in 1 .. active_count : \E i \in 0 .. active_count - 1 : tile_groups_[i] = g
    BY <2>1, <2>2, Zenon
  <2> QED
    BY <2>1, <2>3 DEF Init, ListInv, IndexLocated, GroupStored, GroupLocated
<1> QED
  BY <1>3, <1>4, <1>5, <1>6, Zenon DEF LInv

\* The invariant of the lists, on top of TableInvariant.
LEMMA ListInvariant == Spec => [](IInv /\ LInv)
<1>1. IInv /\ LInv /\ [Next]_vars => LInv'
  BY OverStep, CountsStep, IndexStep, ListStep, SingleStep, Zenon DEF LInv
<1> QED
  BY <1>1, ListInit, TableInvariant, PTL DEF Spec

\* GetNextEmptyTupleSlot adds before it looks: past the last slot the counter
\* grows by less than one for each thread, so a 32-bit next_tuple_slot does not
\* come round to slots that are in use.
THEOREM OvershootIsBounded == Spec => []OvershootBounded
<1>1. IInv /\ LInv => OvershootBounded
  <2> SUFFICES ASSUME IInv, LInv, NEW g \in Id
               PROVE  next_tuple_slot[g] < num_tuple_slots + Cardinality(Thread)
    BY Zenon DEF OvershootBounded
  <2>1. Claimers(g) \in SUBSET Thread /\ next_tuple_slot[g] \in Nat
    BY ZenonT(30) DEF Claimers, IInv, TypeOK
  <2>2. Cardinality(Claimers(g)) \in Nat /\ Cardinality(Thread) \in Nat
    BY <2>1, Counted, Zenon
  <2> QED
    BY <2>1, <2>2, TableAssumption DEF LInv, OverInv
<1> QED
  BY <1>1, ListInvariant, PTL

\* Whatever threads raced in AddDefaultTileGroup, once no insert is under way
\* the table's list, the catalog and tile_group_count_ agree.
THEOREM ListsAgree == Spec => []GroupsListed
<1>1. IInv /\ LInv => GroupsListed
  <2> SUFFICES ASSUME IInv, LInv, \A t \in Thread : pc[t] = "idle"
               PROVE  /\ tile_group_count_ = lock_free_array_offset
                      /\ {tile_groups_[i] : i \in 0 .. tile_group_count_ - 1} = tile_group_locator_
                      /\ tile_group_locator_ = 1 .. tile_group_oid_
                      /\ tile_group_count_ = tile_group_oid_
    BY ZenonT(30) DEF GroupsListed, At
  <2>1. Appending = {} /\ Counting = {}
    BY Zenon DEF Appending, Counting, Listed
  <2>2. lock_free_array_offset \in Nat /\ tile_group_count_ \in Nat /\ tile_group_oid_ \in Nat
    BY OffsetInList, Zenon DEF LInv
  <2>3. tile_group_count_ = lock_free_array_offset /\ lock_free_array_offset = tile_group_oid_
    BY <2>1, <2>2, EmptyCardinality DEF LInv, CountsInv
  <2>4. tile_group_locator_ = 1 .. tile_group_oid_
    BY Zenon DEF LInv, ListInv, GroupLocated, IInv, TableInv, GroupInv
  <2>5. \A i \in 0 .. lock_free_array_offset - 1 : tile_groups_[i] \in tile_group_locator_
    BY ZenonT(30) DEF LInv, ListInv, IndexLocated
  <2>6. \A g \in 1 .. tile_group_oid_ :
          \E i \in 0 .. lock_free_array_offset - 1 : tile_groups_[i] = g
    BY Zenon DEF LInv, ListInv, GroupStored
  <2> QED
    BY <2>3, <2>4, <2>5, <2>6, ZenonT(30)
<1> QED
  BY <1>1, ListInvariant, PTL

\* With one active tile group, as in the catalog's tables, GetTileGroup finds a
\* tile group at every offset below tile_group_count_, whatever number of
\* inserters is between the append and the count.
THEOREM GroupsFound == Spec => []GroupFoundSingle
<1>1. IInv /\ LInv => GroupFoundSingle
  <2> SUFFICES ASSUME IInv, LInv, active_count = 1, NEW i \in 0 .. tile_group_count_ - 1
               PROVE  FindValid(i) \in tile_group_locator_
    BY Zenon DEF GroupFoundSingle, GroupFound
  <2>1. /\ lock_free_array_offset \in Nat /\ tile_group_count_ \in Nat
        /\ tile_group_count_ <= lock_free_array_offset
        /\ \A t \in Thread : pc[t] \in {"store", "locate"} =>
             tile_group_count_ < lock_free_array_offset
    BY OffsetInList, Zenon DEF LInv, Listed
  <2>2. \A t \in Thread : pc[t] \in {"store", "locate"} => index[t] # i
    BY <2>1 DEF LInv, SingleInv
  <2>3. i \in 0 .. lock_free_array_offset - 1 /\ i < lock_free_array_offset
    BY <2>1
  <2> QED
    BY <2>2, <2>3, ZenonT(30) DEF LInv, ListInv, IndexLocated, FindValid
<1> QED
  BY <1>1, ListInvariant, PTL
=============================================================================
