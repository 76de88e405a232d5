-------------------------- MODULE TimestampOrdering --------------------------
(***************************************************************************)
(* The multi-version timestamp-ordering transaction manager, with the scan *)
(* and write executors that drive it, on the versions of ONE key.          *)
(*                                                                         *)
(* A version is a slot of a tile group; its header fields are read and     *)
(* written one by one while other transactions run, so each load or store  *)
(* another thread can observe is a step of its own.  The body of           *)
(* SetLastReaderCommitId and AcquireOwnership is one step: both hold the   *)
(* spinlock of the tuple.  A transaction is named by its commit id, which  *)
(* the epoch manager makes unique; transactions may begin in any order of  *)
(* their ids.                                                              *)
(***************************************************************************)
EXTENDS Integers, FiniteSets

CONSTANTS Txn,          \* transactions, as their commit ids
          IsolationOf,  \* the isolation level of each
          StatementsOf, \* the statements each may run
          Scans,        \* access paths of the plans: "index", "seq" or both
          HasIndex,     \* whether the table has a primary index
          Loaded,       \* whether the key is stored in the first slot at first
          MaxStatement, \* bound: statements of one transaction
          MaxSlot,      \* bound: tuple slots of the table
          MAX_CID       \* the end of a version nobody has superseded

IsolationLevelType ==
  {"SERIALIZABLE", "SNAPSHOT", "REPEATABLE_READS", "READ_COMMITTED", "READ_ONLY"}
Statement ==
  {"select", "select_for_update", "update", "update_key", "delete", "insert"}

INVALID_TXN_ID == 0
INITIAL_TXN_ID == 1
INVALID_CID == 0
NULL == 0             \* INVALID_ITEMPOINTER

\* The commit id of the load that put the first version in place.
LoadCid == 2

ASSUME CidAssumption ==
  /\ MAX_CID \in Nat /\ LoadCid < MAX_CID
  /\ Txn \subseteq (LoadCid + 1) .. (MAX_CID - 1)
  /\ IsolationOf \in [Txn -> IsolationLevelType]
  /\ StatementsOf \in [Txn -> SUBSET Statement]
  /\ HasIndex \in BOOLEAN /\ Loaded \in BOOLEAN
  /\ Scans \subseteq IF HasIndex THEN {"index", "seq"} ELSE {"seq"}
ASSUME SizeAssumption == MaxSlot \in Nat \ {0} /\ MaxStatement \in Nat

Slot == 1 .. MaxSlot

\* A reader or the owner of a slot: RWType of transaction.h, plus absence.
RWType == {"NONE", "READ", "READ_OWN", "UPDATE", "DELETE", "INSERT", "INS_DEL"}

VARIABLES
  header,    \* TileGroupHeader: the MVCC fields of each slot
  next_slot, \* the first slot never handed out
  index,     \* entries of the primary index under the key, named by the slot
             \* whose insertion created them
  head,      \* the ItemPointer each entry points at (the indirection)
  pc,        \* where a transaction is
  exec,      \* the executor state of its current statement
  read_id,   \* Transaction::read_id_
  result,    \* Transaction::result_
  rw_set,    \* Transaction::rw_set_
  gc_set,    \* Transaction::gc_set_
  returned,  \* history: versions of others the scans of a transaction
             \* returned
  absent     \* history: entries a scan found no version under

txnVars == <<read_id, result, rw_set, gc_set>>
vars == <<header, next_slot, index, head, pc, exec, read_id, result, rw_set,
          gc_set, returned, absent>>

EmptyHeader ==
  [txn |-> INVALID_TXN_ID, begin |-> MAX_CID, end |-> MAX_CID, prev |-> NULL,
   next |-> NULL, reader |-> 0, entry |-> NULL]

NoExec ==
  [stmt |-> "select", scan |-> "index", cur |-> NULL, todo |-> {}, rows |-> {},
   hops |-> 1, txn |-> 0, cid |-> 0, mine |-> FALSE, count |-> 0]

Locations ==
  {"idle", "ready", "next", "vis_txn", "vis_begin", "vis_end", "wire_txn",
   "wire_end", "follow", "read", "read_own", "rows", "own", "write", "insert",
   "commit", "c_end", "c_old", "c_new", "c_release", "c_insert", "abort",
   "a_unlink", "a_release", "ended"}

Init ==
  /\ header = [s \in Slot |->
       IF s = 1 /\ Loaded
       THEN [EmptyHeader EXCEPT !.txn = INITIAL_TXN_ID,
                                !.begin = LoadCid,
                                !.entry = IF HasIndex THEN 1 ELSE NULL]
       ELSE EmptyHeader]
  /\ next_slot = 2
  /\ index = IF HasIndex /\ Loaded THEN {1} ELSE {}
  /\ head = [s \in Slot |-> IF s \in index THEN s ELSE NULL]
  /\ pc = [x \in Txn |-> "idle"]
  /\ exec = [x \in Txn |-> NoExec]
  /\ read_id = [x \in Txn |-> 0]
  /\ result = [x \in Txn |-> "SUCCESS"]
  /\ rw_set = [x \in Txn |-> [s \in Slot |-> "NONE"]]
  /\ gc_set = [x \in Txn |-> {}]
  /\ returned = [x \in Txn |-> {}]
  /\ absent = [x \in Txn |-> {}]

-----------------------------------------------------------------------------
(* Helpers: control, the read/write set and visibility.                    *)

storeVars == <<header, next_slot, index, head>>
historyVars == <<returned, absent>>

Goto(x, location) == pc' = [pc EXCEPT ![x] = location]

SetResult(x, r) == result' = [result EXCEPT ![x] = r]

\* An executor gives up: SetTransactionResult(FAILURE) and return false.
Fail(x) == SetResult(x, "FAILURE") /\ Goto(x, "ready")

RecordRead(type) == IF type = "NONE" THEN "READ" ELSE type

RecordReadOwn(type) == IF type \in {"NONE", "READ"} THEN "READ_OWN" ELSE type

RecordUpdate(type) ==
  IF type \in {"NONE", "READ", "READ_OWN"} THEN "UPDATE" ELSE type

RecordInsert(type) == IF type = "NONE" THEN "INSERT" ELSE type

RecordDelete(type) ==
  CASE type = "INSERT" -> "INS_DEL"
    [] type \in {"NONE", "READ", "READ_OWN", "UPDATE"} -> "DELETE"
    [] OTHER -> type

Record(x, s, Recorded(_)) == rw_set' = [rw_set EXCEPT ![x][s] = Recorded(@)]

\* IsVisible on the three header fields as they were loaded.  No begin_cid is
\* in the dirty range, which stays empty: nothing calls SetDirtyRange.
IsVisible(x, id, s, txn, begin, end) ==
  LET live == id >= begin /\ ~ (id >= end)
  IN  CASE txn = INVALID_TXN_ID -> IF live THEN "DELETED" ELSE "INVISIBLE"
        [] txn = x ->
             IF \/ begin = MAX_CID /\ end # INVALID_CID
                \/ rw_set[x][s] = "READ_OWN"
             THEN "OK"
             ELSE IF end = INVALID_CID THEN "DELETED" ELSE "INVISIBLE"
        [] OTHER ->
             IF live /\ ~ (txn # INITIAL_TXN_ID /\ begin = MAX_CID)
             THEN "OK" ELSE "INVISIBLE"

IsOccupied(x, s) ==
  LET h == header[s]
      live == read_id[x] >= h.begin /\ ~ (read_id[x] >= h.end)
  IN  CASE h.txn = INVALID_TXN_ID -> FALSE
        [] h.txn = x -> \/ h.begin = MAX_CID /\ h.end # INVALID_CID
                        \/ rw_set[x][s] = "READ_OWN"
        [] OTHER -> IF h.txn # INITIAL_TXN_ID /\ h.begin = MAX_CID
                    THEN h.end # INVALID_CID ELSE live

IsOwner(x, s) == header[s].txn = x

IsWritten(s) == header[s].begin = MAX_CID

\* Mutant: a version somebody has superseded can be owned as well.
IsOwnableAnyVersion(s) == header[s].txn = INITIAL_TXN_ID

IsOwnable(s) == header[s].txn = INITIAL_TXN_ID /\ header[s].end = MAX_CID

\* Mutant: readers take versions owned by others.
IsFreeAlways(s) == TRUE

\* Neither owned nor invalid: what SetLastReaderCommitId and IsOwned test.
IsFree(s) == header[s].txn = INITIAL_TXN_ID

\* Mutant: the last reader is not looked at.
CanAcquireUnread(x, s) == IsFree(s)

\* The outcome of AcquireOwnership, under the spinlock of the tuple.
CanAcquire(x, s) == header[s].reader <= x /\ IsFree(s)

IsReadOnly(x) == IsolationOf[x] = "READ_ONLY"

TimestampsReads(x) == IsolationOf[x] \in {"SERIALIZABLE", "REPEATABLE_READS"}

\* The version an executor of a SNAPSHOT transaction turns to: the latest.
LatestOf(x, s) ==
  IF IsolationOf[x] = "SNAPSHOT" THEN head[header[s].entry] ELSE s
-----------------------------------------------------------------------------
(* Begin, and the scans.                                                   *)

\* Mutant: a snapshot is taken without waiting for older transactions.
BeginEarly(x) ==
  /\ pc[x] = "idle"
  /\ \E r \in (LoadCid + 1) .. (MAX_CID - 1) :
       /\ IF IsolationOf[x] \in {"SNAPSHOT", "READ_ONLY"} THEN r \notin Txn
          ELSE r = x
       /\ read_id' = [read_id EXCEPT ![x] = r]
  /\ Goto(x, "ready")
  /\ UNCHANGED <<storeVars, exec, result, rw_set, gc_set, historyVars>>

\* BeginTransaction.  A snapshot id lies above every commit id whose
\* transaction has ended and below those of all others (the epoch manager).
Begin(x) ==
  /\ pc[x] = "idle"
  /\ \E r \in (LoadCid + 1) .. (MAX_CID - 1) :
       /\ IF IsolationOf[x] \in {"SNAPSHOT", "READ_ONLY"}
          THEN r \notin Txn /\ \A y \in Txn : y < r => pc[y] = "ended"
          ELSE r = x
       /\ read_id' = [read_id EXCEPT ![x] = r]
  /\ Goto(x, "ready")
  /\ UNCHANGED <<storeVars, exec, result, rw_set, gc_set, historyVars>>

\* The scan below a select, update or delete starts: an index lookup yields
\* the entries of the key, a sequential scan all slots handed out so far.  The
\* slots are of one tile group, which is scanned before its tile is returned.
StartScan(x) ==
  /\ pc[x] = "ready" /\ result[x] = "SUCCESS"
  /\ exec[x].count < MaxStatement
  /\ \E st \in StatementsOf[x] \ {"insert"}, scan \in Scans :
       exec' = [exec EXCEPT ![x] =
         [NoExec EXCEPT !.stmt = st, !.scan = scan, !.count = exec[x].count + 1,
                        !.todo = IF scan = "index" THEN index
                                 ELSE 1 .. (next_slot - 1)]]
  /\ Goto(x, "next")
  /\ UNCHANGED <<storeVars, txnVars, historyVars>>

NextTuple(x) ==
  /\ pc[x] = "next"
  /\ \/ /\ exec[x].todo = {}
        /\ Goto(x, "rows")
        /\ UNCHANGED exec
     \/ \E e \in exec[x].todo :
          /\ exec[x].scan = "seq" => \A f \in exec[x].todo : e <= f
          /\ exec' = [exec EXCEPT
               ![x].cur = IF exec[x].scan = "seq" THEN e ELSE head[e],
               ![x].todo = @ \ {e}, ![x].hops = 1]
          /\ Goto(x, "vis_txn")
  /\ UNCHANGED <<storeVars, txnVars, historyVars>>

\* IsVisible loads txn_id, begin_cid and end_cid one after the other.
LoadTxnId(x) ==
  /\ pc[x] = "vis_txn"
  /\ exec' = [exec EXCEPT ![x].txn = header[exec[x].cur].txn]
  /\ Goto(x, "vis_begin")
  /\ UNCHANGED <<storeVars, txnVars, historyVars>>

LoadBegin(x) ==
  /\ pc[x] = "vis_begin"
  /\ exec' = [exec EXCEPT ![x].cid = header[exec[x].cur].begin]
  /\ Goto(x, "vis_end")
  /\ UNCHANGED <<storeVars, txnVars, historyVars>>

LoadEnd(x) ==
  /\ pc[x] = "vis_end"
  /\ LET s == exec[x].cur
         v == IsVisible(x, read_id[x], s, exec[x].txn, exec[x].cid,
                        header[s].end)
     IN  Goto(x, CASE v = "OK" -> "read"
                   [] v = "INVISIBLE" /\ exec[x].scan = "index" -> "wire_txn"
                   [] OTHER -> "next")
  /\ UNCHANGED <<storeVars, exec, txnVars, historyVars>>

\* ExecPrimaryIndexLookup on an invisible version: one that has expired and
\* is free sends the search back to the head, otherwise it goes to the next
\* older version.  Such a version stays expired and free, and next pointers of
\* linked versions stay put, so the last load of each step takes no step of
\* its own.
WireTxnId(x) ==
  /\ pc[x] = "wire_txn"
  /\ Goto(x, IF header[exec[x].cur].txn = INITIAL_TXN_ID
             THEN "wire_end" ELSE "follow")
  /\ UNCHANGED <<storeVars, exec, txnVars, historyVars>>

WireBack(x) ==
  /\ pc[x] = "wire_end"
  /\ LET h == header[exec[x].cur]
     IN  IF h.end <= read_id[x]
         THEN /\ exec' = [exec EXCEPT ![x].cur = head[h.entry], ![x].hops = 1]
              /\ Goto(x, "vis_txn")
         ELSE Goto(x, "follow") /\ UNCHANGED exec
  /\ UNCHANGED <<storeVars, txnVars, historyVars>>

FollowNext(x) ==
  /\ pc[x] = "follow"
  /\ LET s == exec[x].cur
     IN  \/ /\ header[s].next # NULL
            /\ exec' = [exec EXCEPT ![x].cur = header[s].next, ![x].hops = 2]
            /\ Goto(x, "vis_txn")
            /\ UNCHANGED <<result, absent>>
         \/ /\ header[s].next = NULL /\ exec[x].hops = 1
            /\ absent' = [absent EXCEPT ![x] = @ \union {s}]
            /\ Goto(x, "next")
            /\ UNCHANGED <<exec, result>>
         \/ /\ header[s].next = NULL /\ exec[x].hops # 1
            /\ Fail(x)
            /\ UNCHANGED <<exec, absent>>
  /\ UNCHANGED <<storeVars, read_id, rw_set, gc_set, returned>>

\* The scan returns the version and goes on to the next tuple.
ReturnRow(x) ==
  /\ exec' = [exec EXCEPT ![x].rows = @ \union {exec[x].cur}]
  /\ returned' = [returned EXCEPT ![x] =
       @ \union (IF IsOwner(x, exec[x].cur) THEN {} ELSE {exec[x].cur})]
  /\ Goto(x, "next")
  /\ UNCHANGED <<result, absent>>

FailRead(x) ==
  /\ Fail(x)
  /\ UNCHANGED <<header, exec, rw_set, historyVars>>

\* Mutant: the read leaves no timestamp behind.
SetLastReaderNot(x, s) == UNCHANGED header

\* Mutant: the read timestamps add up instead of taking the maximum.
SetLastReaderSum(x, s) == header' = [header EXCEPT ![s].reader = @ + x]

\* SetLastReaderCommitId, on success.
SetLastReader(x, s) ==
  header' = [header EXCEPT ![s].reader = IF @ < x THEN x ELSE @]

\* PerformRead of a scan that does not acquire ownership.
PerformRead(x) ==
  /\ pc[x] = "read" /\ exec[x].stmt # "select_for_update"
  /\ LET s == exec[x].cur
     IN  \/ /\ \/ IsReadOnly(x)
               \/ IsOwner(x, s) /\ IsolationOf[x] # "SNAPSHOT"
            /\ ReturnRow(x)
            /\ UNCHANGED <<header, rw_set>>
         \/ /\ \/ IsolationOf[x] = "SNAPSHOT"
               \/ IsolationOf[x] = "READ_COMMITTED" /\ ~ IsOwner(x, s) /\ IsFree(s)
            /\ Record(x, s, RecordRead) /\ ReturnRow(x)
            /\ UNCHANGED header
         \/ /\ TimestampsReads(x) /\ ~ IsOwner(x, s) /\ IsFree(s)
            /\ SetLastReader(x, s)
            /\ Record(x, s, RecordRead) /\ ReturnRow(x)
         \/ /\ IsolationOf[x] \notin {"READ_ONLY", "SNAPSHOT"}
            /\ ~ IsOwner(x, s) /\ ~ IsFree(s)
            /\ FailRead(x)
  /\ UNCHANGED <<next_slot, index, head, read_id, gc_set>>

\* PerformRead of a select for update: IsOwner and IsOwnable first ...
CheckOwnable(x) ==
  /\ pc[x] = "read" /\ exec[x].stmt = "select_for_update"
  /\ LET s == LatestOf(x, exec[x].cur)
     IN  \/ /\ IsReadOnly(x) \/ IsOwner(x, s)
            /\ ReturnRow(x)
            /\ UNCHANGED <<header, rw_set>>
         \/ /\ ~ IsReadOnly(x) /\ ~ IsOwner(x, s) /\ IsOwnable(s)
            /\ exec' = [exec EXCEPT ![x].txn = s]
            /\ Goto(x, "read_own")
            /\ UNCHANGED <<header, result, rw_set, historyVars>>
         \/ /\ ~ IsReadOnly(x) /\ ~ IsOwner(x, s) /\ ~ IsOwnable(s)
            /\ FailRead(x)
  /\ UNCHANGED <<next_slot, index, head, read_id, gc_set>>

\* ... then AcquireOwnership, RecordReadOwn and, where reads are
\* timestamped, SetLastReaderCommitId as the owner.
ReadOwn(x) ==
  /\ pc[x] = "read_own"
  /\ LET s == exec[x].txn
     IN  \/ /\ CanAcquire(x, s)
            /\ header' = [header EXCEPT ![s].txn = x,
                            ![s].reader = IF TimestampsReads(x) THEN x ELSE @]
            /\ Record(x, s, RecordReadOwn)
            /\ ReturnRow(x)
         \/ /\ ~ CanAcquire(x, s)
            /\ FailRead(x)
  /\ UNCHANGED <<next_slot, index, head, read_id, gc_set>>
-----------------------------------------------------------------------------
(* The update, delete and insert executors.                                *)

\* The rows of a select are done; a write goes through them one by one.
EndStatement(x) ==
  /\ pc[x] = "rows"
  /\ exec[x].stmt \in {"select", "select_for_update"} \/ exec[x].rows = {}
  /\ Goto(x, "ready")
  /\ UNCHANGED <<storeVars, exec, txnVars, historyVars>>

\* PerformUpdate(location) and PerformDelete(location): the version is already
\* this transaction's own.  Only the delete touches its header.
WriteInPlace(x, s) ==
  LET old == header[s].next
      deletes == exec[x].stmt = "delete"
  IN  /\ header' = [header EXCEPT ![s].end = IF deletes THEN INVALID_CID ELSE @]
      /\ CASE deletes -> Record(x, IF old = NULL THEN s ELSE old, RecordDelete)
           [] ~ deletes /\ old # NULL -> Record(x, old, RecordUpdate)
           [] OTHER -> UNCHANGED rw_set

\* The checks of UpdateExecutor and DeleteExecutor before a version is taken.
StartWrite(x) ==
  /\ pc[x] = "rows" /\ exec[x].stmt \notin {"select", "select_for_update"}
  /\ \E row \in exec[x].rows :
     LET s == LatestOf(x, row)
         h == header[s]
         stale == /\ IsolationOf[x] = "SNAPSHOT" /\ exec[x].stmt # "delete"
                  /\ IsVisible(x, x, s, h.txn, h.begin, h.end) # "OK"
         owner == IsOwner(x, s)
         inPlace == owner /\ IsWritten(s) /\ exec[x].stmt # "update_key"
     IN  \/ /\ ~ stale /\ inPlace
            /\ WriteInPlace(x, s)
            /\ exec' = [exec EXCEPT ![x].rows = @ \ {row}]
            /\ UNCHANGED <<pc, result>>
         \/ /\ ~ stale /\ ~ inPlace /\ (owner \/ IsOwnable(s))
            /\ exec' = [exec EXCEPT ![x].rows = @ \ {row}, ![x].cur = s,
                                    ![x].mine = owner]
            /\ Goto(x, IF owner THEN "write" ELSE "own")
            /\ UNCHANGED <<header, result, rw_set>>
         \/ /\ stale \/ ~ (owner \/ IsOwnable(s))
            /\ Fail(x)
            /\ UNCHANGED <<header, exec, rw_set>>
  /\ UNCHANGED <<next_slot, index, head, read_id, gc_set, historyVars>>

AcquireOwnership(x) ==
  /\ pc[x] = "own"
  /\ LET s == exec[x].cur
     IN  \/ /\ CanAcquire(x, s)
            /\ header' = [header EXCEPT ![s].txn = x]
            /\ Goto(x, "write")
            /\ UNCHANGED result
         \/ /\ ~ CanAcquire(x, s)
            /\ Fail(x)
            /\ UNCHANGED header
  /\ UNCHANGED <<next_slot, index, head, exec, read_id, rw_set, gc_set,
                 historyVars>>

\* The new version n in front of the owned version s: set up, linked into the
\* list, its reserved area initialised.  Nothing of it is visible before the
\* head (or the newer version) leads to it, so the stores are one step.
Linked(x, s, n, end) ==
  LET newer == header[s].prev
      prepared == [EmptyHeader EXCEPT
                     !.txn = x, !.end = end, !.prev = newer, !.next = s,
                     !.entry = IF newer = NULL THEN header[s].entry ELSE NULL]
  IN  [t \in Slot |->
         CASE t = s -> [header[s] EXCEPT !.prev = n]
           [] t = n -> prepared
           [] t = newer -> [header[t] EXCEPT !.next = n]
           [] OTHER -> header[t]]

\* Mutant: the index entry goes on pointing at the old version.
MoveHeadNot(s, n) == UNCHANGED head

MoveHead(s, n) ==
  head' = IF header[s].prev = NULL /\ header[s].entry # NULL
          THEN [head EXCEPT ![header[s].entry] = n] ELSE head

\* AcquireVersion, InstallVersion and PerformUpdate(old, new).
PerformUpdate(x) ==
  /\ pc[x] = "write" /\ exec[x].stmt = "update" /\ next_slot <= MaxSlot
  /\ header' = Linked(x, exec[x].cur, next_slot, MAX_CID)
  /\ MoveHead(exec[x].cur, next_slot)
  /\ next_slot' = next_slot + 1
  /\ Record(x, exec[x].cur, RecordUpdate)
  /\ Goto(x, "rows")
  /\ UNCHANGED <<index, exec, read_id, result, gc_set, historyVars>>

\* InstallVersion meets a secondary index conflict: the slot it took is lost,
\* the ownership is given back if this executor took it.
InstallFails(x) ==
  /\ pc[x] = "write" /\ exec[x].stmt = "update" /\ next_slot <= MaxSlot
  /\ header' = [header EXCEPT
                  ![exec[x].cur].txn = IF exec[x].mine THEN @ ELSE INITIAL_TXN_ID]
  /\ next_slot' = next_slot + 1
  /\ Fail(x)
  /\ UNCHANGED <<index, head, exec, read_id, rw_set, gc_set, historyVars>>

\* InsertEmptyVersion and PerformDelete(old, new).  An update of the primary
\* key deletes the version and inserts a tuple under another key, which can
\* fail.
PerformDelete(x) ==
  /\ pc[x] = "write" /\ exec[x].stmt \in {"delete", "update_key"}
  /\ next_slot <= MaxSlot
  /\ header' = Linked(x, exec[x].cur, next_slot, INVALID_CID)
  /\ MoveHead(exec[x].cur, next_slot)
  /\ next_slot' = next_slot + 1
  /\ Record(x, exec[x].cur, RecordDelete)
  /\ \/ Goto(x, "rows") /\ UNCHANGED result
     \/ exec[x].stmt = "update_key" /\ Fail(x)
  /\ UNCHANGED <<index, exec, read_id, gc_set, historyVars>>

\* DataTable::InsertTuple: a slot, then a conditional insertion into the
\* index, refused while the key is occupied.  A unique secondary index may
\* refuse the tuple too, before it is in this one or after, and so may a
\* foreign key, after: the entry then stays, of a slot that is never filled.
InsertTuple(x) ==
  /\ pc[x] = "ready" /\ result[x] = "SUCCESS"
  /\ exec[x].count < MaxStatement /\ next_slot <= MaxSlot
  /\ "insert" \in StatementsOf[x]
  /\ exec' = [exec EXCEPT ![x].count = @ + 1, ![x].cur = next_slot]
  /\ next_slot' = next_slot + 1
  /\ \/ HasIndex /\ Fail(x) /\ UNCHANGED <<index, head>>
     \/ /\ ~ \E e \in index : IsOccupied(x, head[e])
        /\ index' = IF HasIndex THEN index \union {next_slot} ELSE index
        /\ head' = IF HasIndex THEN [head EXCEPT ![next_slot] = next_slot]
                   ELSE head
        /\ \/ Goto(x, "insert") /\ UNCHANGED result
           \/ HasIndex /\ Fail(x)
  /\ UNCHANGED <<header, read_id, rw_set, gc_set, historyVars>>

PerformInsert(x) ==
  /\ pc[x] = "insert"
  /\ LET s == exec[x].cur
     IN  /\ header' = [header EXCEPT
                         ![s].txn = x, ![s].reader = 0,
                         ![s].entry = IF HasIndex THEN s ELSE NULL]
         /\ Record(x, s, RecordInsert)
  /\ Goto(x, "ready")
  /\ UNCHANGED <<next_slot, index, head, exec, read_id, result, gc_set,
                 historyVars>>
-----------------------------------------------------------------------------
(* Commit and abort walk the read/write set, in the order of a hash table. *)

Unfinished(x) == {s \in Slot : rw_set[x][s] \notin {"NONE", "READ"}}

Writes(x, s) == rw_set[x][s] \in {"UPDATE", "DELETE"}

Collect(x, garbage) == gc_set' = [gc_set EXCEPT ![x] = @ \union garbage]

Finish(x, s) == exec' = [exec EXCEPT ![x].todo = @ \ {s}]

CommitTransaction(x) ==
  /\ pc[x] = "ready" /\ result[x] = "SUCCESS"
  /\ exec' = [exec EXCEPT ![x].todo = IF IsReadOnly(x) THEN {} ELSE Unfinished(x)]
  /\ Goto(x, "commit")
  /\ UNCHANGED <<storeVars, txnVars, historyVars>>

\* Mutant: an aborting transaction keeps what it only read for update.
YieldOwnershipCommitOnly(x) ==
  /\ pc[x] \in {"commit", "abort"}
  /\ \E s \in exec[x].todo :
       /\ rw_set[x][s] = "READ_OWN"
       /\ header' = [header EXCEPT
                       ![s].txn = IF pc[x] = "commit" THEN INITIAL_TXN_ID ELSE @]
       /\ Finish(x, s)
  /\ UNCHANGED <<next_slot, index, head, pc, txnVars, historyVars>>

YieldOwnership(x) ==
  /\ pc[x] \in {"commit", "abort"}
  /\ \E s \in exec[x].todo :
       /\ rw_set[x][s] = "READ_OWN"
       /\ header' = [header EXCEPT ![s].txn = INITIAL_TXN_ID]
       /\ Finish(x, s)
  /\ UNCHANGED <<next_slot, index, head, pc, txnVars, historyVars>>

\* Mutant: the new version is released before its fields are complete.
CommitBeginReleases(x) ==
  /\ pc[x] = "commit"
  /\ \E s \in exec[x].todo :
       /\ Writes(x, s)
       /\ header' = [header EXCEPT ![header[s].prev].begin = x,
                                   ![header[s].prev].txn = INITIAL_TXN_ID]
       /\ exec' = [exec EXCEPT ![x].cur = s, ![x].cid = header[s].end]
  /\ Goto(x, "c_end")
  /\ UNCHANGED <<next_slot, index, head, txnVars, historyVars>>

\* An update or delete: the new version begins ...
CommitBegin(x) ==
  /\ pc[x] = "commit"
  /\ \E s \in exec[x].todo :
       /\ Writes(x, s)
       /\ header' = [header EXCEPT ![header[s].prev].begin = x]
       /\ exec' = [exec EXCEPT ![x].cur = s, ![x].cid = header[s].end]
  /\ Goto(x, "c_end")
  /\ UNCHANGED <<next_slot, index, head, txnVars, historyVars>>

\* ... takes over the end of the old one ...
CommitEnd(x) ==
  /\ pc[x] = "c_end"
  /\ header' = [header EXCEPT ![header[exec[x].cur].prev].end = exec[x].cid]
  /\ Goto(x, "c_old")
  /\ UNCHANGED <<next_slot, index, head, exec, txnVars, historyVars>>

\* Mutant: the old version is left open.
CommitOldOpen(x) ==
  /\ pc[x] = "c_old"
  /\ Goto(x, "c_new")
  /\ UNCHANGED <<storeVars, exec, txnVars, historyVars>>

\* ... which now ends where the new one begins ...
CommitOld(x) ==
  /\ pc[x] = "c_old"
  /\ header' = [header EXCEPT ![exec[x].cur].end = x]
  /\ Goto(x, "c_new")
  /\ UNCHANGED <<next_slot, index, head, exec, txnVars, historyVars>>

\* ... and both are released, the new one first.
CommitNew(x) ==
  /\ pc[x] = "c_new"
  /\ LET s == exec[x].cur
     IN  header' = [header EXCEPT ![header[s].prev].txn =
           IF rw_set[x][s] = "DELETE" THEN INVALID_TXN_ID ELSE INITIAL_TXN_ID]
  /\ Goto(x, "c_release")
  /\ UNCHANGED <<next_slot, index, head, exec, txnVars, historyVars>>

\* Mutant: the new version of an update is recycled instead of the old one.
CommitReleaseSwapped(x) ==
  /\ pc[x] = "c_release"
  /\ LET s == exec[x].cur
     IN  /\ header' = [header EXCEPT ![s].txn = INITIAL_TXN_ID]
         /\ Collect(x, {header[s].prev})
         /\ Finish(x, s)
  /\ Goto(x, "commit")
  /\ UNCHANGED <<next_slot, index, head, read_id, result, rw_set, historyVars>>

CommitRelease(x) ==
  /\ pc[x] = "c_release"
  /\ LET s == exec[x].cur
     IN  /\ header' = [header EXCEPT ![s].txn = INITIAL_TXN_ID]
         /\ Collect(x, {s} \union (IF rw_set[x][s] = "DELETE"
                                   THEN {header[s].prev} ELSE {}))
         /\ Finish(x, s)
  /\ Goto(x, "commit")
  /\ UNCHANGED <<next_slot, index, head, read_id, result, rw_set, historyVars>>

CommitInsertBegin(x) ==
  /\ pc[x] = "commit"
  /\ \E s \in exec[x].todo :
       /\ rw_set[x][s] = "INSERT"
       /\ header' = [header EXCEPT ![s].begin = x, ![s].end = MAX_CID]
       /\ exec' = [exec EXCEPT ![x].cur = s]
  /\ Goto(x, "c_insert")
  /\ UNCHANGED <<next_slot, index, head, txnVars, historyVars>>

CommitInsert(x) ==
  /\ pc[x] = "c_insert"
  /\ header' = [header EXCEPT ![exec[x].cur].txn = INITIAL_TXN_ID]
  /\ Finish(x, exec[x].cur)
  /\ Goto(x, "commit")
  /\ UNCHANGED <<next_slot, index, head, txnVars, historyVars>>

\* A tuple inserted and deleted by its own transaction, or whose inserting
\* transaction aborts: it was invisible and stays so.
DiscardInsert(x) ==
  /\ pc[x] \in {"commit", "abort"}
  /\ \E s \in exec[x].todo :
       /\ \/ rw_set[x][s] = "INS_DEL"
          \/ rw_set[x][s] = "INSERT" /\ pc[x] = "abort"
       /\ header' = [header EXCEPT ![s].begin = MAX_CID, ![s].end = MAX_CID,
                                   ![s].txn = INVALID_TXN_ID]
       /\ Collect(x, {s})
       /\ Finish(x, s)
  /\ UNCHANGED <<next_slot, index, head, pc, read_id, result, rw_set,
                 historyVars>>

AbortTransaction(x) ==
  /\ pc[x] = "ready" /\ (IsReadOnly(x) => result[x] # "SUCCESS")
  /\ exec' = [exec EXCEPT ![x].todo = Unfinished(x)]
  /\ Goto(x, "abort")
  /\ UNCHANGED <<storeVars, txnVars, historyVars>>

\* An update or delete is undone: the head first leads back to the old
\* version (the store goes through a null pointer if there is no index) ...
AbortHead(x) ==
  /\ pc[x] = "abort"
  /\ \E s \in exec[x].todo :
     LET n == header[s].prev
     IN  /\ Writes(x, s)
         /\ header' = [header EXCEPT ![n].begin = MAX_CID, ![n].end = MAX_CID]
         /\ head' = IF header[n].prev = NULL /\ header[s].entry # NULL
                    THEN [head EXCEPT ![header[s].entry] = s] ELSE head
         /\ exec' = [exec EXCEPT ![x].cur = s]
         /\ Collect(x, {n})
  /\ Goto(x, "a_unlink")
  /\ UNCHANGED <<next_slot, index, read_id, result, rw_set, historyVars>>

\* Mutant: the aborted version keeps its place behind the old one.
AbortUnlinkKeeps(x) ==
  /\ pc[x] = "a_unlink"
  /\ header' = [header EXCEPT ![header[exec[x].cur].prev].txn = INVALID_TXN_ID]
  /\ Goto(x, "a_release")
  /\ UNCHANGED <<next_slot, index, head, exec, txnVars, historyVars>>

\* ... then the new version is withdrawn and taken out of the list ...
AbortUnlink(x) ==
  /\ pc[x] = "a_unlink"
  /\ LET s == exec[x].cur
         n == header[s].prev
         newer == header[n].prev
     IN  header' = [t \in Slot |->
           CASE t = s -> [header[s] EXCEPT !.prev = newer]
             [] t = n -> [header[n] EXCEPT !.txn = INVALID_TXN_ID]
             [] t = newer -> [header[t] EXCEPT !.next = s]
             [] OTHER -> header[t]]
  /\ Goto(x, "a_release")
  /\ UNCHANGED <<next_slot, index, head, exec, txnVars, historyVars>>

\* ... and the old version is released.
AbortRelease(x) ==
  /\ pc[x] = "a_release"
  /\ header' = [header EXCEPT ![exec[x].cur].txn = INITIAL_TXN_ID]
  /\ Finish(x, exec[x].cur)
  /\ Goto(x, "abort")
  /\ UNCHANGED <<next_slot, index, head, txnVars, historyVars>>

EndTransaction(x) ==
  /\ pc[x] \in {"commit", "abort"} /\ exec[x].todo = {}
  /\ SetResult(x, IF pc[x] = "abort" THEN "ABORTED" ELSE result[x])
  /\ Goto(x, "ended")
  /\ UNCHANGED <<storeVars, exec, read_id, rw_set, gc_set, historyVars>>

\* What a transaction does once the client has asked for it.
Work(x) ==
  \/ NextTuple(x) \/ LoadTxnId(x) \/ LoadBegin(x) \/ LoadEnd(x)
  \/ WireTxnId(x) \/ WireBack(x) \/ FollowNext(x)
  \/ PerformRead(x) \/ CheckOwnable(x) \/ ReadOwn(x) \/ EndStatement(x)
  \/ StartWrite(x) \/ AcquireOwnership(x) \/ PerformUpdate(x)
  \/ InstallFails(x) \/ PerformDelete(x) \/ PerformInsert(x)
  \/ YieldOwnership(x) \/ CommitBegin(x) \/ CommitEnd(x) \/ CommitOld(x)
  \/ CommitNew(x) \/ CommitRelease(x) \/ CommitInsertBegin(x)
  \/ CommitInsert(x) \/ DiscardInsert(x) \/ AbortHead(x) \/ AbortUnlink(x)
  \/ AbortRelease(x) \/ EndTransaction(x)

\* What the client asks for.
Request(x) ==
  \/ Begin(x) \/ StartScan(x) \/ InsertTuple(x)
  \/ CommitTransaction(x) \/ AbortTransaction(x)

AllEnded == (\A x \in Txn : pc[x] = "ended") /\ UNCHANGED vars

Next == AllEnded \/ \E x \in Txn : Work(x) \/ Request(x)

Spec == Init /\ [][Next]_vars

\* Every thread goes on with a statement, a commit or an abort it started.
FairSpec == Spec /\ \A x \in Txn : WF_vars(Work(x))
-----------------------------------------------------------------------------
(* Properties.                                                             *)

Headers ==
  [txn : Txn \union {INVALID_TXN_ID, INITIAL_TXN_ID}, begin : 0 .. MAX_CID,
   end : 0 .. MAX_CID, prev : 0 .. MaxSlot, next : 0 .. MaxSlot,
   reader : 0 .. MAX_CID, entry : 0 .. MaxSlot]

\* Every variable has its type: in particular a slot is owned by nobody, by
\* one transaction, or is invalid.
TypeOK ==
  /\ header \in [Slot -> Headers]
  /\ next_slot \in 1 .. (MaxSlot + 1)
  /\ index \subseteq Slot
  /\ head \in [Slot -> 0 .. MaxSlot]
  /\ pc \in [Txn -> Locations]
  /\ read_id \in [Txn -> 0 .. MAX_CID]
  /\ result \in [Txn -> {"SUCCESS", "FAILURE", "ABORTED"}]
  /\ rw_set \in [Txn -> [Slot -> RWType]]
  /\ gc_set \in [Txn -> SUBSET Slot]
  /\ returned \in [Txn -> SUBSET Slot]
  /\ absent \in [Txn -> SUBSET Slot]

\* A version whose commit is complete; a tombstone (the empty version of a
\* committed delete) has no owner id at all.
Settled(s) ==
  header[s].begin # MAX_CID /\ header[s].txn \in {INITIAL_TXN_ID, INVALID_TXN_ID}

Stored(s) == header[s].begin # MAX_CID /\ header[s].txn = INITIAL_TXN_ID

\* At every timestamp at most one version of a list is visible, whatever the
\* interleaving of the field-by-field commits ("at any time point, only one
\* version is visible", CommitTransaction).
VersionsDisjoint ==
  \A s, t \in Slot :
    s # t /\ Settled(s) /\ Settled(t) /\ header[s].entry = header[t].entry =>
      header[s].end <= header[t].begin \/ header[t].end <= header[s].begin

\* Nobody returns another transaction's uncommitted version, or the empty
\* version of a delete, although both pass IsVisible for a moment.
ReadsCommitted ==
  \A x \in Txn : \A s \in returned[x] :
    header[s].begin <= read_id[x] /\ header[s].txn # INVALID_TXN_ID

\* A snapshot reader returns exactly what was current at its read id, and no
\* later commit can change that.
SnapshotConsistent ==
  \A x \in Txn : IsolationOf[x] \in {"SNAPSHOT", "READ_ONLY"} =>
    \A s \in returned[x] : header[s].begin <= read_id[x] /\ read_id[x] < header[s].end

\* Whoever owns a version has a larger timestamp than every timestamped reader
\* the version has been returned to (AcquireOwnership).
OwnerAfterReaders ==
  \A s \in Slot : \A x, y \in Txn :
    header[s].txn = y /\ s \in returned[x] /\ TimestampsReads(x) => x <= y

\* No version stays owned by a transaction that has ended: every path through
\* a failing executor, commit or abort gives the ownership back.
OwnersAlive ==
  \A s \in Slot : header[s].txn \in Txn => pc[header[s].txn] \notin {"idle", "ended"}

\* The last reader of a version is its owner when the owner reads it again or
\* deletes it (the assertions of PerformRead and PerformDelete).
OwnerIsLastReader ==
  \A x \in Txn :
    LET h == header[exec[x].cur]
    IN  /\ pc[x] = "read" /\ TimestampsReads(x) /\ h.txn = x => h.reader \in {0, x}
        /\ pc[x] = "write" /\ exec[x].stmt = "delete" => h.reader = x

\* A version about to be superseded has not been superseded before: its end
\* lies above the commit id (the assertions of CommitTransaction).
CommitsNewest ==
  \A x \in Txn : pc[x] = "commit" =>
    \A s \in exec[x].todo : Writes(x, s) => header[s].end > x /\ header[s].prev # NULL

\* Whenever no transaction is running, the version list of every stored tuple
\* is intact: the head leads to the newest version, and each version ends
\* where the next newer one, linked to it both ways, begins.
ChainIntact ==
  (\A x \in Txn : pc[x] \in {"idle", "ended"}) =>
    \A s \in Slot : Stored(s) =>
      LET h == header[s]
      IN  IF h.prev = NULL
          THEN h.end = MAX_CID /\ (HasIndex => head[h.entry] = s)
          ELSE /\ Settled(h.prev)
               /\ header[h.prev].next = s /\ header[h.prev].begin = h.end

\* What a transaction hands to the garbage collector is dead for everyone who
\* begins later, and no slot is handed over twice.
GarbageIsDead ==
  \A x \in Txn : pc[x] = "ended" => \A s \in gc_set[x] :
    /\ header[s].txn = INVALID_TXN_ID \/ header[s].end <= x
    /\ \A y \in Txn \ {x} : pc[y] = "ended" => s \notin gc_set[y]

\* The key is stored at most once at any timestamp: unique index entries do
\* their work ("if in this index there has been a visible or uncommitted
\* <key, location> pair, this constraint is violated", InsertInIndexes).
KeyUnique ==
  \A s, t \in Slot :
    s # t /\ Stored(s) /\ Stored(t) =>
      header[s].end <= header[t].begin \/ header[t].end <= header[s].begin

\* A transaction that timestamps its reads never reads two versions of a tuple
\* that others wrote: what it has read is still current, at its timestamp,
\* when it reads again (the fuzzy read of anomaly_test.cpp).
ReadsRepeatable ==
  \A x \in Txn : TimestampsReads(x) => \A s, t \in returned[x] :
    header[s].entry = header[t].entry => s = t

\* An index scan finds the tuple stored at load unless it is deleted at the
\* timestamp of the reader ("we should always find a visible version from a
\* version chain", ExecPrimaryIndexLookup).
TupleFound ==
  \A x \in Txn : 1 \in absent[x] => \A s \in Slot :
    ~ (Stored(s) /\ header[s].begin <= read_id[x] /\ read_id[x] < header[s].end)

\* "a pre-declared read-only transaction will never abort" (AbortTransaction).
ReadOnlyNeverAborts ==
  \A x \in Txn : IsReadOnly(x) => pc[x] # "abort"

\* The undo of a write to the newest version has an index entry to write
\* through (the assertion on AtomicUpdateItemPointer in AbortTransaction).
AbortHasHead ==
  \A x \in Txn : pc[x] = "abort" => \A s \in exec[x].todo :
    Writes(x, s) /\ header[header[s].prev].prev = NULL => header[s].entry # NULL

\* Committed history is immutable: once a version has been superseded its
\* timestamps never change again.
HistoryImmutable ==
  [][\A s \in Slot : Settled(s) /\ header[s].end # MAX_CID =>
       header'[s].begin = header[s].begin /\ header'[s].end = header[s].end]_vars

\* Every statement, commit and abort comes to an end: a scan that is sent back
\* to the head does not chase the chain for ever.
WorkEnds ==
  \A x \in Txn :
    pc[x] \notin {"idle", "ready", "ended"} ~> pc[x] \in {"ready", "ended"}
==============================================================================
