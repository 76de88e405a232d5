# Verification of Peloton's concurrency core and connections

Peloton is an in-memory, multi-version DBMS. This directory holds TLA+ models of
the parts of it that are hard to test: what happens to the versions of a tuple
while transactions read, write, commit and abort them, epochs advance, and the
garbage collector takes old versions away; how tables grow under concurrent
inserts; what a connection does between the socket and the transactions. The
models are translated from `src/src/`; `PROJECT.json` maps each definition to the
lines it stands for.

## 1. The system and its parts

| part | state | operations | talks to |
| --- | --- | --- | --- |
| Epoch manager (`concurrency/decentralized_epoch_manager`, `local_epoch`) | global epoch, snapshot epoch, id counter; per thread a queue of epochs with counts, and a lower bound | timer, `RegisterThread`, `EnterEpoch`, `ExitEpoch`, `GetExpiredEpochId` | transaction manager, garbage collector, hybrid scans |
| Transaction manager (`transaction_manager`, `timestamp_ordering_transaction_manager`, `transaction`) | read and commit id, read/write set, garbage set and result of each transaction | begin, `IsVisible`, `IsOccupied`, `PerformRead/Insert/Update/Delete`, ownership, commit, abort, end | epochs, version headers, index, garbage collector |
| Scan and write executors | position of a scan, rows found | version-list walk, sequential scan, update, delete, insert, update of a primary key | transaction manager, table |
| Table storage (`data_table`, `tile_group_header`, `indirection_array`, `lock_free_array`) | headers and counters of tile groups, index entries and the indirections they point through, list and count of tile groups | slot allocation, growth, `InsertTuple`, `InstallVersion` | index, garbage collector, catalog |
| Garbage collector (`gc/transaction_level_gc_manager`) | shared and local unlink queues, reclaim map, recycle queues | `RecycleTransaction`, `Unlink`, `Reclaim`, `ReturnFreeSlot` | epochs, table |
| Traffic cop (`tcop/`) | stack of open transactions of a connection, one static default state | `BEGIN`, `COMMIT`, `ROLLBACK`, statements | transaction manager |
| Packet manager (`wire/packet_manager`, `common/cache`) | block state, skipped statement, prepared statements, portals | simple and extended query protocol | traffic cop |
| Connections (`wire/libevent_*`) | state, buffers and packet of a connection | libevent callbacks | packet manager |
| Bw-Tree (`index/`) | lock-free tree | insert, conditional insert, delete, scan | table, executors |
| Parser, binder, optimizer, planner, other executors, code generator, expressions, types, catalog, statistics, tuners, networking, configuration | | | |

What makes these hard to test: header fields are loaded and stored one by one by
threads that hold no common lock; ownership and visibility are tested in one
call and used in the next; commit and abort walk a hash table in any order;
epochs are read before they are entered; a sweep over threads is not atomic;
garbage passes through four queues on its way to a new use; a counter is tested
and then added to; connections share a static variable; the network cuts streams
anywhere. The full list is under `hazards` in `PROJECT.json`, with the properties
that watch each.

What has to be correct, part by part:

* epochs: no transaction runs in an epoch that has been reported as expired;
  epochs do expire; snapshots lie above what may have been collected;
* transactions: at any timestamp one version of a tuple is visible; readers see
  committed data of their timestamp; writers come after the readers of what they
  overwrite; owners let go; version lists survive aborts; a key is stored once;
* garbage collection: what can be seen or has been reached is not reset, slots
  are recycled once, index entries do not outlive what they point at;
* tables: a slot is handed out once, a full tile group is replaced by one thread
  and nobody spins for ever, scans find every tile group they count;
* sessions: a pointer to a transaction is used only while it runs, every
  transaction begun is ended once, and the client is told how it ended;
* connections: requests and responses pass the buffers unchanged, and in order.

## 2. Modules

| module | models | status |
| --- | --- | --- |
| `EpochManager` | what an epoch manager promises (abstract) | proved to be implemented |
| `DecentralizedEpochManager` | `DecentralizedEpochManager`, `LocalEpoch`, begin and end of transactions | checked, proved |
| `EpochProofs` | theorems about it | proved |
| `TimestampOrdering` | transaction manager with the executors, on the versions of one key | checked, proved |
| `TimestampInvariant` | its inductive invariant, and the steps that leave the store alone | proved |
| `TimestampStatementProofs`, `TimestampEndProofs` | the steps of statements, of commits and aborts keep it | proved |
| `TimestampTheorems` | the end of a transaction, installation and insertion of versions; the theorems | proved |
| `TransactionLevelGC` | garbage collector, table and transactions, on top of `EpochManager` | checked, proved |
| `GCProofs` | theorems about it | proved |
| `DataTable` | slots, tile groups and indirection arrays under concurrent inserts | checked, proved |
| `TableProofs` | theorems about it | proved |
| `TrafficCop` | the traffic cop of each connection | checked with the next |
| `PacketManager` | the wire protocol, on top of `TrafficCop` | checked, proved |
| `SessionProofs` | theorems about both | proved |
| `LibeventSocket` | state machine and buffers of a connection | checked |
| `MCEpoch`, `MCTimestampOrdering`, `MCTransactionLevelGC`, `MCDataTable`, `MCPacketManager`, `MCLibeventSocket` | instances for TLC | |

The modules meet at these interfaces. `TransactionLevelGC` extends the abstract
`EpochManager`, which `DecentralizedEpochManager` implements. It takes the
outcomes of `TimestampOrdering` (one version installed or withdrawn at a time,
superseded versions put into the garbage set) and leaves the order in which
transactions may write to that module. `DataTable` is where its fresh slots come
from. `PacketManager` extends `TrafficCop`; for both a transaction is an object
that runs or was deleted. `LibeventSocket` sees of the packet manager only the
lengths of its responses.

### 2.1 Epoch manager

State and names are those of the code. `epoch_queue_[t]` is the set of epochs in
the queue, and in the map, of thread `t`; `txn_count_` holds their counts. The
bodies of `LocalEpoch` methods are atomic (they hold `epoch_lock_`); everything
around them is interleaved: reading the global epoch (`BeginTransaction`,
`RereadEpoch`, `ObserveEpoch`), entering (`EnterEpoch`, `RetryEnter`), taking an
id (`TakeTransactionId`, a counter modulo `CidShift`, which stands for 2^32),
reading the snapshot epoch a second time (`ReturnSnapshot`), and the visits of a
sweep, thread by thread, in any order. `Sweeper` is the set of callers of
`GetExpiredEpochId`. A transaction that calls `ExitEpoch` for an epoch that is
not there is stuck, as `epoch_map_.at` throws. `expired` is a history variable:
the largest id any sweep has returned.

Threads register at any time (`RegisterThread`). The server starts the timer and
the collector first (`common/init.cpp:48-51`, from `main/peloton.cpp:40`) and
registers its workers afterwards (`wire/libevent_thread.cpp:49-50`), id 0 for the
second time after the constructor; only the benchmarks register first. A second
registration replaces the `LocalEpoch`; it is enabled while no transaction of the
thread is under way, as the workers are created after it. `Late` are the threads
not registered at first. The loop of a sweep does not take `local_epoch_lock_`, so
a sweep that runs may meet a new thread or not. Missing one does no harm once the
first local epoch has been visited, because the minimum is then below every epoch
that can still be entered. `MayMiss` says whether a thread registered between the
begin of a sweep and its first visit may be missed as well. That the insertion into
the map may invalidate the iterator of the sweep is not modelled.

The abstract module has three variables: the current epoch, the epoch each
transaction runs in, and the last expired epoch. `Expire` is allowed only below
every running transaction and `Enter` only above the expired epoch, except for
`Unguarded` transactions, which enter any past or present epoch and hold none back.
These are the ones of level `READ_ONLY` and `SNAPSHOT`, whose entry `LocalEpoch`
never rejects, and every transaction of a thread that runs such ones, since they
lower the bound the others are tested against. The rest is `Guarded`. The
refinement mapping takes a guarded transaction as running from the moment its
`LocalEpoch` counts it to `EndTransaction`.

The promise is kept by one sweeper, which is the default deployment (one GC
thread, no hybrid scans), with `MayMiss` false. Section 3 shows what happens to
transactions that are not guarded, with two sweepers, and with `MayMiss`.

### 2.2 Timestamp ordering

One key, `MaxSlot` slots. `header[s]` holds the fields of `TileGroupHeader`:
owner, begin, end, newer (`prev`) and older (`next`) version, last reader, index
entry. An index entry is named by the slot whose insertion created it, and
`head` is the version that it points at. A transaction is named by its commit
id, so `x < y` compares timestamps.

A statement is a scan followed, for writes, by the write of each row:

* `StartScan`, `NextTuple`, then for each tuple `LoadTxnId`, `LoadBegin`,
  `LoadEnd` (the three loads of `IsVisible`); if the version is invisible,
  `WireTxnId`, `WireBack` and `FollowNext` walk the list as
  `ExecPrimaryIndexLookup` does, back to the head or to an older version;
* `PerformRead`, or `CheckOwnable` and `ReadOwn` for `SELECT FOR UPDATE`;
* `StartWrite` (the tests of the update and delete executors), then
  `AcquireOwnership`, `PerformUpdate`, `PerformDelete`, or `InstallFails` when a
  secondary index refuses the new version;
* `InsertTuple` and `PerformInsert`, with the index insertion in between. The
  insert may be refused by the primary index, by a unique secondary index or by a
  foreign key, before the primary index has taken the entry or after it; in the
  second case the entry stays, with an empty version behind it.

Three things are coarser than the code. The conditional insertion is one step
with the loads of `IsOccupied` that it makes; no proof depends on what they come
to. The slots belong to one tile group: a sequential scan goes through a whole
tile group before it returns the tile, and `MaxSlot` is far below the size of one.
`IsVisible` leaves out the range of dirty commit ids (`transaction_manager.cpp:214`),
which is empty because nothing calls `SetDirtyRange`.

`CommitTransaction` walks the read/write set in any order, and the five stores
that install a version are five steps (`CommitBegin`, `CommitEnd`, `CommitOld`,
`CommitNew`, `CommitRelease`); an abort takes three (`AbortHead`, `AbortUnlink`,
`AbortRelease`). Where several stores are one step (`Linked`, `AbortHead`,
`DiscardInsert`), the intermediate states cannot be told apart by a reader: the
version is not reachable yet, or is owned and invisible throughout.
`SetLastReaderCommitId` and the test in `AcquireOwnership` hold the spinlock of
the tuple and are atomic. `absent` and `returned` are history variables. The
snapshot ids that `Begin` hands out obey the promise of the epoch manager.

### 2.3 Garbage collector

Timestamps are reduced to their epochs; two ids of the same epoch compare either
way, so the module allows more than the code. A version is installed in two
steps, `CommitVersion` (timestamps) and `ReleaseVersion` (owners, garbage set).
`ExitEpoch` comes before `RecycleTransaction`, as in `EndTransaction`. A SNAPSHOT
transaction has an epoch for its reads (`eid`, which also stamps its garbage) and
a later one for its commit (`commit_eid`); a READ_ONLY transaction is one that
only looks. `SnapshotTxn` is part of `Unguarded`, so these may enter an epoch that
has expired, and so may any transaction that shares a thread with them. The loop of a GC thread is `Sweep`, `Reclaim`, `Unlink`, `Stamp`:
the expired epoch it uses in `Reclaim` and `Unlink` is the one of its sweep, and
`Stamp` reads the current epoch after the queues have been emptied. `held` is a
history variable: whether a scan reached its version before it was unlinked.

### 2.4 Growth of tables

An insert (`InsertTuple`, `AcquireVersion`) is a thread that goes through
`GetEmptyTupleSlot`: it picks an active tile group by the number of tuples
(`Start`), tests its counter (`TestSlot`), adds to the counter and looks at what
it got (`ClaimSlot`). Whoever gets the last slot runs `AddDefaultTileGroup`, one
step for each store that others see: the id, the offset in `tile_groups_`, the
element, the entry in the catalog, the active tile group, the count. The other
threads spin, which is `TestSlot` not being enabled. `Continue` ends the insert or
asks for an indirection in the same way (`TestIndirection` to
`ActivateIndirectionArray`), and `InsertEntries` is the index taking the entry or
refusing it. `handed`, `entries` and `inserted` are history variables.

The loads of the active tile group and of its counter are one step: a tile group
that is not full is still active, so the test could not come out otherwise with
the two apart. `active_tile_groups_` holds shared pointers that are assigned
without synchronisation; as the catalog keeps a reference to every tile group a
reader gets the old or the new one, which is what an atomic read gives.

### 2.5 Sessions

A session is a `PacketManager` with its `TrafficCop`, served by a worker thread
of its own. One action handles one message. A statement that runs a plan takes
three steps (`StartPlan`, then `CheckPlan` or `SkipPlan`, then `FinishPlan`),
because outside a block `ExecuteStatementPlan` keeps its state in a static
variable of `GetDefaultTxnState`, which all threads share (`default_state`).
`Outcome` is what executing the plan may come to: success, a lost conflict, an
exception, executors that fail to start. `running` is the set of Transaction
objects that exist; `BeginTransaction` returns an object nobody points to, and
the two ways to end a transaction delete it (`aborted` is a history variable:
the objects whose last end was an abort). A query is its type, and a statement in
the cache the type of its query; `PREPARE` and `EXECUTE` of simple queries take
`BEGIN`, `COMMIT` and `ROLLBACK` too. `reply` is what the last step told a client:
the result of which session's statement, by which protocol, and whether it was
reported as completed. `skipped_query_type_` is not initialised by the code; `Init`
takes any value. Clients are of four kinds, fixed at the start: none, simple
queries, simple queries with `PREPARE` and `EXECUTE`, and the extended protocol. A
client that mixes the protocols is not modelled.

### 2.6 Connections

`LibeventSocket` has the states of `ConnState`, and an action for each turn of a
handler. A byte is its position in the stream of requests or of responses, so the
buffers show where each byte went: `sent[i] = i` says that byte `i` is the right
one. `From`, `Store` and `InBuffer` are the copies of the code;
`IsReadDataAvailable` keeps the wrap-around of `buf_ptr - 1` at `size_t`.
`FlushAll` and `FlushSome` are the outcomes of `FlushWriteBuffer`: the socket
takes everything, or takes some bytes and is not ready. `len` is the local
variable of `BufferWriteBytesContent`. `refusals` counts the times the socket was
not ready there (see `wire_partial_write`). The object serves the next connection
with the same descriptor (`NewConnection`), after `Reset` in `CloseSocket` and
again when it is reused. Clients keep to the protocol: the length in a header is
that of the packet, and never less than the four bytes of the field itself.

## 3. Runs

Passing runs. All were finished by TLC without error.

| run | instance | what it shows |
| --- | --- | --- |
| `epoch_readwrite` | 2 threads, 2 read-write transactions on the one that registers late, 1 sweeper, fairness | `NoTxnInExpiredEpoch`: nobody runs in an epoch handed to the collector, although the epoch is read before it is entered and the sweep is not atomic. `ExitFindsEpoch`: every exit finds its epoch. `SnapshotAboveExpired`. `KeepsPromise`: refinement of `EpochManager`. `EpochsExpire`, `EnterTerminates`: a past epoch is reported unless a transaction is still there, and the retry loop ends once the clock stands still (`MaxEpoch` stops it; against a clock that overtakes each attempt the code has no protection) |
| `epoch_mixed` | one READ_ONLY and one SNAPSHOT transaction on a thread, one SERIALIZABLE on another that registers late | what holds beside snapshots: `QueueAboveBound` (assertions of the code), and `SnapshotSettled`: while a snapshot is read no read-write transaction, however slowly it began, runs with a commit id below it, which is what `TimestampOrdering` takes for granted |
| `to_writers` | 3 SERIALIZABLE writers of one tuple | `VersionsDisjoint`, `OwnerAfterReaders`, `CommitsNewest`, `ChainIntact`, `GarbageIsDead`, `HistoryImmutable` |
| `to_statements` | 2 SERIALIZABLE transactions, 2 statements each, with inserts, in-place writes and sequential scans | `ReadsCommitted`, and `OwnerIsLastReader` (an assertion of the code) |
| `to_snapshots` | a writer, a SNAPSHOT and a READ_ONLY reader | `SnapshotConsistent`: readers without locks see the version of their snapshot, whatever the interleaving of loads and stores |
| `to_locks` | `SELECT FOR UPDATE`, updates, updates of the primary key, fairness | `OwnersAlive`: ownership taken by a read is given back on every path. `WorkEnds`: no scan is wired back to the head for ever |
| `gc_deletes` | 2 transactions, 2 index entries, 3 slots, 1 GC thread, 3 epochs | `UnlinkedIsDead`: what is unlinked is seen by no running transaction. `HeldNotRecycled`: nor does a scan stand on it. `RecycledOnce` |
| `table_growth` | 2 threads, 4 inserts, 1 or 2 active tile groups and arrays of 2 places, fairness | `SlotsUsable`: no slot and no indirection is given out twice. `FullIsReplaced`: a full tile group has one thread that replaces it. `OvershootBounded`: counters run past the end by less than the number of threads. `GroupFoundSingle`, `GroupsListed`: list, count and catalog agree between inserts, and with one active tile group at any time. `InsertEnds`: nobody spins for ever |
| `session_blocks` | 2 sessions, 3 transactions, a statement cache of one entry; simple queries with and without `EXECUTE`, or the extended protocol; success, conflict, exception | `PointersLive`: no transaction is used after it was deleted, or ended twice. `AbortReported`: no `EXECUTE` reports a statement as completed when the transaction it ran in, or was to commit, has been aborted, be it by an earlier statement. `LostOnly`: the three ways in which a running transaction is forgotten, what the client is told in each, and no fourth |
| `wire_streams` | a buffer of 4 bytes, three packets per connection, two connections, fairness | `PacketsExact`, `StreamIntact`, `NothingLost`: requests and responses arrive whole and in order however the network cuts them. `RequestsServed`: the state machine never waits for data it has already read |

`to_writers`, `session_blocks` and `wire_streams` also check the type invariant of
their module. All but that of `LibeventSocket` are proved (section 4).

A violation run shows a place where the code does something that a comment of the
repository rules out; `findings` in `PROJECT.json` quotes the lines.

| run | violated | in short |
| --- | --- | --- |
| `table_count` | `GroupFound` | with two active tile groups the thread that appended last may count first, and a scan reads an element of `tile_groups_` that is not stored yet |
| `wire_partial_write` | `ResponsesIntact` | a socket that is not ready in the middle of a response: the rest is written with the length of the whole |

The models show more of them. They have no run of their own; TLC finds each with
the constants given here, which start from those of a run above.

| property | constants | in short |
| --- | --- | --- |
| `NoTxnInExpiredEpoch` | `epoch_readwrite` with `Spec`, `MayMiss = TRUE` | the server registers a worker between the begin of a sweep and its first visit; the sweep misses the thread, the epoch advances, and a transaction that has entered on the new thread runs in the epoch that the sweep returns (10 states) |
| `AllAboveExpired` | `epoch_mixed` with `Txn = {"x1"}`, `Late = {}` | a READ_ONLY entry is never rejected (`local_epoch.cpp:30`), not even on a thread that the running sweep has already visited |
| `AllExitsFindEpoch` | the same | the snapshot epoch is read twice in `EnterEpoch` (`decentralized_epoch_manager.cpp:29`), so an exit may miss the epoch that was entered |
| `AllAboveExpired` | `Spec`, x1 READ_ONLY and x3 SERIALIZABLE on one thread, `Late = {}`, `MaxEpoch = 4` | the bound that a READ_ONLY entry lowers lets a read-write transaction into an expired epoch: why `Guarded` is about threads |
| `NoTxnInExpiredEpoch` | `epoch_readwrite` with `Spec`, `Sweeper = {"gc", "scan"}` | a stale visit of a second sweep lowers a bound (`local_epoch.cpp:91`) |
| `ReadsRepeatable` | `to_statements` with `WriterAndReader`, `Scans = {"index"}` | the version is superseded between `IsVisible` and `PerformRead` (`index_scan_executor.cpp:257`) |
| `TupleFound` | the same with `MaxStatement = 1` | a scan meets the old head between two stores of a commit, although "we should always find a visible version" (`index_scan_executor.cpp:227`) |
| `KeyUnique` | `to_statements` with `DeleteAndInsert`, `MaxStatement = 1` | `IsOccupied` takes an uncommitted delete for a free key (`transaction_manager.cpp:160`) |
| `KeyUnique` | the same with `Inserters`, `Loaded = FALSE` | no owner between the index insertion and `PerformInsert` |
| `CommitsNewest` | `to_statements` with `ForUpdate` | `AcquireOwnership` does not repeat the test of `IsOwnable`; `SELECT FOR UPDATE` locks a superseded version |
| `CommitsNewest` | `to_writers` with `TwoTxns`, `AllReadCommitted` | the same window for plain updates at READ_COMMITTED |
| `OwnerIsLastReader` | `to_writers` with `TwoTxns`, `AllReadCommitted` | `PerformDelete` asserts a read that left no timestamp |
| `ReadOnlyNeverAborts` | `to_snapshots` with `LastReadOnly`, `InsertThenUpdate`, `Loaded = FALSE` | all versions of a tuple are newer than the snapshot |
| `AbortHasHead` | `to_writers` with `Scans = {"seq"}`, `HasIndex = FALSE` | an abort writes through an indirection that is not there |
| `OwnersAlive` | `to_locks` with `Spec`, `InsertThenRekey`, `Loaded = FALSE` | updating the primary key of one's own insert leaves the empty version owned |
| `VersionsDisjoint` | `to_locks` with `Spec`, `UpdateThenRekey` | updating the primary key of one's own update, in one order of the hash table |
| `UnlinkedIsDead` | `gc_deletes` with `Entry = {e1}`, `Statements = {"update", "delete"}`, `SnapshotTxn = Unguarded = {x2}`, no symmetry | garbage of a SNAPSHOT updater carries the read epoch (`transaction_manager.cpp:90`); `ReclaimedIsDead` holds all the same (theorem `ReclaimIsSafe`) |
| `CursorNotRecycled` | `gc_deletes` with `Entry = {e1}`, `Statements = {"update"}` | a scan between the stores of a commit walks to an unlinked version |
| `IndexLeadsHome` | `gc_deletes` | the index entry of a deleted tuple is never removed, and its slot gets another tuple |
| `InsertsCounted` | `table_growth` | another thread inserts into a new tile group, and returns, before `tile_group_count_` lets scans see it (`data_table.cpp:655`) |
| `PointersLive` | `session_blocks` with `Outcome = Outcomes` | in a block, a statement whose executors fail to start commits and deletes the transaction of the block (`tcop.cpp:240-259`); the stack keeps the pointer |
| `NoNestedBegin` | `session_blocks` | the filter for "double BEGIN statements" looks at Parse and Bind messages; a portal that is executed twice begins twice |
| `BlockHasTransaction` | `session_blocks` | `ROLLBACK` through the extended protocol comes back as ABORTED, which `ExecExecuteMessage` answers without `CompleteCommand`: the block stays open without a transaction |
| `AllAborted` | `session_blocks` | a closed connection drops its open transactions (`TrafficCop::Reset`, `tcop.cpp:47`), and an exception loses that of a single statement |
| `SimpleAbortReported` | `session_blocks` | a simple query whose transaction was aborted is answered like one that completed: `ExecQueryMessage` looks for FAILURE only (`packet_manager.cpp:463`) |
| `ResponsesFlushed` | `wire_streams` | a flush that only makes room clears `force_flush` (`libevent_socket.cpp:388`), and the end of the response stays in the buffer |

### Bounds

* Epochs: `MaxEpoch` 3. A stale entry needs an epoch that was read, one that has
  expired meanwhile and the current one. `CidShift` 1 or 2 stands for 2^32 ids
  per epoch: the counter wraps within an epoch, as `% 2^32` does after that many.
* Threads: 2, with two transactions on one of them, so that counts above one and
  queues of two epochs happen; a sweep needs a thread visited and one not yet.
  The third transaction, on the other thread, is in `epoch_mixed`; with it the
  liveness check takes too long. The theorems cover any number of each.
* Timestamp ordering: transactions 4, 6, 8 and the tuple loaded at 1; snapshot
  ids lie between. 2 or 3 transactions and 1 or 2 statements each: conflicts
  are between pairs, and the third writer is there for lists of three versions
  and for an abort between two commits. `MaxSlot` is enough for every version
  those transactions can create: `next_slot` stays at most `MaxSlot + 1` in each
  run (`TypeOK`). The guards that bound `next_slot` never stop a step of the runs;
  the theorems hold for every `MaxSlot`.
* Collector: 2 transactions that begin again and again, 3 slots (a head, a
  predecessor and a recycled one) and 3 epochs: an unlinked context waits for the
  second epoch while a transaction runs in the first. The theorems cover any
  number of each, and updates and SNAPSHOT transactions too. On one tuple with
  updates and deletes TLC has also checked them with x2 unguarded: `UnlinkedIsDead`
  and `ReclaimedIsDead`, and with x2 of level SNAPSHOT `ReclaimedIsDead`,
  `HeldNotRecycled` and `RecycledOnce` (up to 15,532,597 states).
* Tables: tile groups and arrays of 2 places and 4 inserts, so that each kind runs
  full, is replaced and runs full again; 1 or 2 active ones, since with one there
  is always somebody to wait for and with two growth overlaps. `MaxId` 8 never
  stops a thread, or `InsertEnds` would fail. The theorems cover any number of
  threads and any sizes.
* Sessions: 2 sessions for the static variable; 3 Transaction objects,
  one more than two sessions use at a time, so that a forgotten transaction still
  leaves room; `MaxDepth` 2, for a `BEGIN` inside a block; a cache of one entry and
  two names, so that entries are evicted. With executors that fail to start
  `AbortReported` and `LostOnly` hold too (1,136,920 states), `PointersLive` does not.
* Connections: a buffer of 4 bytes with headers of 1 and 2, contents of no byte,
  of exactly the buffer and longer, responses that take the buffer twice. The
  second connection finds what the first one left. One refusal inside contents
  is enough, and `StreamIntact` is about connections without any.
* Symmetry is used for transactions and slots of the collector and for the
  Transaction objects of sessions, which no definition orders, and not in runs
  with liveness properties.

### Fairness

`DecentralizedEpochManager!Fairness` is weak fairness of the timer thread, of
each step of a GC thread, and of the steps inside `BeginTransaction`: these are
running threads. It asks neither for transactions to begin nor for them to end.
A client may keep one open, and `TrafficCop::Reset` (`tcop.cpp:47`), which a
closing connection calls, drops open transactions without aborting them. So
`EpochsExpire` says that a past epoch is reported unless a transaction is still
in it or before it. `TimestampOrdering!FairSpec` is weak fairness of `Work(x)`,
the steps of a thread inside a statement, a commit or an abort; a client need not
send another statement. `DataTable!FairSpec` is weak fairness of each thread that
is inside an insert: the operating system runs it; no thread need begin one.
`LibeventSocket!FairSpec` is weak fairness of the state machine between two
events, and strong fairness of a read that brings a byte and of a write that the
socket takes: the events of libevent are persistent and level-triggered, so a
socket is reported again and again while there is something to read or room to
write, and the client is assumed to send its requests and to take the responses.
A client that does not is cut off or waited for, and `RequestsServed` says nothing
of it.

## 4. Theorems

Proved with TLAPS for every value of the constants that satisfies the named
assumptions of the modules (`TxnAssumption`, `BoundAssumption`, `GCAssumption`,
`TableAssumption`, `ThreadAssumption`, `CidAssumption`, `SizeAssumption`,
`TcopAssumption`, `SessionAssumption`: bounds that are natural numbers, finitely many
transactions or threads where something is counted, timestamps between that of the
loaded tuple and `MAX_CID`).

| theorem | module | statement |
| --- | --- | --- |
| `QueueStaysAboveBound` | `EpochProofs` | `Spec => [](TypeOK /\ QueueAboveBound)`, for every isolation level and number of sweepers |
| `ExpiredEpochsAreEmpty` | `EpochProofs` | `Spec => []NoTxnInExpiredEpoch`, assuming `SingleSweep` |
| `ExitAlwaysFindsEpoch` | `EpochProofs` | `Spec => []ExitFindsEpoch`, assuming `SingleSweep` |
| `CountsStayExact` | `EpochProofs` | `Spec => []CountsMatch`, assuming `SingleSweep` |
| `ImplementsPromise` | `EpochProofs` | `Spec => KeepsPromise`, assuming `SingleSweep` |
| `SnapshotsAreAboveExpired` | `EpochProofs` | `Spec => []SnapshotAboveExpired`, assuming one sweeper (`OneSweeper`) |
| `SnapshotsAreSettled` | `EpochProofs` | `Spec => []SnapshotSettled`, assuming `SingleSweep` |
| `TypesCorrect` | `GCProofs` | `Spec => []TypeOK` |
| `HeldIsSafe` | `GCProofs` | `Spec => []HeldNotRecycled` |
| `NothingRecycledTwice` | `GCProofs` | `Spec => []RecycledOnce` |
| `FreeSlotsAreEmpty` | `GCProofs` | `Spec => []FreeIsEmpty` |
| `ReclaimIsSafe` | `GCProofs` | `Spec => []ReclaimedIsDead` |
| `UnlinkIsSafe` | `GCProofs` | `Spec => []UnlinkedIsDead`, assuming `SnapshotTxn = {}` |
| `SlotsGivenOnce` | `TableProofs` | `Spec => []SlotsUsable` |
| `FullReplacedByOne` | `TableProofs` | `Spec => []FullIsReplaced` |
| `OvershootIsBounded` | `TableProofs` | `Spec => []OvershootBounded` |
| `ListsAgree` | `TableProofs` | `Spec => []GroupsListed` |
| `GroupsFound` | `TableProofs` | `Spec => []GroupFoundSingle` |
| `SessionsTyped` | `SessionProofs` | `Spec => []TypeOK` |
| `TransactionsAreLostOnly` | `SessionProofs` | `Spec => LostOnly` |
| `AbortsAreReported` | `SessionProofs` | `Spec => AbortReported`, assuming `ExecutorsStart` |
| `PointersStayLive` | `SessionProofs` | `Spec => []PointersLive`, assuming `ExecutorsStart` |
| `TransactionsTyped` | `TimestampTheorems` | `Spec => []TypeOK`, assuming `TimestampedWriters` |
| `LifetimesDisjoint` | `TimestampTheorems` | `Spec => []VersionsDisjoint`, assuming `TimestampedWriters` |
| `NothingDirtyIsRead` | `TimestampTheorems` | `Spec => []ReadsCommitted`, assuming `TimestampedWriters` |
| `SnapshotsAreConsistent` | `TimestampTheorems` | `Spec => []SnapshotConsistent`, assuming `TimestampedWriters` |
| `WritersFollowReaders` | `TimestampTheorems` | `Spec => []OwnerAfterReaders`, assuming `TimestampedWriters` |
| `OwnershipIsReturned` | `TimestampTheorems` | `Spec => []OwnersAlive`, assuming `TimestampedWriters` |
| `OwnersAreLastReaders` | `TimestampTheorems` | `Spec => []OwnerIsLastReader`, assuming `TimestampedWriters` |
| `CommitsReplaceNewest` | `TimestampTheorems` | `Spec => []CommitsNewest`, assuming `TimestampedWriters` |
| `ListsStayWhole` | `TimestampTheorems` | `Spec => []ChainIntact`, assuming `TimestampedWriters` |
| `GarbageStaysDead` | `TimestampTheorems` | `Spec => []GarbageIsDead`, assuming `TimestampedWriters` |
| `HistoryNeverChanges` | `TimestampTheorems` | `Spec => HistoryImmutable`, assuming `TimestampedWriters` |

### Epochs

`SingleSweep` says that there is one sweeper and that `MayMiss` is false. Threads
may register at any time, and transactions of every level run beside the guarded
ones, which the properties are about. The counterexamples of section 3 show that
none of this can be left out.

The argument. `QueueAboveBound` says that the epochs in a queue are above the
bound its thread has announced; it is inductive with the types and with
`PublishesEpoch`. `NoTxnInExpiredEpoch` alone is not inductive. It needs
`CountInv` (on threads without snapshots the counts are exactly the numbers of
running transactions, so the epoch of each stays in the queue, hence above the
bound), `ClockInv` (bounds and
sweeps are behind the global epoch, so the epoch a transaction retries with is
accepted and a new bound is in the past) and `SweepInv` (what has been returned,
and the minimum of a running sweep over the threads visited, are at most those
threads' bounds; a thread that registers later is `Closed` to the epochs below,
because the global epoch is past them). The step that matters is `Return`: when the last thread has been
visited, the minimum is below every bound, every bound is below every queued
epoch and every running transaction has its epoch queued. With
`NoTxnInExpiredEpoch` the refinement needs one case per action: `EnterEpoch` maps
to `Enter`, `EndTransaction` to `Exit`, the end of a sweep to `Expire` or a stutter,
`AdvanceEpoch` to `Advance`, and every other step to a stutter.

For the snapshot epoch `SnapshotInv` is enough: the snapshot epoch is always the one
after the last that was returned as expired. It needs a single
sweeper, since two may publish in the other order; it needs nothing about isolation
levels or missed threads. `SnapshotsAreSettled` puts both together: the id of a
snapshot is at most that of the snapshot epoch (`SnapshotIds`), every guarded
transaction runs above the expired epochs, and so its commit id is no lower.

### Timestamp ordering

`TimestampedWriters` is the deployment the theorems are about: a primary index;
transactions that timestamp their reads (SERIALIZABLE, REPEATABLE_READS) and
select, update, delete and insert; and readers of level SNAPSHOT and READ_ONLY.
The counterexamples of section 3 show why the rest is left out: without an index an
abort has no head to restore, READ_COMMITTED writers and `SELECT FOR UPDATE` lock
superseded versions, and updates of the primary key leave versions owned. The
number of transactions, statements and slots is arbitrary.

The invariant `IInv` says of every slot what its header may hold at each moment of
the work that is being done on it.

* `WriterOK`: each version in the read/write set of a transaction is in the state
  that the location of the transaction in its commit or abort implies. `Replaced` is
  a version owned together with its replacement, after each of the stores;
  `Superseded` one whose replacement is released already; `Newest` one before the
  replacement is linked or after it was unlinked; `Inserted` a new tuple. Conversely
  a slot that is owned is accounted for (`Accounted`): it is in the set, it replaces
  one that is, or it is about to be replaced. This is what makes commits and aborts
  of different transactions independent.
* `SlotOK` and `ListOK`: what holds of a version whoever works on it. `EndOf`, the
  begin of the replacement, stands for the end of a version while that field lags
  behind; with it lifetimes are disjoint between any two stores of a commit, which
  they are not by `end` itself. `VersionsDisjoint` follows for settled versions.
* `ReaderOK`: what a scan has loaded of a header, against what is there now
  (`Loads`). The three loads of `IsVisible` see three states; the invariant says
  which combinations can have been seen, and that they lead to a version that may be
  returned. For a writer that is one whose last reader is no earlier than itself
  (`Row`), so nobody with a smaller timestamp can own it afterwards. For a snapshot
  it is one whose end is above its read id, and stays so because everybody below
  the read id has ended (`ReadIdOK`).
* `GarbageOK`: why each slot is in a garbage set, and that it is in one only.

Statements with their scans (`TimestampStatementProofs`) mostly disturb
`ReaderOK` of the transaction itself and, by reads, the last readers; the stores
of commits and aborts (`TimestampEndProofs`) move a version from one of the states
above to the next, with everybody else's loads still explained. Each lemma about an
action shows `Kept`: the invariant holds again, and no version that has been
superseded changes its timestamps, which is the action property `HistoryImmutable`.

### Garbage collector

The theorems hold for any number of transactions, slots, tuples, GC threads and
epochs. The invariant comes in three layers, each proved inductive with the
layers before it.

1. `TypeInv`: types; what has expired is behind every running transaction, and
   what a GC thread remembers of it is older still (`EpochsOrdered`); only a
   transaction in an epoch scans or installs (`TxnsOrdered`).
2. `HeldInv`: a context in the reclaim map that holds the version of a scan was
   stamped no earlier than in the epoch of the scan. `Reclaim` takes contexts whose
   stamp has expired, and expired epochs are below those of running transactions,
   so it cannot take that one. This is what the second wait is for, and why `Stamp`
   has to read the epoch after the unlinking.
3. `TableInv`: a slot is free, or in the garbage of one transaction, or in one
   context of one queue of one GC thread (`PlacesInv`); free slots are empty;
   garbage is settled, that is no transaction owns it or can come to own it, and
   dead in the epoch its context waits for (`GarbageInv`); and what each
   transaction owns, and is about to install or to withdraw, fits together
   (`OwnerInv`). `RecycledOnce` needs all of these: that a version enters
   the garbage only once follows from its owner having let go of it.

`GCProofs` has the steps of a running transaction first, then those of its end,
those of the collector, and the theorems. For SNAPSHOT updaters
garbage carries the epoch of their reads and is dead only in the epoch of their
commit; the invariant says so with `Dead(s, epoch)` for what waits to be unlinked,
and the stamp makes up for it. That is why `ReclaimIsSafe` needs no assumption and
`UnlinkIsSafe` does. The properties speak of guarded readers; unguarded ones take
part in everything else, and their commits are dated by the epoch they commit in.

### Tables

The theorems hold for any set of threads and any sizes. `FullIsReplaced` is not
inductive. It needs `ClaimInv`: a thread between the test and the claim holds the
active tile group, or one that has run full since, so a claim that gets a slot
gets it from the active tile group; `GroupInv`: active tile groups are distinct
and known to the catalog; `NewInv`: a tile group that is being added is one
thread's alone and empty, because claims go only to active tile groups and full
ones. `GrowInv` then pairs the full active tile groups with the threads that
replace them: the claim of the last slot makes a pair and `ActivateTileGroup`
dissolves it. `SlotsUsable` follows from what was handed out lying below the
counters (`HandedInv`, `EntriesInv`).

A second layer, `LInv`, counts threads. `OverInv`: the counter of a tile group plus
the threads between their test and their claim stays below the size plus the number
of threads; a test adds a thread only while there is room. `CountsInv`: the ids
handed out are the indexes taken plus the threads about to append, and the indexes
are the tile groups counted plus the threads in between. `IndexInv` and `ListInv`:
an index belongs to one thread until it is stored, and what is missing from the list
or from the catalog has a thread that is about to put it there. Once nobody inserts
these sets are empty, and `GroupsListed` is left. With one active tile group only
one thread grows the table at a time (`SingleInv`, from `GrowInv`), and it is at the
last index, which is not counted yet: `GroupFoundSingle`.

### Sessions

The theorems hold for any number of sessions, transactions, names and any capacity
of the cache. `IInv` adds to the types that a plan inside a block works for the top
of the stack (`PlanTop`) and that an entry marked ABORTED belongs to a transaction
that was ended (`AbortedEnded`). The steps of the packet manager reach the stack
only through the calls of the traffic cop, so the proofs classify each message
by the call it makes (`Classified`) and argue about the calls. `PointersStayLive`
assumes `ExecutorsStart`: no plan's executors fail to start. Section 3 shows the
counterexample without it, and `session_blocks` makes the same assumption.
`AbortsAreReported` rests on it: as no pointer to a deleted object is followed, a
transaction that a statement commits was not aborted before, and no object that
runs counts as aborted (`Ended`); what is left is that each way of answering an
aborted statement says so.

### Model-checked only

The liveness properties `EpochsExpire`, `EnterTerminates`, `WorkEnds`, `InsertEnds`
and `RequestsServed`: fairness is out of the prover's reach. All properties of
`LibeventSocket`: positions in its streams are recursive operators, which the prover
does not take, and what they compute would need induction over packets.
`OwnersAlive` for `SELECT FOR UPDATE` and for updates of the primary key, which
`to_locks` checks on its instance: the theorem covers the other statements.

## 5. What is not modelled

The map names about 4,300 lines: about three in a hundred of `src/src/`, and over
a third of the files that it names. Most of
the rest is code in which only one thread works on data that no other sees
(parser, optimizer, expressions, types, most executors), code that is generated
or generates code, and adapted libraries. Models of it would restate it, with
nothing to check. What is left out of parts that do have something to check:

* Several keys at once. Each key has its own version list and the properties of
  `TimestampOrdering` are about one list. The read/write set of a transaction
  does span slots of several index entries of the key.
* The Bw-Tree. It is a lock-free tree of 9,400 lines with its own epochs, and needs
  a development of its own. The models use its contract: an entry that was
  inserted is found, a conditional insertion is atomic. A primary index never
  loses an entry, since neither the executors nor the collector delete any.
* `DROP TABLE` at commit, and registration of tables with the collector: nothing
  in the code orders them with transactions that use the table.
* Secondary index lookups and hybrid scans: they use the version walk that is
  modelled. Of secondary indexes and foreign keys the models have only that they
  may refuse an insert or a new version.
* Compiled queries: the compiler emits LLVM code. `TransactionRuntime` calls the
  `IsVisible` and `PerformRead` that are modelled, for a tile group at a time.
* Epoch manager: `Reset`, `SetCurrentEpochId` and `DeregisterThread`, called only
  by tests and benchmarks.
* Tables: `DropTileGroups`, `TransformTileGroup` and slots that are asked for by
  number.
* Connections: SSL, the dispatch to worker threads (one writer and one reader of a
  queue, with a pipe), and the shutdown of the server. Startup, Describe, rows and
  parameters of the wire protocol are conversions of data.
* Logging and checkpoints: the functions have empty bodies, so there is neither
  durability nor recovery to check.
* Statistics, tuners, peer-to-peer networking: nothing that is modelled depends on
  them.

Memory is sequentially consistent in the models. Header fields are plain loads and
stores, compare-and-swap on `txn_id` excepted, so concurrent accesses are data
races in C++. The transaction manager puts `COMPILER_MEMORY_FENCE` between the
stores whose order matters, and x86 keeps the order of stores and of loads; a
compiler could still reorder loads that no fence separates, and a store may be
delayed past a later load. The models interleave accesses one by one in program
order and show neither.
