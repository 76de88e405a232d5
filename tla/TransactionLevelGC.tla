------------------------- MODULE TransactionLevelGC -------------------------
(***************************************************************************)
(* The transaction-level garbage collector, with the transactions that     *)
(* feed it and the table that reuses what it frees, on top of the promise  *)
(* of the epoch manager (module EpochManager).                             *)
(*                                                                         *)
(* Timestamps are abstracted to their epochs: of two ids of one epoch      *)
(* either may be the larger.  A transaction reads at its read epoch, the   *)
(* one it has entered; a SNAPSHOT transaction commits in a later one, and  *)
(* may have entered an epoch that has expired.                             *)
(* Which of two transactions may write a version is TimestampOrdering's    *)
(* concern; here any order it allows, and more, can happen.                *)
(***************************************************************************)
EXTENDS EpochManager, FiniteSets

CONSTANTS Slot,              \* tuple slots of the table
          Entry,             \* index entries, one per inserted tuple
          Loaded,            \* entries of the tuples loaded at first
          GCThread,          \* the threads running TransactionLevelGCManager
          HashToThread,      \* the GC thread that serves a transaction's thread
          SnapshotTxn,       \* the transactions of level SNAPSHOT
          Statements,        \* kinds of writes: "insert", "update", "delete"
          MAX_ATTEMPT_COUNT, \* contexts taken from a queue in one round
          FirstSlot,         \* where a loaded tuple is stored
          NULL               \* INVALID_ITEMPOINTER

\* MAX_CID, as an epoch.
MAX == MaxEpoch + 1

ASSUME GCAssumption ==
  /\ MaxEpoch \in Nat \ {0}
  /\ Loaded \subseteq Entry /\ FirstSlot \in [Loaded -> Slot]
  /\ \A e, f \in Loaded : FirstSlot[e] = FirstSlot[f] => e = f
  /\ SnapshotTxn \subseteq Unguarded /\ Unguarded \subseteq Txn
  /\ HashToThread \in [Txn -> GCThread]
  /\ MAX_ATTEMPT_COUNT \in Nat
  /\ NULL \notin Slot \union Entry \union Txn
  /\ Txn \intersect {"INVALID", "INITIAL"} = {}

VARIABLES
  \* the table and its primary index
  head,     \* the version an index entry leads to, NULL before the insertion
  version,  \* TileGroupHeader of each slot
  unused,   \* slots of the tile groups never handed out
  \* the transactions
  status,   \* where a transaction is
  eid,      \* Transaction::epoch_id_, the epoch of the read id
  commit_eid, \* the epoch of Transaction::commit_id_
  gc_set,   \* Transaction::gc_set_
  install,  \* the version its commit is installing
  cursor,   \* the version its scan is looking at
  held,     \* history: the transactions whose cursor got to its version
            \* before the version was unlinked
  \* the garbage collector
  unlink_queue, local_unlink_queue, reclaim_map, recycle_queue,
  garbages,    \* local variable of Unlink
  expired_eid, \* local variable of Running
  gc_pc        \* where a GC thread is

tableVars == <<head, version, unused>>
txnVars == <<status, eid, commit_eid, gc_set, install, cursor, held>>
gcVars == <<unlink_queue, local_unlink_queue, reclaim_map, recycle_queue,
            garbages, expired_eid, gc_pc>>
vars == <<epochVars, tableVars, txnVars, gcVars>>

\* The header of a version of entry e in front of version s, owned by o.
NewVersion(e, s, o, deleted) ==
  [entry |-> e, next |-> s, owner |-> o, begin |-> MAX, end |-> MAX, empty |-> deleted]

EmptyVersion == NewVersion(NULL, NULL, "INVALID", FALSE)

Init ==
  /\ EpochInit
  /\ head = [e \in Entry |-> IF e \in Loaded THEN FirstSlot[e] ELSE NULL]
  /\ version = [s \in Slot |->
       IF \E e \in Loaded : FirstSlot[e] = s
       THEN [NewVersion(CHOOSE e \in Loaded : FirstSlot[e] = s, NULL, "INITIAL", FALSE)
               EXCEPT !.begin = 0]
       ELSE EmptyVersion]
  /\ unused = {s \in Slot : \A e \in Loaded : FirstSlot[e] # s}
  /\ status = [x \in Txn |-> "idle"]
  /\ eid = [x \in Txn |-> 0]
  /\ commit_eid = [x \in Txn |-> 0]
  /\ gc_set = [x \in Txn |-> {}]
  /\ install = [x \in Txn |-> NULL]
  /\ cursor = [x \in Txn |-> NULL]
  /\ held = {}
  /\ unlink_queue = [g \in GCThread |-> {}]
  /\ local_unlink_queue = [g \in GCThread |-> {}]
  /\ reclaim_map = [g \in GCThread |-> {}]
  /\ recycle_queue = {}
  /\ garbages = [g \in GCThread |-> {}]
  /\ expired_eid = [g \in GCThread |-> 0]
  /\ gc_pc = [g \in GCThread |-> "sweep"]
-----------------------------------------------------------------------------
(* Transactions.                                                           *)

Begin(x) ==
  /\ status[x] = "idle"
  /\ Enter(x)
  /\ eid' = [eid EXCEPT ![x] = running'[x]]
  /\ commit_eid' = [commit_eid EXCEPT ![x] =
                      IF x \in SnapshotTxn THEN epoch ELSE running'[x]]
  /\ status' = [status EXCEPT ![x] = "active"]
  /\ UNCHANGED <<tableVars, gc_set, install, cursor, held, gcVars>>

\* Slots whose contexts have been unlinked or are already recycled.
Unlinked ==
  recycle_queue \union unused
    \union UNION {c.gc_set : c \in UNION {reclaim_map[g] : g \in GCThread}}

MoveCursor(x, s) ==
  /\ cursor' = [cursor EXCEPT ![x] = s]
  /\ held' = IF s \in Unlinked THEN held \ {x} ELSE held \union {x}

\* A scan starts at the head of a version list, or is wired back to it.
Lookup(x) ==
  /\ status[x] = "active"
  /\ \E e \in Entry : head[e] # NULL /\ MoveCursor(x, head[e])
  /\ UNCHANGED <<epochVars, tableVars, status, eid, commit_eid, gc_set, install, gcVars>>

\* The version is invisible and not free to be wired back from: it begins
\* after the reader, or it ends before the reader and is still owned.
PassesOver(x, v) ==
  \/ v.owner # x /\ (v.begin = MAX \/ running[x] <= v.begin)
  \/ v.owner \notin {x, "INITIAL"} /\ v.end <= running[x]

FollowNext(x) ==
  /\ status[x] = "active" /\ cursor[x] # NULL
  /\ PassesOver(x, version[cursor[x]])
  /\ version[cursor[x]].next # NULL
  /\ MoveCursor(x, version[cursor[x]].next)
  /\ UNCHANGED <<epochVars, tableVars, status, eid, commit_eid, gc_set, install, gcVars>>

\* GetEmptyTupleSlot: a recycled slot if there is one, otherwise a new one.
GetEmptyTupleSlot(s) ==
  /\ s \in IF recycle_queue = {} THEN unused ELSE recycle_queue
  /\ recycle_queue' = recycle_queue \ {s}
  /\ unused' = unused \ {s}

PerformInsert(x) ==
  /\ status[x] = "active" /\ "insert" \in Statements
  /\ \E e \in Entry, n \in Slot :
       /\ head[e] = NULL
       /\ GetEmptyTupleSlot(n)
       /\ head' = [head EXCEPT ![e] = n]
       /\ version' = [version EXCEPT ![n] = NewVersion(e, NULL, x, FALSE)]
  /\ UNCHANGED <<epochVars, txnVars, unlink_queue, local_unlink_queue,
                 reclaim_map, garbages, expired_eid, gc_pc>>

\* PerformUpdate and PerformDelete put a new version, an empty one for a
\* delete, in front of the newest version of a tuple.
PerformWrite(x) ==
  /\ status[x] = "active"
  /\ \E e \in Entry, s, n \in Slot, st \in Statements \intersect {"update", "delete"} :
       /\ head[e] = s /\ version[s].entry = e
       /\ version[s].owner = "INITIAL" /\ version[s].end = MAX
       /\ x \notin SnapshotTxn \/ st # "delete" => version[s].begin <= commit_eid[x]
       /\ GetEmptyTupleSlot(n)
       /\ head' = [head EXCEPT ![e] = n]
       /\ version' = [version EXCEPT ![s].owner = x,
                                    ![n] = NewVersion(e, s, x, st = "delete")]
  /\ UNCHANGED <<epochVars, txnVars, unlink_queue, local_unlink_queue,
                 reclaim_map, garbages, expired_eid, gc_pc>>

\* PerformDelete of a version the transaction has created itself.
DeleteOwn(x) ==
  /\ status[x] = "active" /\ "delete" \in Statements
  /\ \E n \in Slot :
       /\ version[n].owner = x /\ version[n].begin = MAX /\ ~ version[n].empty
       /\ version' = [version EXCEPT ![n].empty = TRUE]
  /\ UNCHANGED <<epochVars, head, unused, txnVars, gcVars>>

\* The versions a transaction has still to install or to withdraw.
Pending(x) == {n \in Slot : version[n].owner = x /\ version[n].begin = MAX}

\* CommitTransaction or AbortTransaction is called; scans are over.
EndRequest(x) ==
  /\ status[x] = "active"
  /\ \E st \in {"commit", "abort"} : status' = [status EXCEPT ![x] = st]
  /\ cursor' = [cursor EXCEPT ![x] = NULL]
  /\ held' = held \ {x}
  /\ UNCHANGED <<epochVars, tableVars, eid, commit_eid, gc_set, install, gcVars>>

\* CommitTransaction, one version: the timestamps ...
CommitVersion(x) ==
  /\ status[x] = "commit" /\ install[x] = NULL
  /\ \E n \in Pending(x) :
       LET s == version[n].next
       IN  /\ ~ (s = NULL /\ version[n].empty)
           /\ version' = [t \in Slot |->
                CASE t = n -> [version[n] EXCEPT !.begin = commit_eid[x]]
                  [] t = s -> [version[s] EXCEPT !.end = commit_eid[x]]
                  [] OTHER -> version[t]]
           /\ install' = [install EXCEPT ![x] = n]
  /\ UNCHANGED <<epochVars, head, unused, status, eid, commit_eid, gc_set, cursor,
                 held, gcVars>>

\* ... and the release.
ReleaseVersion(x) ==
  /\ install[x] # NULL
  /\ LET n == install[x]
         s == version[n].next
     IN  /\ version' = [t \in Slot |->
              CASE t = n -> [version[n] EXCEPT !.owner =
                               IF version[n].empty THEN "INVALID" ELSE "INITIAL"]
                [] t = s -> [version[s] EXCEPT !.owner = "INITIAL"]
                [] OTHER -> version[t]]
         /\ gc_set' = [gc_set EXCEPT ![x] = @
              \union (IF s = NULL THEN {} ELSE {s})
              \union (IF version[n].empty THEN {n} ELSE {})]
  /\ install' = [install EXCEPT ![x] = NULL]
  /\ UNCHANGED <<epochVars, head, unused, status, eid, commit_eid, cursor, held,
                 gcVars>>

\* A tuple inserted and deleted by its own transaction, or inserted by one
\* that aborts, is withdrawn; its index entry stays.
DiscardInsert(x) ==
  /\ status[x] \in {"commit", "abort"} /\ install[x] = NULL
  /\ \E n \in Pending(x) :
       /\ version[n].next = NULL
       /\ status[x] = "commit" => version[n].empty
       /\ version' = [version EXCEPT ![n].owner = "INVALID"]
       /\ gc_set' = [gc_set EXCEPT ![x] = @ \union {n}]
  /\ UNCHANGED <<epochVars, head, unused, status, eid, commit_eid, install, cursor,
                 held, gcVars>>

\* AbortTransaction, one version: the index entry leads back to the old one.
AbortVersion(x) ==
  /\ status[x] = "abort"
  /\ \E n \in Pending(x) :
       LET s == version[n].next
       IN  /\ s # NULL
           /\ head' = [head EXCEPT ![version[n].entry] = s]
           /\ version' = [version EXCEPT ![n].owner = "INVALID",
                                         ![s].owner = "INITIAL"]
           /\ gc_set' = [gc_set EXCEPT ![x] = @ \union {n}]
  /\ UNCHANGED <<epochVars, unused, status, eid, commit_eid, install, cursor, held,
                 gcVars>>

\* EndTransaction: the epoch is left first ...
ExitEpoch(x) ==
  /\ status[x] \in {"commit", "abort"} /\ install[x] = NULL /\ Pending(x) = {}
  /\ Exit(x)
  /\ status' = [status EXCEPT ![x] =
                  IF status[x] = "commit" THEN "committed" ELSE "aborted"]
  /\ UNCHANGED <<tableVars, eid, commit_eid, gc_set, install, cursor, held, gcVars>>

GarbageEpoch(x) == IF status[x] = "committed" THEN eid[x] ELSE epoch + 1

\* ... then the garbage is handed over: stamped with the epoch of the
\* read id if it committed, with the next epoch if it aborted.
RecycleTransaction(x) ==
  /\ status[x] \in {"committed", "aborted"}
  /\ LET context == [eid |-> GarbageEpoch(x), gc_set |-> gc_set[x]]
     IN  unlink_queue' = [unlink_queue EXCEPT ![HashToThread[x]] =
           IF gc_set[x] = {} THEN @ ELSE @ \union {context}]
  /\ status' = [status EXCEPT ![x] = "idle"]
  /\ eid' = [eid EXCEPT ![x] = 0]
  /\ commit_eid' = [commit_eid EXCEPT ![x] = 0]
  /\ gc_set' = [gc_set EXCEPT ![x] = {}]
  /\ UNCHANGED <<epochVars, tableVars, install, cursor, held,
                 local_unlink_queue, reclaim_map, recycle_queue, garbages,
                 expired_eid, gc_pc>>
-----------------------------------------------------------------------------
(* The loop of a GC thread.                                                *)

\* GetExpiredEpochId, which may find that another epoch has expired.
Sweep(g) ==
  /\ gc_pc[g] = "sweep"
  /\ Expire \/ UNCHANGED epochVars
  /\ expired_eid' = [expired_eid EXCEPT ![g] = expired']
  /\ gc_pc' = [gc_pc EXCEPT ![g] = "reclaim"]
  /\ UNCHANGED <<tableVars, txnVars, unlink_queue, local_unlink_queue, reclaim_map,
                 recycle_queue, garbages>>

\* Mutant: what has been unlinked is recycled without waiting any longer.
ExpiredContextsAll(g) == reclaim_map[g]

ExpiredContexts(g) == {c \in reclaim_map[g] : c.eid <= expired_eid[g]}

\* ResetTuple leaves the indirection of the slot alone.
ResetTuple(v) == NewVersion(v.entry, NULL, "INVALID", FALSE)

\* Reclaim: the slots of expired contexts are reset and can be used again.
Reclaim(g) ==
  /\ gc_pc[g] = "reclaim"
  /\ LET slots == UNION {c.gc_set : c \in ExpiredContexts(g)}
     IN  /\ version' = [s \in Slot |->
              IF s \in slots THEN ResetTuple(version[s]) ELSE version[s]]
         /\ recycle_queue' = recycle_queue \union slots
  /\ reclaim_map' = [reclaim_map EXCEPT ![g] = @ \ ExpiredContexts(g)]
  /\ gc_pc' = [gc_pc EXCEPT ![g] = "unlink"]
  /\ UNCHANGED <<epochVars, head, unused, txnVars, unlink_queue,
                 local_unlink_queue, garbages, expired_eid>>

\* Mutant: a context of the next epoch is taken as well.
CanUnlinkNext(c, e) == c.eid <= e + 1

CanUnlink(c, e) == c.eid <= e

\* Mutant: collected contexts stay in the local queue.
WaitingAll(seen, ready) == seen

\* What remove_if leaves in the local queue, and what is pushed back to it.
Waiting(seen, ready) == seen \ ready

\* Unlink: expired contexts are collected from the local queue and from (a
\* part of) the shared one; the others wait in the local queue.
Unlink(g) ==
  /\ gc_pc[g] = "unlink"
  /\ \E taken \in SUBSET unlink_queue[g] :
     LET seen == local_unlink_queue[g] \union taken
         ready == {c \in seen : CanUnlink(c, expired_eid[g])}
     IN  /\ Cardinality(taken) <= MAX_ATTEMPT_COUNT
         /\ unlink_queue' = [unlink_queue EXCEPT ![g] = @ \ taken]
         /\ garbages' = [garbages EXCEPT ![g] = ready]
         /\ local_unlink_queue' = [local_unlink_queue EXCEPT ![g] = Waiting(seen, ready)]
  /\ gc_pc' = [gc_pc EXCEPT ![g] = "stamp"]
  /\ UNCHANGED <<epochVars, tableVars, txnVars, reclaim_map, recycle_queue,
                 expired_eid>>

\* ... and what was collected may be recycled once the current epoch, which is
\* read only now, has expired.
Stamp(g) ==
  /\ gc_pc[g] = "stamp"
  /\ reclaim_map' = [reclaim_map EXCEPT ![g] =
       @ \union {[eid |-> epoch, gc_set |-> c.gc_set] : c \in garbages[g]}]
  /\ garbages' = [garbages EXCEPT ![g] = {}]
  /\ gc_pc' = [gc_pc EXCEPT ![g] = "sweep"]
  /\ UNCHANGED <<epochVars, tableVars, txnVars, unlink_queue, local_unlink_queue,
                 recycle_queue, expired_eid>>

AdvanceEpoch == Advance /\ UNCHANGED <<tableVars, txnVars, gcVars>>

TxnStep(x) ==
  \/ Begin(x) \/ Lookup(x) \/ FollowNext(x) \/ PerformInsert(x) \/ PerformWrite(x)
  \/ DeleteOwn(x) \/ EndRequest(x) \/ CommitVersion(x) \/ ReleaseVersion(x)
  \/ DiscardInsert(x) \/ AbortVersion(x) \/ ExitEpoch(x) \/ RecycleTransaction(x)

GCStep(g) == Sweep(g) \/ Reclaim(g) \/ Unlink(g) \/ Stamp(g)

Next ==
  \/ AdvanceEpoch
  \/ \E x \in Txn : TxnStep(x)
  \/ \E g \in GCThread : GCStep(g)

Spec == Init /\ [][Next]_vars
-----------------------------------------------------------------------------
(* Properties.                                                             *)

Context == [eid : 0 .. MAX, gc_set : SUBSET Slot]

Versions ==
  [entry : Entry \union {NULL}, next : Slot \union {NULL},
   owner : Txn \union {"INVALID", "INITIAL"}, begin : 0 .. MAX, end : 0 .. MAX,
   empty : BOOLEAN]

\* Every variable has its type.
TypeOK ==
  /\ head \in [Entry -> Slot \union {NULL}]
  /\ version \in [Slot -> Versions]
  /\ unused \subseteq Slot
  /\ status \in [Txn -> {"idle", "active", "commit", "abort", "committed", "aborted"}]
  /\ eid \in [Txn -> 0 .. MaxEpoch]
  /\ commit_eid \in [Txn -> 0 .. MaxEpoch]
  /\ gc_set \in [Txn -> SUBSET Slot]
  /\ install \in [Txn -> Slot \union {NULL}]
  /\ cursor \in [Txn -> Slot \union {NULL}]
  /\ held \subseteq Txn
  /\ unlink_queue \in [GCThread -> SUBSET Context]
  /\ local_unlink_queue \in [GCThread -> SUBSET Context]
  /\ reclaim_map \in [GCThread -> SUBSET Context]
  /\ recycle_queue \subseteq Slot
  /\ garbages \in [GCThread -> SUBSET Context]
  /\ expired_eid \in [GCThread -> 0 .. MaxEpoch]
  /\ gc_pc \in [GCThread -> {"sweep", "reclaim", "unlink", "stamp"}]

\* A tuple in the slot that the transaction may see: ids of one epoch are not
\* told apart, so the epoch of the end counts.
MaySee(x, s) ==
  /\ running[x] # 0 /\ ~ version[s].empty
  /\ version[s].begin <= running[x] /\ running[x] <= version[s].end

\* The transactions that the epoch manager's promise covers.
Guarded == Txn \ Unguarded

\* What has been unlinked can be seen by no running transaction ("it means that
\* no active transactions can read the version", Unlink).
UnlinkedIsDead ==
  \A g \in GCThread : \A c \in garbages[g] \union reclaim_map[g] :
    \A s \in c.gc_set, x \in Guarded : ~ MaySee(x, s)

\* What Reclaim is about to reset can be seen by no running transaction that
\* the promise covers, even if a SNAPSHOT transaction, whose garbage is stamped
\* with the old epoch that it read, has ended the version.
ReclaimedIsDead ==
  \A g \in GCThread : gc_pc[g] = "reclaim" =>
    \A c \in ExpiredContexts(g), x \in Guarded : \A s \in c.gc_set : ~ MaySee(x, s)

\* A version that a scan reached before it was unlinked is not recycled while
\* the transaction runs: that is what the second wait of Reclaim is for ("all
\* the transactions that are active at this time point will be committed/
\* aborted. at that time point, it is safe to recycle the version", Unlink).
HeldNotRecycled ==
  \A x \in held \intersect Guarded : cursor[x] \notin recycle_queue

\* The places garbage passes through, as pairs of a place and a slot.
ContextsOf(g) ==
  unlink_queue[g] \union local_unlink_queue[g] \union garbages[g]
    \union reclaim_map[g]

AllContexts == UNION {ContextsOf(g) : g \in GCThread}

\* A slot is handed to the collector once, and is in one place from there to
\* its next use: no slot is recycled twice, and none while it is in use.
RecycledOnce ==
  /\ \A c, d \in AllContexts : c # d => c.gc_set \intersect d.gc_set = {}
  /\ \A c \in AllContexts :
       /\ c.gc_set \intersect (recycle_queue \union unused) = {}
       /\ \A x \in Txn : c.gc_set \intersect gc_set[x] = {}
  /\ \A x, y \in Txn : x # y => gc_set[x] \intersect gc_set[y] = {}
  /\ \A x \in Txn : gc_set[x] \intersect (recycle_queue \union unused) = {}

\* Free slots are empty: whoever takes one finds the header that
\* PerformInsert, PerformUpdate and PerformDelete assert.
FreeIsEmpty ==
  \A s \in recycle_queue \union unused :
    /\ version[s].owner = "INVALID" /\ version[s].begin = MAX
    /\ version[s].end = MAX /\ version[s].next = NULL

\* A scan never stands on a recycled slot, however it got there.
CursorNotRecycled ==
  \A x \in Txn : cursor[x] # NULL => cursor[x] \notin recycle_queue

\* An index entry leads to a version of its own tuple ("recycle old version,
\* delete from index", CommitTransaction: an entry is gone before its versions
\* are used for another tuple).
IndexLeadsHome ==
  \A e \in Entry :
    head[e] # NULL /\ version[head[e]].owner # "INVALID" =>
      version[head[e]].entry = e
=============================================================================
