--------------------- MODULE DecentralizedEpochManager ---------------------
(***************************************************************************)
(* The epoch manager of concurrency/: one LocalEpoch per worker thread, a  *)
(* global epoch that a timer advances, and sweeps (GetExpiredEpochId) that *)
(* tell the garbage collector which epochs no transaction runs in.         *)
(*                                                                         *)
(* A transaction begins (EnterEpoch) and ends (ExitEpoch) on its worker    *)
(* thread; several transactions share the LocalEpoch of their thread.      *)
(* Only the body of a LocalEpoch method is atomic (epoch_lock_): the reads *)
(* of the global counters around it are steps of their own.                *)
(***************************************************************************)
EXTENDS Integers, FiniteSets

CONSTANTS Thread,       \* worker threads, the keys of local_epochs_
          Txn,          \* transactions in flight: slots, reused after the end
          Sweeper,      \* callers of GetExpiredEpochId: GC threads, hybrid scans
          ThreadOf,     \* the worker thread a transaction runs on
          IsolationOf,  \* the isolation level a transaction begins with
          Late,         \* threads registered while sweeps already run
          MayMiss,      \* whether a sweep may miss a thread that is registered
                        \* between its begin and its first visit
          MaxEpoch,     \* bound: the global epoch stops here
          CidShift      \* 2^32 of the code: a cid is epoch * CidShift + txn id

IsolationLevelType == {"SERIALIZABLE", "SNAPSHOT", "READ_ONLY"}

ASSUME TxnAssumption ==
  /\ IsFiniteSet(Txn)
  /\ ThreadOf \in [Txn -> Thread]
  /\ IsolationOf \in [Txn -> IsolationLevelType]
  /\ Late \subseteq Thread
  /\ MayMiss \in BOOLEAN
ASSUME BoundAssumption == MaxEpoch \in Nat \ {0} /\ CidShift \in Nat \ {0}

Eid == 1 .. MaxEpoch

\* UINT64_MAX of the code: an id above every epoch.
MAX_EID == MaxEpoch + 1

Cid == Nat

VARIABLES
  current_global_epoch_id_, next_txn_id_, snapshot_global_epoch_id_,
  registered,            \* the keys of local_epochs_
  epoch_id_lower_bound_, \* per thread
  epoch_queue_,          \* per thread: the epochs of its queue and of its map
  txn_count_,            \* per thread and epoch
  pc,                    \* where a transaction is between its begin and its end
  ts_type,               \* the TimestampType it passes to EnterEpoch
  epoch_id,              \* the epoch it passes to its LocalEpoch
  read_id_, commit_id_,
  sweep,                 \* where a sweeper is in GetExpiredEpochId
  todo,                  \* the threads its loop has not visited
  observed,              \* the global epoch it read for the next visit
  global_expired_eid,    \* the minimum so far
  expired                \* history: the largest id any sweep has returned

globals == <<current_global_epoch_id_, next_txn_id_, snapshot_global_epoch_id_>>
locals  == <<registered, epoch_id_lower_bound_, epoch_queue_, txn_count_>>
txns    == <<pc, ts_type, epoch_id, read_id_, commit_id_>>
sweeps  == <<sweep, todo, observed, global_expired_eid, expired>>
vars    == <<globals, locals, txns, sweeps>>

\* Every variable stays in the range of its C++ type, cut to the bounds.
TypeOK ==
  /\ current_global_epoch_id_ \in Eid
  /\ next_txn_id_ \in 0 .. CidShift - 1
  /\ snapshot_global_epoch_id_ \in Eid
  /\ registered \in SUBSET Thread
  /\ epoch_id_lower_bound_ \in [Thread -> 0 .. MAX_EID]
  /\ epoch_queue_ \in [Thread -> SUBSET Eid]
  /\ txn_count_ \in [Thread -> [Eid -> Int]]
  /\ pc \in [Txn -> {"idle", "enter", "reread", "txnid", "snapid", "active"}]
  /\ ts_type \in [Txn -> {"READ", "SNAPSHOT_READ", "COMMIT"}]
  /\ epoch_id \in [Txn -> Eid]
  /\ read_id_ \in [Txn -> Cid]
  /\ commit_id_ \in [Txn -> Cid]
  /\ sweep \in [Sweeper -> {"idle", "loop", "visit", "publish"}]
  /\ todo \in [Sweeper -> SUBSET Thread]
  /\ observed \in [Sweeper -> Eid]
  /\ global_expired_eid \in [Sweeper -> (0 .. MaxEpoch - 1) \cup {MAX_EID}]
  /\ expired \in 0 .. MaxEpoch

\* The constructors: epoch 1, no transaction, LocalEpochs never used.
Init ==
  /\ current_global_epoch_id_ = 1
  /\ next_txn_id_ = 0
  /\ snapshot_global_epoch_id_ = 1
  /\ registered = Thread \ Late
  /\ epoch_id_lower_bound_ = [t \in Thread |-> MAX_EID]
  /\ epoch_queue_ = [t \in Thread |-> {}]
  /\ txn_count_ = [t \in Thread |-> [e \in Eid |-> 0]]
  /\ pc = [x \in Txn |-> "idle"]
  /\ ts_type = [x \in Txn |-> "READ"]
  /\ epoch_id = [x \in Txn |-> 1]
  /\ read_id_ = [x \in Txn |-> 0]
  /\ commit_id_ = [x \in Txn |-> 0]
  /\ sweep = [s \in Sweeper |-> "idle"]
  /\ todo = [s \in Sweeper |-> {}]
  /\ observed = [s \in Sweeper |-> 1]
  /\ global_expired_eid = [s \in Sweeper |-> MAX_EID]
  /\ expired = 0

-----------------------------------------------------------------------------
(* The epoch timer and the registration of worker threads. *)

\* Running(): every EPOCH_LENGTH milliseconds.
AdvanceEpoch ==
  /\ current_global_epoch_id_ < MaxEpoch
  /\ current_global_epoch_id_' = current_global_epoch_id_ + 1
  /\ UNCHANGED <<next_txn_id_, snapshot_global_epoch_id_, locals, txns, sweeps>>

\* The sweeps that are in the loop over local_epochs_.
Iterating == {s \in Sweeper : sweep[s] \in {"loop", "visit"}}

\* RegisterThread puts a new LocalEpoch in place, also for an id that has one:
\* the constructor registers id 0, and the server registers it again together
\* with its workers, before it starts them, so that no transaction is under way
\* on the thread.  It takes local_epoch_lock_, the loop of a sweep does not: a
\* sweep that is running may or may not meet a new entry.
RegisterThread(t) ==
  /\ \A x \in Txn : ThreadOf[x] = t => pc[x] = "idle"
  /\ registered' = registered \cup {t}
  /\ epoch_id_lower_bound_' = [epoch_id_lower_bound_ EXCEPT ![t] = MAX_EID]
  /\ epoch_queue_' = [epoch_queue_ EXCEPT ![t] = {}]
  /\ txn_count_' = [txn_count_ EXCEPT ![t] = [e \in Eid |-> 0]]
  /\ \E met \in SUBSET Iterating :
       /\ t \in registered => met = {}
       /\ \/ MayMiss \/ t \in registered
          \/ \A s \in Iterating \ met : global_expired_eid[s] # MAX_EID
       /\ todo' = [s \in Sweeper |-> IF s \in met THEN todo[s] \cup {t} ELSE todo[s]]
  /\ UNCHANGED <<globals, txns, sweep, observed, global_expired_eid, expired>>

-----------------------------------------------------------------------------
(* LocalEpoch: what its methods do to the queue, the counts and the bound. *)

\* The smallest epoch of queue q that still counts a transaction, if any.
Tops(q, count) ==
  {e \in q : count[e] # 0 /\ \A f \in q : count[f] # 0 => e <= f}

\* Mutant: emptied epochs stay in the queue.
PoppedNever(q, count) == q

\* The queue after empty epochs have been popped from its top.
Popped(q, count) == {e \in q : \E f \in q : count[f] # 0 /\ f <= e}

\* The lower bound after the popping loop: just below the top, if one is left.
BoundBelowTop(bound, q, count) ==
  IF Tops(q, count) = {} THEN bound ELSE (CHOOSE e \in Tops(q, count) : TRUE) - 1

\* Mutant: an epoch equal to the bound is let in.
EnterRejectedAbove(x) ==
  /\ epoch_id_lower_bound_[ThreadOf[x]] # MAX_EID
  /\ epoch_id_lower_bound_[ThreadOf[x]] > epoch_id[x]
  /\ ts_type[x] # "SNAPSHOT_READ"

\* LocalEpoch::EnterEpoch returns false: the GC has already passed this epoch.
EnterRejected(x) ==
  /\ epoch_id_lower_bound_[ThreadOf[x]] # MAX_EID
  /\ epoch_id_lower_bound_[ThreadOf[x]] >= epoch_id[x]
  /\ ts_type[x] # "SNAPSHOT_READ"

\* Mutant: the bound is not lowered for a stale snapshot reader.
LocalEnterKeepBound(t, e, ts) ==
  /\ epoch_id_lower_bound_' =
       [epoch_id_lower_bound_ EXCEPT ![t] = IF @ = MAX_EID THEN e - 1 ELSE @]
  /\ IF ts = "COMMIT"
       THEN UNCHANGED <<epoch_queue_, txn_count_>>
       ELSE /\ epoch_queue_' = [epoch_queue_ EXCEPT ![t] = @ \cup {e}]
            /\ txn_count_' = [txn_count_ EXCEPT ![t][e] = @ + 1]

\* LocalEpoch::EnterEpoch returns true; a COMMIT timestamp is not counted.
LocalEnter(t, e, ts) ==
  /\ epoch_id_lower_bound_' = [epoch_id_lower_bound_ EXCEPT ![t] = IF @ >= e THEN e - 1 ELSE @]
  /\ IF ts = "COMMIT"
       THEN UNCHANGED <<epoch_queue_, txn_count_>>
       ELSE /\ epoch_queue_' = [epoch_queue_ EXCEPT ![t] = @ \cup {e}]
            /\ txn_count_' = [txn_count_ EXCEPT ![t][e] = @ + 1]

\* LocalEpoch::ExitEpoch.
LocalExit(t, e) ==
  LET q == epoch_queue_[t]
      count == [txn_count_[t] EXCEPT ![e] = @ - 1]
  IN  /\ txn_count_' = [txn_count_ EXCEPT ![t] = count]
      /\ epoch_queue_' = [epoch_queue_ EXCEPT ![t] = Popped(q, count)]
      /\ epoch_id_lower_bound_' = [epoch_id_lower_bound_ EXCEPT ![t] = BoundBelowTop(@, q, count)]

\* LocalEpoch::GetExpiredEpochId, which the global epoch e is passed to: the
\* new lower bound, which is also what it returns.
LocalExpired(t, e) ==
  IF epoch_queue_[t] = {} THEN e - 1
  ELSE BoundBelowTop(epoch_id_lower_bound_[t], epoch_queue_[t], txn_count_[t])

-----------------------------------------------------------------------------
(* A transaction: BeginTransaction, EnterEpoch and EndTransaction. *)

Goto(x, from, to) == pc[x] = from /\ pc' = [pc EXCEPT ![x] = to]

\* BeginTransaction calls EnterEpoch, which reads the epoch it will enter: the
\* current one, or the snapshot one for READ_ONLY and SNAPSHOT.
BeginTransaction(x) ==
  /\ ThreadOf[x] \in registered
  /\ Goto(x, "idle", "enter")
  /\ IF IsolationOf[x] = "SERIALIZABLE"
       THEN /\ ts_type' = [ts_type EXCEPT ![x] = "READ"]
            /\ epoch_id' = [epoch_id EXCEPT ![x] = current_global_epoch_id_]
       ELSE /\ ts_type' = [ts_type EXCEPT ![x] = "SNAPSHOT_READ"]
            /\ epoch_id' = [epoch_id EXCEPT ![x] = snapshot_global_epoch_id_]
  /\ UNCHANGED <<globals, locals, read_id_, commit_id_, sweeps>>

\* The call of LocalEpoch::EnterEpoch, when it succeeds.
EnterEpoch(x) ==
  /\ Goto(x, "enter", IF ts_type[x] = "SNAPSHOT_READ" THEN "snapid" ELSE "txnid")
  /\ ~EnterRejected(x)
  /\ LocalEnter(ThreadOf[x], epoch_id[x], ts_type[x])
  /\ UNCHANGED <<globals, registered, ts_type, epoch_id, read_id_, commit_id_, sweeps>>

\* Mutant: the loop does not read the global epoch again.
RetryEnterStale(x) ==
  /\ EnterRejected(x)
  /\ Goto(x, "enter", "enter")
  /\ UNCHANGED <<globals, locals, ts_type, epoch_id, read_id_, commit_id_, sweeps>>

\* The call of LocalEpoch::EnterEpoch, when it fails: the loop starts over.
RetryEnter(x) ==
  /\ EnterRejected(x)
  /\ Goto(x, "enter", "reread")
  /\ UNCHANGED <<globals, locals, ts_type, epoch_id, read_id_, commit_id_, sweeps>>

\* GetCurrentEpochId at the head of the loop: after a failure, and for the
\* commit id of a SNAPSHOT transaction.
RereadEpoch(x) ==
  /\ Goto(x, "reread", "enter")
  /\ epoch_id' = [epoch_id EXCEPT ![x] = current_global_epoch_id_]
  /\ UNCHANGED <<globals, locals, ts_type, read_id_, commit_id_, sweeps>>

\* Mutant: the cid is made from a second read of the global epoch.
TakeTransactionIdReread(x) ==
  LET cid == current_global_epoch_id_ * CidShift + next_txn_id_
  IN  /\ Goto(x, "txnid", "active")
      /\ next_txn_id_' = (next_txn_id_ + 1) % CidShift
      /\ commit_id_' = [commit_id_ EXCEPT ![x] = cid]
      /\ read_id_' = [read_id_ EXCEPT ![x] = IF ts_type[x] = "READ" THEN cid ELSE @]
      /\ UNCHANGED <<current_global_epoch_id_, snapshot_global_epoch_id_, locals,
                     ts_type, epoch_id, sweeps>>

\* GetNextTransactionId, a uint32_t counter, and the return of the cid.
TakeTransactionId(x) ==
  LET cid == epoch_id[x] * CidShift + next_txn_id_
  IN  /\ Goto(x, "txnid", "active")
      /\ next_txn_id_' = (next_txn_id_ + 1) % CidShift
      /\ commit_id_' = [commit_id_ EXCEPT ![x] = cid]
      /\ read_id_' = [read_id_ EXCEPT ![x] = IF ts_type[x] = "READ" THEN cid ELSE @]
      /\ UNCHANGED <<current_global_epoch_id_, snapshot_global_epoch_id_, locals,
                     ts_type, epoch_id, sweeps>>

\* The return of a snapshot timestamp: EnterEpoch reads
\* snapshot_global_epoch_id_ a second time.  A SNAPSHOT transaction then
\* enters once more, for its commit id.
ReturnSnapshot(x) ==
  LET cid == snapshot_global_epoch_id_ * CidShift
  IN  /\ read_id_' = [read_id_ EXCEPT ![x] = cid]
      /\ IF IsolationOf[x] = "SNAPSHOT"
           THEN /\ Goto(x, "snapid", "reread")
                /\ ts_type' = [ts_type EXCEPT ![x] = "COMMIT"]
                /\ UNCHANGED commit_id_
           ELSE /\ Goto(x, "snapid", "active")
                /\ commit_id_' = [commit_id_ EXCEPT ![x] = cid]
                /\ UNCHANGED ts_type
      /\ UNCHANGED <<globals, locals, epoch_id, sweeps>>

\* Transaction::GetEpochId: the epoch half of the read id.
EpochOf(x) == read_id_[x] \div CidShift

\* EndTransaction: ExitEpoch with the epoch of the read id, and the deletion
\* of the transaction.  Without an entry for that epoch, epoch_map_.at throws.
EndTransaction(x) ==
  /\ Goto(x, "active", "idle")
  /\ EpochOf(x) \in epoch_queue_[ThreadOf[x]]
  /\ LocalExit(ThreadOf[x], EpochOf(x))
  /\ read_id_' = [read_id_ EXCEPT ![x] = 0]
  /\ commit_id_' = [commit_id_ EXCEPT ![x] = 0]
  /\ epoch_id' = [epoch_id EXCEPT ![x] = 1]
  /\ UNCHANGED <<globals, registered, ts_type, sweeps>>

-----------------------------------------------------------------------------
(* DecentralizedEpochManager::GetExpiredEpochId *)

BeginSweep(s) ==
  /\ sweep[s] = "idle"
  /\ sweep' = [sweep EXCEPT ![s] = "loop"]
  /\ todo' = [todo EXCEPT ![s] = registered]
  /\ global_expired_eid' = [global_expired_eid EXCEPT ![s] = MAX_EID]
  /\ UNCHANGED <<globals, locals, txns, observed, expired>>

\* The argument of the next call: the global epoch.
ObserveEpoch(s) ==
  /\ sweep[s] = "loop"
  /\ todo[s] # {}
  /\ sweep' = [sweep EXCEPT ![s] = "visit"]
  /\ observed' = [observed EXCEPT ![s] = current_global_epoch_id_]
  /\ UNCHANGED <<globals, locals, txns, todo, global_expired_eid, expired>>

\* The call of LocalEpoch::GetExpiredEpochId on the next local epoch.
VisitLocalEpoch(s) ==
  /\ sweep[s] = "visit"
  /\ \E t \in todo[s] :
       LET eid == LocalExpired(t, observed[s])
       IN  /\ epoch_id_lower_bound_' = [epoch_id_lower_bound_ EXCEPT ![t] = eid]
           /\ epoch_queue_' = [epoch_queue_ EXCEPT ![t] = Popped(@, txn_count_[t])]
           /\ todo' = [todo EXCEPT ![s] = @ \ {t}]
           /\ global_expired_eid' =
                [global_expired_eid EXCEPT ![s] = IF eid < @ THEN eid ELSE @]
  /\ sweep' = [sweep EXCEPT ![s] = "loop"]
  /\ UNCHANGED <<globals, registered, txn_count_, txns, observed, expired>>

\* Returning: the id joins the history.  MAX_EID, returned when no thread is
\* registered, makes the GC try again.
Return(s) ==
  /\ sweep' = [sweep EXCEPT ![s] = "idle"]
  /\ expired' = IF global_expired_eid[s] # MAX_EID /\ global_expired_eid[s] > expired
                  THEN global_expired_eid[s] ELSE expired

\* Mutant: the snapshot epoch may equal the expired one.
SnapshotBehindStrictly(s) ==
  /\ global_expired_eid[s] # MAX_EID
  /\ global_expired_eid[s] > snapshot_global_epoch_id_

\* The snapshot epoch is behind: it has to be written before returning.
SnapshotBehind(s) ==
  /\ global_expired_eid[s] # MAX_EID
  /\ global_expired_eid[s] >= snapshot_global_epoch_id_

EndSweep(s) ==
  /\ sweep[s] = "loop"
  /\ todo[s] = {}
  /\ IF SnapshotBehind(s)
       THEN sweep' = [sweep EXCEPT ![s] = "publish"] /\ UNCHANGED expired
       ELSE Return(s)
  /\ UNCHANGED <<globals, locals, txns, todo, observed, global_expired_eid>>

\* Mutant: the snapshot epoch becomes the current one.
PublishSnapshotCurrent(s) ==
  /\ sweep[s] = "publish"
  /\ snapshot_global_epoch_id_' = current_global_epoch_id_
  /\ Return(s)
  /\ UNCHANGED <<current_global_epoch_id_, next_txn_id_, locals, txns,
                 todo, observed, global_expired_eid>>

\* The write that follows the test, without a lock around the two.
PublishSnapshot(s) ==
  /\ sweep[s] = "publish"
  /\ snapshot_global_epoch_id_' = global_expired_eid[s] + 1
  /\ Return(s)
  /\ UNCHANGED <<current_global_epoch_id_, next_txn_id_, locals, txns,
                 todo, observed, global_expired_eid>>

-----------------------------------------------------------------------------
TxnStep(x) ==
  \/ BeginTransaction(x) \/ EnterEpoch(x) \/ RetryEnter(x) \/ RereadEpoch(x)
  \/ TakeTransactionId(x) \/ ReturnSnapshot(x) \/ EndTransaction(x)

SweepStep(s) ==
  BeginSweep(s) \/ ObserveEpoch(s) \/ VisitLocalEpoch(s) \/ EndSweep(s) \/ PublishSnapshot(s)

Next ==
  \/ AdvanceEpoch
  \/ \E t \in Thread : RegisterThread(t)
  \/ \E x \in Txn : TxnStep(x)
  \/ \E s \in Sweeper : SweepStep(s)

Spec == Init /\ [][Next]_vars

\* The timer and the GC threads loop for ever, and a call of BeginTransaction
\* runs on.  Nothing obliges a client to begin a transaction or to end one.
Fairness ==
  /\ WF_vars(AdvanceEpoch)
  /\ \A s \in Sweeper : WF_vars(SweepStep(s))
  /\ \A x \in Txn : WF_vars(pc[x] \notin {"idle", "active"} /\ TxnStep(x))

FairSpec == Spec /\ Fairness

-----------------------------------------------------------------------------
(* Properties *)

\* A transaction that its LocalEpoch counts.
Entered(x) == pc[x] \in {"txnid", "snapid", "active"} /\ ts_type[x] # "COMMIT"

\* Every epoch a LocalEpoch holds is above its lower bound: the assertions
\* of LocalEpoch::ExitEpoch and LocalEpoch::GetExpiredEpochId.
QueueAboveBound ==
  \A t \in Thread : \A e \in epoch_queue_[t] : epoch_id_lower_bound_[t] < e

\* A sweep that is about to write the snapshot epoch has a real minimum.
PublishesEpoch ==
  \A s \in Sweeper : sweep[s] = "publish" => global_expired_eid[s] # MAX_EID

\* A thread whose transactions all take READ timestamps.  A snapshot entry is
\* never rejected, and lowers the bound that rejects the others of its thread.
ReadWrite(t) == \A x \in Txn : ThreadOf[x] = t => IsolationOf[x] = "SERIALIZABLE"

\* The transactions that the rejection of stale entries protects.
Guarded == {x \in Txn : ReadWrite(ThreadOf[x])}

\* What the GC relies on when it unlinks and reclaims: whatever id a sweep has
\* returned so far, no transaction runs in that epoch or an older one, if its
\* thread runs no snapshots.
NoTxnInExpiredEpoch ==
  \A x \in Guarded : Entered(x) => expired < epoch_id[x]

\* ExitEpoch always finds the epoch of the transaction's read id (the assertion
\* before epoch_map_.at), if its thread runs no snapshots.
ExitFindsEpoch ==
  \A x \in Guarded : pc[x] = "active" => EpochOf(x) \in epoch_queue_[ThreadOf[x]]

\* The same of all transactions; see the table of counterexamples.
AllAboveExpired == \A x \in Txn : Entered(x) => expired < epoch_id[x]
AllExitsFindEpoch ==
  \A x \in Txn : pc[x] = "active" => EpochOf(x) \in epoch_queue_[ThreadOf[x]]

\* The ids handed to the GC never exceed the epoch before the current one.
ExpiredIsPast == expired < current_global_epoch_id_

\* The snapshot epoch follows the expired one: a READ_ONLY transaction that
\* begins now reads above everything the GC may have unlinked.
SnapshotAboveExpired ==
  expired < snapshot_global_epoch_id_ /\ snapshot_global_epoch_id_ <= current_global_epoch_id_

\* A snapshot is settled: as long as a READ_ONLY or SNAPSHOT transaction reads
\* at the id that EnterEpoch gave it, no read-write transaction, however slowly
\* it began, runs with a commit id below.  What commits later cannot change
\* what the snapshot shows; TimestampOrdering takes this for granted.  (The two
\* ids can be equal: the counter of EnterEpoch starts at 0, and wraps to it.)
SnapshotSettled ==
  \A x \in Guarded, y \in Txn :
    pc[x] = "active" /\ IsolationOf[y] # "SERIALIZABLE" => read_id_[y] <= commit_id_[x]

\* Once the global epoch has left an epoch, GetExpiredEpochId eventually reports
\* it, unless a transaction still runs there or before: only a transaction that
\* is never ended can hold the GC back.
EpochsExpire ==
  \A e \in Eid :
    current_global_epoch_id_ > e
      ~> expired >= e \/ \E x \in Txn : Entered(x) /\ epoch_id[x] <= e

\* The retry loop of EnterEpoch ends once the clock stands still: the bound it
\* loses to is always below the global epoch, so no retry repeats a failure.
EnterTerminates ==
  \A x \in Txn : pc[x] = "enter" ~> pc[x] \in {"txnid", "active"}

\* The epoch each transaction runs in: from the moment its LocalEpoch counts it.
RunningIn == [x \in Guarded |-> IF Entered(x) THEN epoch_id[x] ELSE 0]

Promise == INSTANCE EpochManager
             WITH Txn <- Guarded, Unguarded <- {},
                  epoch <- current_global_epoch_id_, running <- RunningIn

\* The counters, queues and sweeps of the code implement the promise: an entry
\* is never into an epoch already handed to the GC, and what a sweep returns is
\* below every transaction that runs by then.
KeepsPromise == Promise!EpochSpec

-----------------------------------------------------------------------------
(* What the theorems assume: one caller of GetExpiredEpochId at a time (one *)
(* GC thread and no hybrid scans, the default), and no sweep that misses a  *)
(* thread registered between its begin and its first visit.                 *)

SingleSweep == ~MayMiss /\ \A s, r \in Sweeper : s = r

\* Guarded transactions take READ timestamps, and a transaction under way is on
\* a registered thread.
ReadTimestamps ==
  /\ \A x \in Guarded : ts_type[x] = "READ" /\ pc[x] # "snapid"
  /\ \A x \in Txn : pc[x] # "idle" => ThreadOf[x] \in registered

\* The transactions that run in epoch e on thread t.
InEpoch(t, e) == {x \in Txn : ThreadOf[x] = t /\ Entered(x) /\ epoch_id[x] = e}

\* The LocalEpoch of a thread without snapshots counts exactly the transactions
\* that run in each epoch, and keeps every epoch it counts one for in its queue.
CountsMatch ==
  \A t \in Thread, e \in Eid : ReadWrite(t) =>
    /\ txn_count_[t][e] = Cardinality(InEpoch(t, e))
    /\ txn_count_[t][e] # 0 => e \in epoch_queue_[t]

\* The read id of a transaction lies in the epoch it has entered.
ReadIdInEpoch == \A x \in Guarded : pc[x] = "active" => EpochOf(x) = epoch_id[x]

\* No id is ahead of the global epoch.
ClockInv ==
  /\ snapshot_global_epoch_id_ <= current_global_epoch_id_
  /\ \A x \in Txn : epoch_id[x] <= current_global_epoch_id_
  /\ \A t \in Thread : \A e \in epoch_queue_[t] : e <= current_global_epoch_id_
  /\ \A t \in Thread : \/ epoch_id_lower_bound_[t] = MAX_EID
                       \/ epoch_id_lower_bound_[t] < current_global_epoch_id_
  /\ \A s \in Sweeper : /\ observed[s] <= current_global_epoch_id_
                        /\ \/ global_expired_eid[s] = MAX_EID
                           \/ global_expired_eid[s] < current_global_epoch_id_
  /\ ExpiredIsPast

\* Threads that have been registered and run no snapshots.
Watched == {t \in registered : ReadWrite(t)}

\* Epoch e is closed for thread t: the bound rejects it or, of a LocalEpoch not
\* used yet, the entries under way have read a later one.
Closed(t, e) ==
  /\ e <= epoch_id_lower_bound_[t]
  /\ epoch_id_lower_bound_[t] = MAX_EID =>
       \A x \in Txn : ThreadOf[x] = t /\ pc[x] = "enter" => e < epoch_id[x]

\* What has been returned is closed for every thread, and the minimum of a
\* running sweep for the threads it has visited or missed.
SweepInv ==
  /\ \A t \in Watched : Closed(t, expired)
  /\ \A s \in Sweeper :
       /\ sweep[s] # "idle" =>
            \A t \in Watched \ todo[s] : /\ global_expired_eid[s] # MAX_EID
                                         /\ Closed(t, global_expired_eid[s])
       /\ sweep[s] = "visit" => expired < observed[s]
       /\ sweep[s] = "publish" => todo[s] = {}
=============================================================================
