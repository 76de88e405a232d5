---------------------------- MODULE EpochProofs -----------------------------
(***************************************************************************)
(* Proofs about the epoch manager, for any number of threads, transactions,*)
(* sweepers and epochs.                                                    *)
(***************************************************************************)
EXTENDS DecentralizedEpochManager, TLAPS

\* The popping loop leaves a bound below every epoch that stays queued.
LEMMA BoundBelowTopLemma ==
  ASSUME NEW q \in SUBSET Eid, NEW count \in [Eid -> Int], NEW bound \in 0 .. MAX_EID,
         \A e \in q : bound < e
  PROVE  /\ \A e \in Popped(q, count) : BoundBelowTop(bound, q, count) < e
         /\ BoundBelowTop(bound, q, count) \in 0 .. MAX_EID
         /\ BoundBelowTop(bound, q, count) >= bound
         /\ q # {} => BoundBelowTop(bound, q, count) \in 0 .. MaxEpoch - 1
         /\ Popped(q, count) \in SUBSET Eid
PROOF
  <1> DEFINE T == Tops(q, count)
             b == BoundBelowTop(bound, q, count)
             p == Popped(q, count)
  <1>1. p \subseteq q /\ p \in SUBSET Eid
    BY Zenon DEF Popped
  <1>2. \A e \in q : e \in Int /\ 1 <= e /\ e <= MaxEpoch
    BY BoundAssumption DEF Eid
  <1>3. bound \in Int /\ 0 <= bound /\ bound <= MaxEpoch + 1 /\ MaxEpoch \in Nat
    BY BoundAssumption DEF MAX_EID
  <1>4. CASE T = {}
    <2>1. b = bound
      BY <1>4, Zenon DEF BoundBelowTop
    <2>2. q # {} => bound <= MaxEpoch - 1
      BY <1>2, <1>3
    <2> HIDE DEF b, p
    <2> QED
      BY <1>1, <1>3, <2>1, <2>2 DEF b, p
  <1>5. CASE T # {}
    <2> DEFINE m == CHOOSE e \in T : TRUE
    <2>1. m \in T
      BY <1>5, Zenon
    <2>2. m \in q /\ \A f \in q : count[f] # 0 => m <= f
      BY <2>1, Zenon DEF Tops
    <2>3. b = m - 1
      BY <1>5, Zenon DEF BoundBelowTop
    <2>4. m \in Int /\ 1 <= m /\ m <= MaxEpoch /\ bound < m
      BY <1>2, <2>2, Zenon
    <2>5. \A e \in p : m <= e
      <3> TAKE e \in p
      <3> PICK f \in q : count[f] # 0 /\ f <= e
        BY Zenon DEF Popped
      <3> QED
        BY <1>1, <1>2, <2>2, <2>4
    <2> HIDE DEF b, p, m
    <2>6. /\ \A e \in p : b < e
          /\ b \in 0 .. MaxEpoch - 1
          /\ b >= bound
      BY <1>1, <1>2, <1>3, <2>3, <2>4, <2>5
    <2> QED
      BY <1>1, <1>3, <2>6 DEF b, p, MAX_EID
  <1> QED
    BY <1>4, <1>5, Zenon

\* The type invariant with what makes it inductive: a LocalEpoch's bound stays
\* below its queue, so that a bound taken from a queue is an epoch.
TypeInv == TypeOK /\ QueueAboveBound /\ PublishesEpoch

LEMMA TypeInvInit == Init => TypeInv
  BY TxnAssumption, BoundAssumption
  DEF Init, TypeInv, TypeOK, QueueAboveBound, PublishesEpoch, Eid, MAX_EID, Cid

\* What the registration of t makes of the work of the sweeps: one in its loop
\* that has made no visit yet meets a new thread.
LEMMA RegisterTodo ==
  ASSUME TypeOK, NEW t \in Thread, RegisterThread(t)
  PROVE  /\ todo' \in [Sweeper -> SUBSET Thread]
         /\ \A s \in Sweeper :
              /\ todo[s] \subseteq todo'[s]
              /\ s \notin Iterating => todo'[s] = todo[s]
              /\ ~MayMiss /\ s \in Iterating /\ t \notin registered
                   => t \in todo'[s] \/ global_expired_eid[s] # MAX_EID
PROOF
  <1>1. PICK met \in SUBSET Iterating :
          /\ \/ MayMiss \/ t \in registered
             \/ \A s \in Iterating \ met : global_expired_eid[s] # MAX_EID
          /\ todo' = [s \in Sweeper |-> IF s \in met THEN todo[s] \cup {t} ELSE todo[s]]
    BY Zenon DEF RegisterThread
  <1>2. \A s \in Sweeper : todo[s] \in SUBSET Thread
    BY Zenon DEF TypeOK
  <1>3. \A s \in Sweeper : todo'[s] = IF s \in met THEN todo[s] \cup {t} ELSE todo[s]
    BY <1>1, Zenon
  <1> QED
    BY <1>1, <1>2, <1>3, Zenon

LEMMA TypeInvStep == TypeInv /\ [Next]_vars => TypeInv'
PROOF
  <1> SUFFICES ASSUME TypeInv, [Next]_vars PROVE TypeInv'
    BY Zenon
  <1> USE TxnAssumption, BoundAssumption DEF TypeInv
  <1>1. CASE AdvanceEpoch
    BY <1>1 DEF AdvanceEpoch, TypeOK, QueueAboveBound, PublishesEpoch, Eid, MAX_EID, Cid,
                locals, txns, sweeps
  <1>2. ASSUME NEW t \in Thread, RegisterThread(t) PROVE TypeInv'
    <2>1. /\ registered' = registered \cup {t}
          /\ epoch_id_lower_bound_' = [epoch_id_lower_bound_ EXCEPT ![t] = MAX_EID]
          /\ epoch_queue_' = [epoch_queue_ EXCEPT ![t] = {}]
          /\ txn_count_' = [txn_count_ EXCEPT ![t] = [e \in Eid |-> 0]]
          /\ UNCHANGED <<globals, txns, sweep, observed, global_expired_eid, expired>>
      BY <1>2, Zenon DEF RegisterThread
    <2>2. todo' \in [Sweeper -> SUBSET Thread]
      BY <1>2, RegisterTodo, Zenon
    <2>3. [e \in Eid |-> 0] \in [Eid -> Int] /\ MAX_EID \in 0 .. MAX_EID
      BY DEF MAX_EID
    <2>4. TypeOK'
      BY <2>1, <2>2, <2>3, Zenon DEF TypeOK, globals, txns
    <2> QED
      BY <2>1, <2>4, Zenon DEF TypeOK, QueueAboveBound, PublishesEpoch
  <1>3. ASSUME NEW x \in Txn, BeginTransaction(x) PROVE TypeInv'
    <2>1. CASE IsolationOf[x] = "SERIALIZABLE"
      <3>1. /\ pc' = [pc EXCEPT ![x] = "enter"]
            /\ ts_type' = [ts_type EXCEPT ![x] = "READ"]
            /\ epoch_id' = [epoch_id EXCEPT ![x] = current_global_epoch_id_]
            /\ UNCHANGED <<globals, locals, read_id_, commit_id_, sweeps>>
        BY <1>3, <2>1, Zenon DEF BeginTransaction, Goto
      <3> QED
        BY <3>1, Zenon DEF TypeOK, QueueAboveBound, PublishesEpoch, globals, locals, sweeps
    <2>2. CASE IsolationOf[x] # "SERIALIZABLE"
      <3>1. /\ pc' = [pc EXCEPT ![x] = "enter"]
            /\ ts_type' = [ts_type EXCEPT ![x] = "SNAPSHOT_READ"]
            /\ epoch_id' = [epoch_id EXCEPT ![x] = snapshot_global_epoch_id_]
            /\ UNCHANGED <<globals, locals, read_id_, commit_id_, sweeps>>
        BY <1>3, <2>2, Zenon DEF BeginTransaction, Goto
      <3> QED
        BY <3>1, Zenon DEF TypeOK, QueueAboveBound, PublishesEpoch, globals, locals, sweeps
    <2> QED
      BY <2>1, <2>2, Zenon
  <1>4. ASSUME NEW x \in Txn, EnterEpoch(x) PROVE TypeInv'
    <2> DEFINE t == ThreadOf[x]
               e == epoch_id[x]
    <2>1. t \in Thread /\ e \in Eid
      BY Zenon DEF TypeOK
    <2> DEFINE b == IF epoch_id_lower_bound_[t] >= e THEN e - 1 ELSE epoch_id_lower_bound_[t]
    <2>2. b \in 0 .. MAX_EID /\ b < e /\ b <= epoch_id_lower_bound_[t]
      BY <2>1 DEF TypeOK, Eid, MAX_EID
    <2>3. epoch_id_lower_bound_' = [epoch_id_lower_bound_ EXCEPT ![t] = b]
      BY <1>4, Zenon DEF EnterEpoch, LocalEnter
    <2> HIDE DEF b
    <2>4. CASE ts_type[x] = "COMMIT"
      <3>1. epoch_queue_' = epoch_queue_ /\ txn_count_' = txn_count_
        BY <1>4, <2>4, Zenon DEF EnterEpoch, LocalEnter
      <3>2. TypeOK'
        BY <1>4, <2>1, <2>2, <2>3, <3>1, Zenon DEF EnterEpoch, Goto, TypeOK, globals, sweeps
      <3>3. QueueAboveBound'
        <4> SUFFICES ASSUME NEW u \in Thread, NEW f \in epoch_queue_[u]
                     PROVE  epoch_id_lower_bound_'[u] < f
          BY <3>1, Zenon DEF QueueAboveBound
        <4>1. f \in Int /\ epoch_id_lower_bound_[u] \in Int /\ epoch_id_lower_bound_[u] < f
          BY DEF TypeOK, QueueAboveBound, Eid, MAX_EID
        <4> QED
          BY <2>1, <2>2, <2>3, <4>1 DEF TypeOK, Eid, MAX_EID
      <3> QED
        BY <1>4, <3>2, <3>3, Zenon DEF EnterEpoch, PublishesEpoch, sweeps
    <2>5. CASE ts_type[x] # "COMMIT"
      <3>1. /\ epoch_queue_' = [epoch_queue_ EXCEPT ![t] = @ \cup {e}]
            /\ txn_count_' = [txn_count_ EXCEPT ![t][e] = @ + 1]
        BY <1>4, <2>5, Zenon DEF EnterEpoch, LocalEnter
      <3>2. TypeOK'
        BY <1>4, <2>1, <2>2, <2>3, <3>1 DEF EnterEpoch, Goto, TypeOK, globals, sweeps
      <3>3. QueueAboveBound'
        <4> SUFFICES ASSUME NEW u \in Thread, NEW f \in epoch_queue_'[u]
                     PROVE  epoch_id_lower_bound_'[u] < f
          BY Zenon DEF QueueAboveBound
        <4>1. CASE u = t /\ f = e
          BY <2>1, <2>2, <2>3, <4>1, Zenon DEF TypeOK
        <4>2. CASE f \in epoch_queue_[u]
          <5>1. f \in Int /\ epoch_id_lower_bound_[u] \in Int /\ epoch_id_lower_bound_[u] < f
            BY <4>2 DEF TypeOK, QueueAboveBound, Eid, MAX_EID
          <5> QED
            BY <2>1, <2>2, <2>3, <5>1 DEF TypeOK, Eid, MAX_EID
        <4> QED
          BY <2>1, <3>1, <4>1, <4>2, Zenon DEF TypeOK
      <3> QED
        BY <1>4, <3>2, <3>3, Zenon DEF EnterEpoch, PublishesEpoch, sweeps
    <2> QED
      BY <2>4, <2>5, Zenon
  <1>5. ASSUME NEW x \in Txn, RetryEnter(x) PROVE TypeInv'
    BY <1>5, Zenon DEF RetryEnter, Goto, TypeOK, QueueAboveBound, PublishesEpoch,
                globals, locals, sweeps
  <1>6. ASSUME NEW x \in Txn, RereadEpoch(x) PROVE TypeInv'
    BY <1>6, Zenon DEF RereadEpoch, Goto, TypeOK, QueueAboveBound, PublishesEpoch,
                globals, locals, sweeps
  <1>7. ASSUME NEW x \in Txn, TakeTransactionId(x) PROVE TypeInv'
    <2>0. epoch_id[x] \in Nat /\ CidShift \in Nat /\ next_txn_id_ \in Nat
      BY DEF TypeOK, Eid
    <2>1. epoch_id[x] * CidShift + next_txn_id_ \in Nat
      BY ONLY <2>0
    <2>2. (next_txn_id_ + 1) % CidShift \in 0 .. CidShift - 1
      BY DEF TypeOK
    <2> QED
      BY <1>7, <2>1, <2>2, Zenon DEF TakeTransactionId, Goto, TypeOK, QueueAboveBound,
                              PublishesEpoch, Cid, locals, sweeps
  <1>8. ASSUME NEW x \in Txn, ReturnSnapshot(x) PROVE TypeInv'
    <2>0. snapshot_global_epoch_id_ \in Nat /\ CidShift \in Nat
      BY DEF TypeOK, Eid
    <2>1. snapshot_global_epoch_id_ * CidShift \in Nat
      BY ONLY <2>0
    <2>2. CASE IsolationOf[x] = "SNAPSHOT"
      BY <1>8, <2>1, <2>2, ZenonT(30) DEF ReturnSnapshot, Goto, TypeOK, QueueAboveBound, PublishesEpoch,
                              Cid, globals, locals, sweeps
    <2>3. CASE IsolationOf[x] # "SNAPSHOT"
      <3>1. /\ pc' = [pc EXCEPT ![x] = "active"]
            /\ read_id_' = [read_id_ EXCEPT ![x] = snapshot_global_epoch_id_ * CidShift]
            /\ commit_id_' = [commit_id_ EXCEPT ![x] = snapshot_global_epoch_id_ * CidShift]
            /\ UNCHANGED <<globals, locals, ts_type, epoch_id, sweeps>>
        BY <1>8, <2>3, Zenon DEF ReturnSnapshot, Goto
      <3> QED
        BY <2>1, <3>1, Zenon DEF TypeOK, QueueAboveBound, PublishesEpoch, Cid, globals, locals, sweeps
    <2> QED
      BY <2>2, <2>3, Zenon
  <1>9. ASSUME NEW x \in Txn, EndTransaction(x) PROVE TypeInv'
    <2> DEFINE t == ThreadOf[x]
               e == EpochOf(x)
               count == [txn_count_[t] EXCEPT ![e] = @ - 1]
    <2>1. t \in Thread /\ e \in Eid /\ count \in [Eid -> Int]
      BY <1>9 DEF EndTransaction, TypeOK
    <2>2. /\ \A f \in epoch_queue_[t] : epoch_id_lower_bound_[t] < f
          /\ epoch_queue_[t] \in SUBSET Eid
          /\ epoch_id_lower_bound_[t] \in 0 .. MAX_EID
      BY <2>1, Zenon DEF TypeOK, QueueAboveBound
    <2> DEFINE q == Popped(epoch_queue_[t], count)
               b == BoundBelowTop(epoch_id_lower_bound_[t], epoch_queue_[t], count)
    <2>3. /\ \A f \in q : b < f
          /\ b \in 0 .. MAX_EID
          /\ q \in SUBSET Eid
      BY <2>1, <2>2, BoundBelowTopLemma, ZenonT(30)
    <2>4. /\ txn_count_' = [txn_count_ EXCEPT ![t] = count]
          /\ epoch_queue_' = [epoch_queue_ EXCEPT ![t] = q]
          /\ epoch_id_lower_bound_' = [epoch_id_lower_bound_ EXCEPT ![t] = b]
      BY <1>9, Zenon DEF EndTransaction, LocalExit
    <2>5. TypeOK'
      <3> HIDE DEF q, b, count, t
      <3>1. /\ pc' = [pc EXCEPT ![x] = "idle"]
            /\ read_id_' = [read_id_ EXCEPT ![x] = 0]
            /\ commit_id_' = [commit_id_ EXCEPT ![x] = 0]
            /\ epoch_id' = [epoch_id EXCEPT ![x] = 1]
            /\ UNCHANGED <<globals, registered, ts_type, sweeps>>
        BY <1>9, Zenon DEF EndTransaction, Goto
      <3>2. 1 \in Eid
        BY DEF Eid
      <3> QED
        BY <2>1, <2>3, <2>4, <3>1, <3>2, Zenon DEF TypeOK, Cid, globals, sweeps
    <2>6. QueueAboveBound'
      <3> HIDE DEF q, b, count, t
      <3> QED
        BY <2>1, <2>3, <2>4, Zenon DEF TypeOK, QueueAboveBound
    <2> QED
      BY <1>9, <2>5, <2>6, ZenonT(30) DEF EndTransaction, PublishesEpoch, sweeps
  <1>10. ASSUME NEW s \in Sweeper, BeginSweep(s) PROVE TypeInv'
    BY <1>10, Zenon DEF BeginSweep, TypeOK, QueueAboveBound, PublishesEpoch, MAX_EID,
                 globals, locals, txns
  <1>11. ASSUME NEW s \in Sweeper, ObserveEpoch(s) PROVE TypeInv'
    BY <1>11, Zenon DEF ObserveEpoch, TypeOK, QueueAboveBound, PublishesEpoch,
                 globals, locals, txns
  <1>12. ASSUME NEW s \in Sweeper, VisitLocalEpoch(s) PROVE TypeInv'
    <2> PICK t \in todo[s] :
          LET eid == LocalExpired(t, observed[s])
          IN  /\ epoch_id_lower_bound_' = [epoch_id_lower_bound_ EXCEPT ![t] = eid]
              /\ epoch_queue_' = [epoch_queue_ EXCEPT ![t] = Popped(@, txn_count_[t])]
              /\ todo' = [todo EXCEPT ![s] = @ \ {t}]
              /\ global_expired_eid' =
                   [global_expired_eid EXCEPT ![s] = IF eid < @ THEN eid ELSE @]
      BY <1>12, ZenonT(30) DEF VisitLocalEpoch
    <2> DEFINE eid == LocalExpired(t, observed[s])
               q == Popped(epoch_queue_[t], txn_count_[t])
    <2>1. /\ t \in Thread /\ observed[s] \in Eid
          /\ \A f \in epoch_queue_[t] : epoch_id_lower_bound_[t] < f
          /\ epoch_queue_[t] \in SUBSET Eid
          /\ txn_count_[t] \in [Eid -> Int]
          /\ epoch_id_lower_bound_[t] \in 0 .. MAX_EID
      BY Zenon DEF TypeOK, QueueAboveBound
    <2>2. /\ eid \in 0 .. MaxEpoch - 1
          /\ \A f \in q : eid < f
          /\ q \in SUBSET Eid
      <3>1. CASE epoch_queue_[t] = {}
        BY <2>1, <3>1 DEF LocalExpired, Popped, Eid
      <3>2. CASE epoch_queue_[t] # {}
        BY <2>1, <3>2, BoundBelowTopLemma, ZenonT(30) DEF LocalExpired
      <3> QED
        BY <3>1, <3>2, Zenon
    <2> HIDE DEF eid, q
    <2>3. TypeOK'
      BY <1>12, <2>1, <2>2 DEF VisitLocalEpoch, TypeOK, eid, q, MAX_EID, globals, txns
    <2>4. QueueAboveBound'
      BY <2>1, <2>2, Zenon DEF TypeOK, QueueAboveBound, eid, q
    <2>5. PublishesEpoch'
      BY <1>12, <2>2 DEF VisitLocalEpoch, TypeOK, PublishesEpoch, eid, MAX_EID
    <2> QED
      BY <2>3, <2>4, <2>5, Zenon
  <1>13. ASSUME NEW s \in Sweeper, EndSweep(s) PROVE TypeInv'
    <2>1. CASE SnapshotBehind(s)
      BY <1>13, <2>1, ZenonT(30) DEF EndSweep, SnapshotBehind, TypeOK, QueueAboveBound, PublishesEpoch,
                         globals, locals, txns
    <2>2. CASE ~SnapshotBehind(s)
      BY <1>13, <2>2, SMTT(40) DEF EndSweep, Return, TypeOK, QueueAboveBound, PublishesEpoch,
                         MAX_EID, globals, locals, txns
    <2> QED
      BY <2>1, <2>2, Zenon
  <1>14. ASSUME NEW s \in Sweeper, PublishSnapshot(s) PROVE TypeInv'
    BY <1>14 DEF PublishSnapshot, Return, TypeOK, QueueAboveBound, PublishesEpoch,
                 Eid, MAX_EID, locals, txns
  <1>15. CASE UNCHANGED vars
    BY <1>15, Zenon DEF vars, globals, locals, txns, sweeps, TypeOK, QueueAboveBound, PublishesEpoch
  <1> QED
    BY <1>1, <1>2, <1>3, <1>4, <1>5, <1>6, <1>7, <1>8, <1>9, <1>10, <1>11, <1>12, <1>13,
       <1>14, <1>15, Zenon DEF Next, TxnStep, SweepStep

\* For every number of threads, transactions, sweepers and epochs: the types,
\* and the assertion in ExitEpoch and GetExpiredEpochId of LocalEpoch, hold.
THEOREM QueueStaysAboveBound == Spec => [](TypeOK /\ QueueAboveBound)
PROOF
  <1>1. TypeInv => TypeOK /\ QueueAboveBound
    BY Zenon DEF TypeInv
  <1> QED
    BY <1>1, TypeInvInit, TypeInvStep, PTL DEF Spec

-----------------------------------------------------------------------------
(* Guarded transactions read the current epoch, whatever the others do. *)

LEMMA GuardedReads ==
  ASSUME NEW x \in Guarded
  PROVE  x \in Txn /\ ReadWrite(ThreadOf[x]) /\ IsolationOf[x] = "SERIALIZABLE"
  BY Zenon DEF Guarded, ReadWrite

LEMMA ReadTimestampsInit == Init => ReadTimestamps
  BY GuardedReads, Zenon DEF Init, ReadTimestamps

LEMMA ReadTimestampsStep ==
  TypeInv /\ ReadTimestamps /\ [Next]_vars => ReadTimestamps'
PROOF
  <1> SUFFICES ASSUME TypeInv, ReadTimestamps, [Next]_vars
               PROVE  ReadTimestamps'
    BY Zenon
  <1> USE GuardedReads DEF ReadTimestamps
  <1>1. CASE AdvanceEpoch
    BY <1>1, Zenon DEF AdvanceEpoch, locals, txns
  <1>2. ASSUME NEW t \in Thread, RegisterThread(t) PROVE ReadTimestamps'
    BY <1>2, Zenon DEF RegisterThread, txns
  <1>3. ASSUME NEW x \in Txn, TxnStep(x) PROVE ReadTimestamps'
    <2> USE DEF TypeInv, TypeOK, Goto
    <2>1. CASE BeginTransaction(x)
      BY <2>1, Zenon DEF BeginTransaction, locals
    <2>2. CASE EnterEpoch(x)
      BY <2>2, Zenon DEF EnterEpoch
    <2>3. CASE RetryEnter(x)
      BY <2>3, Zenon DEF RetryEnter, locals
    <2>4. CASE RereadEpoch(x)
      BY <2>4, Zenon DEF RereadEpoch, locals
    <2>5. CASE TakeTransactionId(x)
      BY <2>5, Zenon DEF TakeTransactionId, locals
    <2>6. CASE ReturnSnapshot(x)
      BY <2>6, Zenon DEF ReturnSnapshot, locals
    <2>7. CASE EndTransaction(x)
      BY <2>7, Zenon DEF EndTransaction
    <2> QED
      BY <1>3, <2>1, <2>2, <2>3, <2>4, <2>5, <2>6, <2>7, ZenonT(30) DEF TxnStep
  <1>4. ASSUME NEW s \in Sweeper, SweepStep(s) PROVE ReadTimestamps'
    BY <1>4, ZenonT(30) DEF SweepStep, BeginSweep, ObserveEpoch, VisitLocalEpoch, EndSweep,
                PublishSnapshot, locals, txns
  <1>5. CASE UNCHANGED vars
    BY <1>5, Zenon DEF vars, locals, txns
  <1> QED
    BY <1>1, <1>2, <1>3, <1>4, <1>5, Zenon DEF Next

-----------------------------------------------------------------------------
(* Clock: nothing is ahead of the global epoch. *)

LEMMA ClockInvInit == Init => ClockInv
  BY BoundAssumption DEF Init, ClockInv, ExpiredIsPast

\* What a visit makes of the bound of a LocalEpoch.
LEMMA LocalExpiredLemma ==
  ASSUME TypeInv, NEW t \in Thread, NEW e \in Eid
  PROVE  /\ LocalExpired(t, e) \in 0 .. MaxEpoch - 1
         /\ epoch_queue_[t] = {} => LocalExpired(t, e) = e - 1
         /\ epoch_queue_[t] # {} =>
              /\ LocalExpired(t, e) >= epoch_id_lower_bound_[t]
              /\ \/ LocalExpired(t, e) = epoch_id_lower_bound_[t]
                 \/ \E f \in epoch_queue_[t] : txn_count_[t][f] # 0 /\ LocalExpired(t, e) = f - 1
PROOF
  <1>1. /\ \A f \in epoch_queue_[t] : epoch_id_lower_bound_[t] < f
        /\ epoch_queue_[t] \in SUBSET Eid
        /\ txn_count_[t] \in [Eid -> Int]
        /\ epoch_id_lower_bound_[t] \in 0 .. MAX_EID
    BY Zenon DEF TypeInv, TypeOK, QueueAboveBound
  <1>2. CASE epoch_queue_[t] = {}
    BY <1>2, BoundAssumption DEF LocalExpired, Eid
  <1>3. CASE epoch_queue_[t] # {}
    <2> DEFINE b == BoundBelowTop(epoch_id_lower_bound_[t], epoch_queue_[t], txn_count_[t])
               T == Tops(epoch_queue_[t], txn_count_[t])
    <2>1. LocalExpired(t, e) = b
      BY <1>3, Zenon DEF LocalExpired
    <2>2. b \in 0 .. MaxEpoch - 1 /\ b >= epoch_id_lower_bound_[t]
      BY <1>1, <1>3, BoundBelowTopLemma, ZenonT(30)
    <2>3. b = epoch_id_lower_bound_[t] \/ \E f \in T : b = f - 1
      BY ZenonT(30) DEF BoundBelowTop
    <2>4. \A f \in T : f \in epoch_queue_[t] /\ txn_count_[t][f] # 0
      BY Zenon DEF Tops
    <2> HIDE DEF b, T
    <2> QED
      BY <1>3, <2>1, <2>2, <2>3, <2>4, Zenon
  <1> QED
    BY <1>2, <1>3, Zenon

\* The bound an exit leaves, likewise.
LEMMA LocalExitLemma ==
  ASSUME TypeInv, NEW t \in Thread, NEW e \in epoch_queue_[t], LocalExit(t, e)
  PROVE  /\ epoch_id_lower_bound_' =
              [epoch_id_lower_bound_ EXCEPT ![t] = epoch_id_lower_bound_'[t]]
         /\ epoch_id_lower_bound_'[t] \in 0 .. MaxEpoch - 1
         /\ epoch_id_lower_bound_'[t] >= epoch_id_lower_bound_[t]
         /\ \/ epoch_id_lower_bound_'[t] = epoch_id_lower_bound_[t]
            \/ \E f \in epoch_queue_[t] :
                 txn_count_'[t][f] # 0 /\ epoch_id_lower_bound_'[t] = f - 1
PROOF
  <1> DEFINE count == [txn_count_[t] EXCEPT ![e] = @ - 1]
             q == epoch_queue_[t]
             b == BoundBelowTop(epoch_id_lower_bound_[t], q, count)
             T == Tops(q, count)
  <1>1. /\ \A f \in q : epoch_id_lower_bound_[t] < f
        /\ q \in SUBSET Eid
        /\ count \in [Eid -> Int]
        /\ epoch_id_lower_bound_[t] \in 0 .. MAX_EID
    BY DEF TypeInv, TypeOK, QueueAboveBound
  <1>2. b \in 0 .. MaxEpoch - 1 /\ b >= epoch_id_lower_bound_[t]
    BY <1>1, BoundBelowTopLemma, ZenonT(30)
  <1>3. b = epoch_id_lower_bound_[t] \/ \E f \in T : b = f - 1
    BY ZenonT(30) DEF BoundBelowTop
  <1>4. \A f \in T : f \in q /\ count[f] # 0
    BY Zenon DEF Tops
  <1>5. /\ txn_count_' = [txn_count_ EXCEPT ![t] = count]
        /\ epoch_id_lower_bound_' = [epoch_id_lower_bound_ EXCEPT ![t] = b]
    BY Zenon DEF LocalExit
  <1> HIDE DEF b, T, count
  <1>6. txn_count_'[t] = count /\ epoch_id_lower_bound_'[t] = b
    BY <1>5, Zenon DEF TypeInv, TypeOK
  <1> QED
    BY <1>2, <1>3, <1>4, <1>5, <1>6, ZenonT(30)

\* The numbers that ClockInv compares.
LEMMA ClockTypes ==
  ASSUME TypeInv
  PROVE  /\ current_global_epoch_id_ \in Nat /\ MaxEpoch \in Nat /\ MAX_EID = MaxEpoch + 1
         /\ current_global_epoch_id_ >= 1 /\ current_global_epoch_id_ <= MaxEpoch
         /\ snapshot_global_epoch_id_ \in Nat
         /\ \A t \in Thread : \A e \in epoch_queue_[t] : e \in Nat /\ e >= 1
         /\ \A x \in Txn : epoch_id[x] \in Nat
         /\ \A t \in Thread : epoch_id_lower_bound_[t] \in Nat
         /\ \A s \in Sweeper : observed[s] \in Nat /\ global_expired_eid[s] \in Nat
         /\ expired \in Nat
  BY BoundAssumption DEF TypeInv, TypeOK, Eid, MAX_EID

\* The timer: what was not ahead of the global epoch stays so.
LEMMA ClockAdvance ==
  ASSUME TypeInv, ClockInv, AdvanceEpoch
  PROVE  ClockInv'
PROOF
  <1> DEFINE e == current_global_epoch_id_
  <1>1. /\ e' = e + 1
        /\ UNCHANGED <<snapshot_global_epoch_id_, epoch_id, epoch_id_lower_bound_, epoch_queue_,
                       observed, global_expired_eid, expired>>
    BY Zenon DEF AdvanceEpoch, locals, txns, sweeps
  <1>2. /\ e \in Int /\ expired \in Int /\ snapshot_global_epoch_id_ \in Int
        /\ \A t \in Thread : \A f \in epoch_queue_[t] : f \in Int
        /\ \A x \in Txn : epoch_id[x] \in Int
        /\ \A t \in Thread : epoch_id_lower_bound_[t] \in Int
        /\ \A s \in Sweeper : observed[s] \in Int /\ global_expired_eid[s] \in Int
    BY ClockTypes
  <1>3. /\ \A x \in Txn : epoch_id[x] <= e + 1
        /\ snapshot_global_epoch_id_ <= e + 1
        /\ \A t \in Thread : \A f \in epoch_queue_[t] : f <= e + 1
        /\ \A t \in Thread : epoch_id_lower_bound_[t] = MAX_EID \/ epoch_id_lower_bound_[t] < e + 1
    BY <1>2 DEF ClockInv
  <1>4. /\ \A s \in Sweeper : observed[s] <= e + 1
        /\ \A s \in Sweeper : global_expired_eid[s] = MAX_EID \/ global_expired_eid[s] < e + 1
        /\ expired < e + 1
    BY <1>2 DEF ClockInv, ExpiredIsPast
  <1> QED
    BY <1>1, <1>3, <1>4, Zenon DEF ClockInv, ExpiredIsPast

\* A thread starts with a LocalEpoch never used.
LEMMA ClockRegister ==
  ASSUME TypeInv, ClockInv, NEW t \in Thread, RegisterThread(t)
  PROVE  ClockInv'
PROOF
  <1>1. /\ UNCHANGED <<globals, epoch_id, observed, global_expired_eid, expired>>
        /\ epoch_id_lower_bound_' = [epoch_id_lower_bound_ EXCEPT ![t] = MAX_EID]
        /\ epoch_queue_' = [epoch_queue_ EXCEPT ![t] = {}]
    BY Zenon DEF RegisterThread, txns
  <1> QED
    BY <1>1, Zenon DEF ClockInv, ExpiredIsPast, TypeInv, TypeOK, globals

\* A transaction takes its epoch from the global one or from the snapshot.
LEMMA ClockBegin ==
  ASSUME TypeInv, ClockInv, NEW x \in Txn,
         \/ BeginTransaction(x) \/ RetryEnter(x) \/ RereadEpoch(x)
         \/ TakeTransactionId(x) \/ ReturnSnapshot(x)
  PROVE  ClockInv'
PROOF
  <1>1. /\ UNCHANGED <<current_global_epoch_id_, snapshot_global_epoch_id_, locals, sweeps>>
        /\ \/ epoch_id' = epoch_id
           \/ epoch_id' = [epoch_id EXCEPT ![x] = current_global_epoch_id_]
           \/ epoch_id' = [epoch_id EXCEPT ![x] = snapshot_global_epoch_id_]
    BY ZenonT(30) DEF BeginTransaction, RetryEnter, RereadEpoch, TakeTransactionId, ReturnSnapshot,
                      globals
  <1>2. ASSUME NEW y \in Txn PROVE epoch_id'[y] <= current_global_epoch_id_
    <2>1. epoch_id[y] <= current_global_epoch_id_ /\ epoch_id \in [Txn -> Eid]
      BY Zenon DEF ClockInv, TypeInv, TypeOK
    <2>2. \/ epoch_id'[y] = epoch_id[y] \/ epoch_id'[y] = current_global_epoch_id_
          \/ epoch_id'[y] = snapshot_global_epoch_id_
      BY <1>1, <2>1, Zenon
    <2>3. current_global_epoch_id_ <= current_global_epoch_id_
      BY ClockTypes
    <2> QED
      BY <2>1, <2>2, <2>3, Zenon DEF ClockInv
  <1> QED
    BY <1>1, <1>2, Zenon DEF ClockInv, ExpiredIsPast, locals, sweeps

\* EnterEpoch lowers the bound below the entering epoch, which it queues.
LEMMA ClockEnter ==
  ASSUME TypeInv, ClockInv, NEW x \in Txn, EnterEpoch(x)
  PROVE  ClockInv'
PROOF
  <1> DEFINE t == ThreadOf[x]
             b == IF epoch_id_lower_bound_[t] >= epoch_id[x] THEN epoch_id[x] - 1
                                                              ELSE epoch_id_lower_bound_[t]
  <1>1. /\ UNCHANGED <<globals, epoch_id, sweeps>>
        /\ epoch_id_lower_bound_' = [epoch_id_lower_bound_ EXCEPT ![t] = b]
        /\ \/ epoch_queue_' = epoch_queue_
           \/ epoch_queue_' = [epoch_queue_ EXCEPT ![t] = @ \cup {epoch_id[x]}]
    BY Zenon DEF EnterEpoch, LocalEnter
  <1>2. b = MAX_EID \/ b < current_global_epoch_id_
    <2>1. t \in Thread
      BY TxnAssumption, Zenon
    <2>2. /\ epoch_id[x] \in Int /\ current_global_epoch_id_ \in Int
          /\ epoch_id_lower_bound_[t] \in Int
      BY <2>1, ClockTypes
    <2>3. /\ epoch_id[x] <= current_global_epoch_id_
          /\ \/ epoch_id_lower_bound_[t] = MAX_EID
             \/ epoch_id_lower_bound_[t] < current_global_epoch_id_
      BY <2>1, Zenon DEF ClockInv
    <2> QED
      BY <2>2, <2>3
  <1> HIDE DEF b
  <1>3. \A u \in Thread : \A e \in epoch_queue_'[u] : e \in epoch_queue_[u] \/ e = epoch_id[x]
    <2>1. epoch_queue_ \in [Thread -> SUBSET Eid]
      BY Zenon DEF TypeInv, TypeOK
    <2>2. CASE epoch_queue_' = epoch_queue_
      BY <2>2, Zenon
    <2>3. CASE epoch_queue_' = [epoch_queue_ EXCEPT ![t] = @ \cup {epoch_id[x]}]
      <3>1. \A u \in Thread : epoch_queue_'[u] = IF u = t THEN epoch_queue_[u] \cup {epoch_id[x]}
                                                           ELSE epoch_queue_[u]
        BY <2>1, <2>3, Zenon
      <3> QED
        BY <3>1, Zenon
    <2> QED
      BY <1>1, <2>2, <2>3, Zenon
  <1>4. \A u \in Thread : \A e \in epoch_queue_'[u] : e <= current_global_epoch_id_
    BY <1>3, Zenon DEF ClockInv
  <1> QED
    BY <1>1, <1>2, <1>4, Zenon DEF ClockInv, ExpiredIsPast, globals, sweeps, TypeInv, TypeOK

\* ExitEpoch moves the bound below an epoch of the queue, which it only pops.
LEMMA ClockExit ==
  ASSUME TypeInv, ClockInv, NEW x \in Txn, EndTransaction(x)
  PROVE  ClockInv'
PROOF
  <1> DEFINE t == ThreadOf[x]
             e == EpochOf(x)
  <1>1. t \in Thread /\ e \in epoch_queue_[t] /\ LocalExit(t, e)
    BY TxnAssumption, Zenon DEF EndTransaction
  <1>2. /\ UNCHANGED <<globals, sweeps>>
        /\ epoch_id' = [epoch_id EXCEPT ![x] = 1]
    BY ZenonT(30) DEF EndTransaction
  <1> HIDE DEF t, e
  <1>3. ASSUME NEW f \in epoch_queue_[t] PROVE f - 1 < current_global_epoch_id_
    <2>1. f <= current_global_epoch_id_
      BY <1>1, Zenon DEF ClockInv
    <2>2. f \in Int /\ current_global_epoch_id_ \in Int
      BY <1>1, ClockTypes
    <2> QED
      BY ONLY <2>1, <2>2
  <1>4. epoch_id_lower_bound_'[t] = MAX_EID \/ epoch_id_lower_bound_'[t] < current_global_epoch_id_
    <2>1. \/ epoch_id_lower_bound_'[t] = epoch_id_lower_bound_[t]
          \/ \E f \in epoch_queue_[t] : epoch_id_lower_bound_'[t] = f - 1
      BY <1>1, LocalExitLemma, Zenon
    <2>2. \/ epoch_id_lower_bound_[t] = MAX_EID
          \/ epoch_id_lower_bound_[t] < current_global_epoch_id_
      BY <1>1, Zenon DEF ClockInv
    <2> QED
      BY <1>3, <2>1, <2>2, Zenon
  <1>5. epoch_id_lower_bound_' = [epoch_id_lower_bound_ EXCEPT ![t] = epoch_id_lower_bound_'[t]]
    BY <1>1, LocalExitLemma, Zenon
  <1>6. ASSUME NEW y \in Txn PROVE epoch_id'[y] <= current_global_epoch_id_
    <2>1. epoch_id'[y] = epoch_id[y] \/ epoch_id'[y] = 1
      BY <1>2, Zenon DEF TypeInv, TypeOK
    <2>2. epoch_id[y] <= current_global_epoch_id_
      BY Zenon DEF ClockInv
    <2>3. 1 <= current_global_epoch_id_
      BY ClockTypes
    <2> QED
      BY <2>1, <2>2, <2>3, Zenon
  <1>7. ASSUME NEW u \in Thread
        PROVE  \/ epoch_id_lower_bound_'[u] = MAX_EID
               \/ epoch_id_lower_bound_'[u] < current_global_epoch_id_
    <2>1. u # t => epoch_id_lower_bound_'[u] = epoch_id_lower_bound_[u]
      BY <1>5, Zenon DEF TypeInv, TypeOK
    <2> QED
      BY <1>4, <2>1, Zenon DEF ClockInv
  <1>8. \A u \in Thread : epoch_queue_'[u] \subseteq epoch_queue_[u]
    <2>1. \E count : epoch_queue_' = [epoch_queue_ EXCEPT ![t] = Popped(epoch_queue_[t], count)]
      BY <1>1, Zenon DEF LocalExit
    <2> QED
      BY <2>1, Zenon DEF Popped, TypeInv, TypeOK
  <1> QED
    BY <1>2, <1>6, <1>7, <1>8, Zenon DEF ClockInv, ExpiredIsPast, globals, sweeps

\* A sweep starts and reads the global epoch.
LEMMA ClockObserve ==
  ASSUME TypeInv, ClockInv,
         NEW s \in Sweeper, BeginSweep(s) \/ ObserveEpoch(s)
  PROVE  ClockInv'
PROOF
  <1>1. /\ UNCHANGED <<globals, locals, epoch_id, expired>>
        /\ \/ observed' = observed
           \/ observed' = [observed EXCEPT ![s] = current_global_epoch_id_]
        /\ \/ global_expired_eid' = global_expired_eid
           \/ global_expired_eid' = [global_expired_eid EXCEPT ![s] = MAX_EID]
    BY Zenon DEF BeginSweep, ObserveEpoch, txns
  <1>2. ASSUME NEW r \in Sweeper
        PROVE  /\ observed'[r] <= current_global_epoch_id_
               /\ \/ global_expired_eid'[r] = MAX_EID
                  \/ global_expired_eid'[r] < current_global_epoch_id_
    <2>1. observed'[r] = observed[r] \/ observed'[r] = current_global_epoch_id_
      BY <1>1, Zenon DEF TypeInv, TypeOK
    <2>2. global_expired_eid'[r] = global_expired_eid[r] \/ global_expired_eid'[r] = MAX_EID
      BY <1>1, Zenon DEF TypeInv, TypeOK
    <2>3. /\ observed[r] <= current_global_epoch_id_
          /\ \/ global_expired_eid[r] = MAX_EID
             \/ global_expired_eid[r] < current_global_epoch_id_
      BY Zenon DEF ClockInv
    <2>4. current_global_epoch_id_ \in Int
      BY ClockTypes
    <2> QED
      BY <2>1, <2>2, <2>3, <2>4
  <1> QED
    BY <1>1, <1>2, Zenon DEF ClockInv, ExpiredIsPast, globals, locals

\* What a visit of t does: its LocalEpoch gives eid, the epoch before the one
\* the sweep read, before a queued one, or the bound as it is.
Visits(s, t, eid) ==
  /\ t \in todo[s]
  /\ \/ eid = observed[s] - 1
     \/ eid = epoch_id_lower_bound_[t]
     \/ \E f \in epoch_queue_[t] : eid = f - 1
  /\ eid = observed[s] - 1 \/ eid >= epoch_id_lower_bound_[t]
  /\ epoch_id_lower_bound_' = [epoch_id_lower_bound_ EXCEPT ![t] = eid]
  /\ todo' = [todo EXCEPT ![s] = @ \ {t}]
  /\ \/ global_expired_eid' = [global_expired_eid EXCEPT ![s] = eid] /\ eid < global_expired_eid[s]
     \/ global_expired_eid' = global_expired_eid /\ ~(eid < global_expired_eid[s])
  /\ sweep[s] = "visit" /\ sweep' = [sweep EXCEPT ![s] = "loop"]
  /\ \A u \in Thread : epoch_queue_'[u] \subseteq epoch_queue_[u]
  /\ UNCHANGED <<globals, registered, txns, observed, expired>>

LEMMA VisitLemma ==
  ASSUME TypeInv, NEW s \in Sweeper, VisitLocalEpoch(s)
  PROVE  \E t \in Thread : \E eid \in 0 .. MaxEpoch - 1 : Visits(s, t, eid)
PROOF
  <1>1. PICK t \in todo[s] :
          /\ epoch_id_lower_bound_' = [epoch_id_lower_bound_ EXCEPT ![t] = LocalExpired(t, observed[s])]
          /\ todo' = [todo EXCEPT ![s] = @ \ {t}]
          /\ global_expired_eid' =
               [global_expired_eid EXCEPT ![s] = IF LocalExpired(t, observed[s]) < @
                                                   THEN LocalExpired(t, observed[s]) ELSE @]
          /\ epoch_queue_' = [epoch_queue_ EXCEPT ![t] = Popped(@, txn_count_[t])]
    BY ZenonT(30) DEF VisitLocalEpoch
  <1>2. /\ t \in Thread /\ observed[s] \in Eid /\ epoch_queue_[t] \subseteq Eid
        /\ global_expired_eid = [global_expired_eid EXCEPT ![s] = global_expired_eid[s]]
    BY Zenon DEF TypeInv, TypeOK
  <1> DEFINE eid == LocalExpired(t, observed[s])
  <1>3. /\ eid \in 0 .. MaxEpoch - 1
        /\ epoch_queue_[t] = {} => eid = observed[s] - 1
        /\ epoch_queue_[t] # {} =>
             /\ eid >= epoch_id_lower_bound_[t]
             /\ \/ eid = epoch_id_lower_bound_[t]
                \/ \E f \in epoch_queue_[t] : txn_count_[t][f] # 0 /\ eid = f - 1
    BY <1>2, LocalExpiredLemma, ZenonT(30)
  <1>4. /\ epoch_id_lower_bound_' = [epoch_id_lower_bound_ EXCEPT ![t] = eid]
        /\ global_expired_eid' =
             [global_expired_eid EXCEPT ![s] = IF eid < global_expired_eid[s]
                                                 THEN eid ELSE global_expired_eid[s]]
    BY <1>1, Zenon
  <1>5. /\ sweep[s] = "visit" /\ sweep' = [sweep EXCEPT ![s] = "loop"]
        /\ UNCHANGED <<globals, registered, txns, observed, expired>>
    BY ZenonT(30) DEF VisitLocalEpoch
  <1>9. \A u \in Thread : epoch_queue_'[u] \subseteq epoch_queue_[u]
    BY <1>1, Zenon DEF Popped, TypeInv, TypeOK
  <1> HIDE DEF eid
  <1>6. \/ eid = observed[s] - 1
        \/ eid = epoch_id_lower_bound_[t]
        \/ \E f \in epoch_queue_[t] : eid = f - 1
    BY <1>2, <1>3, ZenonT(30)
  <1>7. \/ global_expired_eid' = [global_expired_eid EXCEPT ![s] = eid] /\ eid < global_expired_eid[s]
        \/ global_expired_eid' = global_expired_eid /\ ~(eid < global_expired_eid[s])
    BY <1>2, <1>4, Zenon
  <1>8. Visits(s, t, eid)
    BY <1>1, <1>3, <1>4, <1>5, <1>6, <1>7, <1>9, ZenonT(30) DEF Visits
  <1> QED
    BY <1>2, <1>3, <1>8, ZenonT(30)

\* A sweep takes the expired epoch of one LocalEpoch.
LEMMA ClockVisit ==
  ASSUME TypeInv, ClockInv,
         NEW s \in Sweeper, VisitLocalEpoch(s)
  PROVE  ClockInv'
PROOF
  <1>0. PICK t \in Thread, eid \in 0 .. MaxEpoch - 1 : Visits(s, t, eid)
    BY VisitLemma, Zenon
  <1>1. /\ eid \in Int /\ current_global_epoch_id_ \in Int /\ observed[s] \in Int
        /\ observed[s] <= current_global_epoch_id_
        /\ \/ epoch_id_lower_bound_[t] = MAX_EID
           \/ epoch_id_lower_bound_[t] < current_global_epoch_id_
    BY ClockTypes DEF ClockInv
  <1>2. eid < current_global_epoch_id_
    <2>1. CASE eid = observed[s] - 1
      BY <1>1, <2>1
    <2>2. CASE eid = epoch_id_lower_bound_[t]
      <3>1. eid # MAX_EID
        BY BoundAssumption DEF MAX_EID
      <3> QED
        BY <1>1, <2>2, <3>1, Zenon
    <2>3. ASSUME NEW f \in epoch_queue_[t], eid = f - 1
          PROVE  eid < current_global_epoch_id_
      <3>1. f <= current_global_epoch_id_
        BY Zenon DEF ClockInv
      <3>2. f \in Int
        BY ClockTypes
      <3> QED
        BY ONLY <1>1, <2>3, <3>1, <3>2
    <2> QED
      BY <1>0, <2>1, <2>2, <2>3, Zenon DEF Visits
  <1>3. /\ UNCHANGED <<globals, epoch_id, observed, expired>>
        /\ \A u \in Thread : epoch_queue_'[u] \subseteq epoch_queue_[u]
        /\ epoch_id_lower_bound_' = [epoch_id_lower_bound_ EXCEPT ![t] = eid]
        /\ \/ global_expired_eid' = global_expired_eid
           \/ global_expired_eid' = [global_expired_eid EXCEPT ![s] = eid]
    BY <1>0, Zenon DEF Visits, txns
  <1>4. ASSUME NEW u \in Thread
        PROVE  \/ epoch_id_lower_bound_'[u] = MAX_EID
               \/ epoch_id_lower_bound_'[u] < current_global_epoch_id_
    <2>1. epoch_id_lower_bound_'[u] = epoch_id_lower_bound_[u] \/ epoch_id_lower_bound_'[u] = eid
      BY <1>3, Zenon DEF TypeInv, TypeOK
    <2> QED
      BY <1>2, <2>1, ZenonT(30) DEF ClockInv
  <1>5. ASSUME NEW r \in Sweeper
        PROVE  \/ global_expired_eid'[r] = MAX_EID
               \/ global_expired_eid'[r] < current_global_epoch_id_
    <2>1. global_expired_eid'[r] = global_expired_eid[r] \/ global_expired_eid'[r] = eid
      BY <1>3, Zenon DEF TypeInv, TypeOK
    <2> QED
      BY <1>2, <2>1, Zenon DEF ClockInv
  <1> QED
    BY <1>3, <1>4, <1>5, Zenon DEF ClockInv, ExpiredIsPast, globals

\* A sweep returns its minimum.
LEMMA ClockReturn ==
  ASSUME TypeInv, ClockInv, NEW s \in Sweeper, EndSweep(s) \/ PublishSnapshot(s)
  PROVE  ClockInv'
PROOF
  <1>1. /\ UNCHANGED <<current_global_epoch_id_, locals, epoch_id, observed, global_expired_eid>>
        /\ \/ UNCHANGED expired
           \/ expired' = global_expired_eid[s] /\ global_expired_eid[s] # MAX_EID
        /\ \/ UNCHANGED snapshot_global_epoch_id_
           \/ /\ snapshot_global_epoch_id_' = global_expired_eid[s] + 1
              /\ sweep[s] = "publish"
    BY Zenon DEF EndSweep, PublishSnapshot, Return, globals, txns
  <1>2. expired' < current_global_epoch_id_
    BY <1>1, Zenon DEF ClockInv, ExpiredIsPast
  <1>3. sweep[s] = "publish" => global_expired_eid[s] + 1 <= current_global_epoch_id_
    <2>1. sweep[s] = "publish" => global_expired_eid[s] < current_global_epoch_id_
      BY Zenon DEF ClockInv, TypeInv, PublishesEpoch
    <2>2. global_expired_eid[s] \in Int /\ current_global_epoch_id_ \in Int
      BY ClockTypes
    <2> QED
      BY <2>1, <2>2
  <1>4. snapshot_global_epoch_id_' <= current_global_epoch_id_
    BY <1>1, <1>3, Zenon DEF ClockInv
  <1> QED
    BY <1>1, <1>2, <1>4, Zenon DEF ClockInv, ExpiredIsPast, locals

LEMMA ClockInvStep == TypeInv /\ ClockInv /\ [Next]_vars => ClockInv'
PROOF
  <1> SUFFICES ASSUME TypeInv, ClockInv, [Next]_vars PROVE ClockInv'
    BY Zenon
  <1>1. CASE AdvanceEpoch
    BY <1>1, ClockAdvance, Zenon
  <1>2. ASSUME NEW t \in Thread, RegisterThread(t) PROVE ClockInv'
    BY <1>2, ClockRegister, Zenon
  <1>3. ASSUME NEW x \in Txn,
               \/ BeginTransaction(x) \/ RetryEnter(x) \/ RereadEpoch(x)
               \/ TakeTransactionId(x) \/ ReturnSnapshot(x)
        PROVE  ClockInv'
    BY <1>3, ClockBegin, Zenon
  <1>4. ASSUME NEW x \in Txn, EnterEpoch(x) PROVE ClockInv'
    BY <1>4, ClockEnter, Zenon
  <1>6. ASSUME NEW x \in Txn, EndTransaction(x) PROVE ClockInv'
    BY <1>6, ClockExit, Zenon
  <1>7. ASSUME NEW s \in Sweeper, BeginSweep(s) \/ ObserveEpoch(s) PROVE ClockInv'
    BY <1>7, ClockObserve, Zenon
  <1>8. ASSUME NEW s \in Sweeper, VisitLocalEpoch(s) PROVE ClockInv'
    BY <1>8, ClockVisit, Zenon
  <1>9. ASSUME NEW s \in Sweeper, EndSweep(s) \/ PublishSnapshot(s) PROVE ClockInv'
    BY <1>9, ClockReturn, Zenon
  <1>10. CASE UNCHANGED vars
    BY <1>10, Zenon DEF vars, globals, locals, txns, sweeps, ClockInv, ExpiredIsPast
  <1> QED
    BY <1>1, <1>2, <1>3, <1>4, <1>6, <1>7, <1>8, <1>9, <1>10, Zenon
    DEF Next, TxnStep, SweepStep

-----------------------------------------------------------------------------
(* Sweeps: what is returned stays below the bounds that reject late entries. *)

LEMMA SweepInvInit == Init => SweepInv
PROOF
  <1> SUFFICES ASSUME Init PROVE SweepInv
    BY Zenon
  <1>1. \A t \in Thread : epoch_id_lower_bound_[t] = MAX_EID
    BY Zenon DEF Init
  <1>2. expired <= MAX_EID
    BY BoundAssumption DEF Init, MAX_EID
  <1>3. \A t \in Watched : t \in Thread
    BY Zenon DEF Init, Watched
  <1>4. \A x \in Txn : pc[x] # "enter"
    BY Zenon DEF Init
  <1>5. \A s \in Sweeper : sweep[s] = "idle"
    BY Zenon DEF Init
  <1> QED
    BY <1>1, <1>2, <1>3, <1>4, <1>5, Zenon DEF SweepInv, Closed

\* The numbers that SweepInv compares.
LEMMA SweepTypes ==
  ASSUME TypeInv
  PROVE  /\ MaxEpoch \in Nat /\ MAX_EID = MaxEpoch + 1 /\ expired \in Nat
         /\ current_global_epoch_id_ \in Nat
         /\ \A x \in Txn : epoch_id[x] \in Nat /\ epoch_id[x] >= 1 /\ epoch_id[x] <= MaxEpoch
         /\ \A t \in Thread : epoch_id_lower_bound_[t] \in Nat
         /\ \A s \in Sweeper : observed[s] \in Nat /\ global_expired_eid[s] \in Nat
  BY BoundAssumption DEF TypeInv, TypeOK, Eid, MAX_EID

LEMMA WatchedThreads ==
  ASSUME TypeInv, NEW t \in Watched
  PROVE  t \in Thread /\ t \in registered /\ ReadWrite(t)
  BY Zenon DEF Watched, TypeInv, TypeOK

\* Closed(t, e) after the step, for the e of before.
StillClosed(t, e) ==
  /\ e <= epoch_id_lower_bound_'[t]
  /\ epoch_id_lower_bound_'[t] = MAX_EID =>
       \A x \in Txn : ThreadOf[x] = t /\ pc'[x] = "enter" => e < epoch_id'[x]

\* What SweepInv says after the step.
LEMMA SweepInvAfter ==
  ASSUME \A t \in Watched' : StillClosed(t, expired'),
         \A s \in Sweeper :
           /\ sweep'[s] # "idle" =>
                \A t \in Watched' \ todo'[s] : /\ global_expired_eid'[s] # MAX_EID
                                               /\ StillClosed(t, global_expired_eid'[s])
           /\ sweep'[s] = "visit" => expired' < observed'[s]
           /\ sweep'[s] = "publish" => todo'[s] = {}
  PROVE  SweepInv'
  BY Zenon DEF SweepInv, Closed, StillClosed

\* An entry under way that reads an epoch reads a later one, and the entries of
\* other threads do not matter.
LEMMA ClosedBegin ==
  ASSUME TypeInv, NEW t \in Thread, ReadWrite(t), NEW e \in Nat, e < current_global_epoch_id_,
         Closed(t, e), NEW x \in Txn,
         \/ BeginTransaction(x) \/ RetryEnter(x) \/ RereadEpoch(x)
         \/ TakeTransactionId(x) \/ ReturnSnapshot(x)
  PROVE  StillClosed(t, e)
PROOF
  <1>1. /\ UNCHANGED epoch_id_lower_bound_
        /\ \E to : pc' = [pc EXCEPT ![x] = to]
        /\ \E to : epoch_id' = [epoch_id EXCEPT ![x] = to]
    <2>1. epoch_id = [epoch_id EXCEPT ![x] = epoch_id[x]]
      BY Zenon DEF TypeInv, TypeOK
    <2> QED
      BY <2>1, ZenonT(30)
      DEF BeginTransaction, RetryEnter, RereadEpoch, TakeTransactionId, ReturnSnapshot, Goto,
          locals
  <1>2. ASSUME NEW y \in Txn, ThreadOf[y] = t, pc'[y] = "enter"
        PROVE  \/ pc[y] = "enter" /\ epoch_id'[y] = epoch_id[y]
               \/ epoch_id'[y] = current_global_epoch_id_
    <2>1. CASE y # x
      BY <1>1, <1>2, <2>1, Zenon DEF TypeInv, TypeOK
    <2>2. CASE y = x
      <3>1. IsolationOf[x] = "SERIALIZABLE"
        BY <1>2, <2>2, Zenon DEF ReadWrite
      <3>2. BeginTransaction(x) \/ RereadEpoch(x)
        BY <1>2, <2>2, ZenonT(30)
        DEF RetryEnter, TakeTransactionId, ReturnSnapshot, Goto, TypeInv, TypeOK
      <3>3. epoch_id' = [epoch_id EXCEPT ![x] = current_global_epoch_id_]
        BY <3>1, <3>2, Zenon DEF BeginTransaction, RereadEpoch
      <3> QED
        BY <2>2, <3>3, Zenon DEF TypeInv, TypeOK
    <2> QED
      BY <2>1, <2>2, Zenon
  <1> QED
    BY <1>1, <1>2, Zenon DEF Closed, StillClosed

\* An entry that is let in leaves the bound, or sets a fresh one just below its
\* epoch, which is above what is closed.
LEMMA ClosedEnter ==
  ASSUME TypeInv, ReadTimestamps, NEW t \in Thread, ReadWrite(t), NEW e \in Nat, Closed(t, e),
         NEW x \in Txn, EnterEpoch(x)
  PROVE  StillClosed(t, e)
PROOF
  <1> DEFINE b == IF epoch_id_lower_bound_[ThreadOf[x]] >= epoch_id[x]
                    THEN epoch_id[x] - 1 ELSE epoch_id_lower_bound_[ThreadOf[x]]
  <1>1. /\ UNCHANGED epoch_id
        /\ pc[x] = "enter" /\ \E to \in {"snapid", "txnid"} : pc' = [pc EXCEPT ![x] = to]
        /\ epoch_id_lower_bound_' = [epoch_id_lower_bound_ EXCEPT ![ThreadOf[x]] = b]
        /\ ~EnterRejected(x)
    BY Zenon DEF EnterEpoch, LocalEnter, Goto
  <1>2. \A y \in Txn : pc'[y] = "enter" => pc[y] = "enter"
    BY <1>1, Zenon DEF TypeInv, TypeOK
  <1>3. CASE ThreadOf[x] # t
    <2>1. epoch_id_lower_bound_'[t] = epoch_id_lower_bound_[t]
      BY <1>1, <1>3, Zenon DEF TypeInv, TypeOK
    <2> QED
      BY <1>1, <1>2, <2>1, Zenon DEF Closed, StillClosed
  <1>4. CASE ThreadOf[x] = t
    <2>1. x \in Guarded /\ epoch_id_lower_bound_'[t] = b
      BY <1>1, <1>4, Zenon DEF Guarded, TypeInv, TypeOK
    <2>2. \/ epoch_id_lower_bound_[t] = MAX_EID
          \/ ~(epoch_id_lower_bound_[t] >= epoch_id[x])
      BY <1>1, <1>4, <2>1, Zenon DEF EnterRejected, ReadTimestamps
    <2>3. e <= epoch_id_lower_bound_[t] /\ (epoch_id_lower_bound_[t] = MAX_EID => e < epoch_id[x])
      BY <1>1, <1>4, Zenon DEF Closed, StillClosed
    <2>4. /\ epoch_id[x] \in Nat /\ epoch_id[x] <= MaxEpoch
          /\ epoch_id_lower_bound_[t] \in Nat /\ MaxEpoch \in Nat /\ MAX_EID = MaxEpoch + 1
      BY SweepTypes, Zenon
    <2>5. b = IF epoch_id_lower_bound_[t] >= epoch_id[x]
                THEN epoch_id[x] - 1 ELSE epoch_id_lower_bound_[t]
      BY <1>4, Zenon
    <2> HIDE DEF b
    <2>6. e <= b /\ b # MAX_EID
      BY ONLY <2>2, <2>3, <2>4, <2>5, e \in Nat
    <2> QED
      BY <2>1, <2>6, Zenon DEF Closed, StillClosed
  <1> QED
    BY <1>3, <1>4, Zenon

\* ExitEpoch never lowers the bound, and leaves no fresh one.
LEMMA ClosedExit ==
  ASSUME TypeInv, NEW t \in Thread, NEW e \in Nat, Closed(t, e),
         NEW x \in Txn, EndTransaction(x)
  PROVE  StillClosed(t, e)
PROOF
  <1> DEFINE u == ThreadOf[x]
  <1>1. /\ u \in Thread /\ EpochOf(x) \in epoch_queue_[u] /\ LocalExit(u, EpochOf(x))
        /\ pc' = [pc EXCEPT ![x] = "idle"] /\ epoch_id' = [epoch_id EXCEPT ![x] = 1]
    BY TxnAssumption, ZenonT(30) DEF EndTransaction, Goto
  <1>2. /\ epoch_id_lower_bound_' =
             [epoch_id_lower_bound_ EXCEPT ![u] = epoch_id_lower_bound_'[u]]
        /\ epoch_id_lower_bound_'[u] \in 0 .. MaxEpoch - 1
        /\ epoch_id_lower_bound_'[u] >= epoch_id_lower_bound_[u]
    BY <1>1, LocalExitLemma, ZenonT(30)
  <1>3. CASE t = u
    <2>1. MaxEpoch \in Nat /\ MAX_EID = MaxEpoch + 1 /\ epoch_id_lower_bound_[u] \in Nat
      BY <1>1, SweepTypes, Zenon
    <2>2. e <= epoch_id_lower_bound_[u]
      BY <1>3, Zenon DEF Closed, StillClosed
    <2> HIDE DEF u
    <2>3. e <= epoch_id_lower_bound_'[u] /\ epoch_id_lower_bound_'[u] # MAX_EID
      BY ONLY <1>2, <2>1, <2>2, e \in Nat
    <2> QED
      BY <1>3, <2>3, Zenon DEF Closed, StillClosed
  <1>4. CASE t # u
    <2>1. epoch_id_lower_bound_'[t] = epoch_id_lower_bound_[t]
      BY <1>2, <1>4, Zenon DEF TypeInv, TypeOK
    <2>2. \A y \in Txn : pc'[y] = "enter" => pc[y] = "enter" /\ epoch_id'[y] = epoch_id[y]
      BY <1>1, Zenon DEF TypeInv, TypeOK
    <2> QED
      BY <2>1, <2>2, Zenon DEF Closed, StillClosed
  <1> QED
    BY <1>3, <1>4, Zenon

\* Steps that leave the sweeps alone: what is closed stays closed.
LEMMA SweepKept ==
  ASSUME TypeInv, ClockInv, SweepInv, UNCHANGED <<registered, sweeps>>,
         \A t \in Thread, e \in Nat :
           ReadWrite(t) /\ e < current_global_epoch_id_ /\ Closed(t, e) => StillClosed(t, e)
  PROVE  SweepInv'
PROOF
  <1>1. UNCHANGED <<sweep, todo, observed, global_expired_eid, expired>> /\ Watched' = Watched
    BY Zenon DEF sweeps, Watched
  <1>2. expired \in Nat /\ \A s \in Sweeper : global_expired_eid[s] \in Nat
    BY SweepTypes, Zenon
  <1>3. ASSUME NEW t \in Watched PROVE StillClosed(t, expired')
    <2>1. expired < current_global_epoch_id_ /\ Closed(t, expired)
      BY Zenon DEF ClockInv, ExpiredIsPast, SweepInv
    <2>2. \A e \in Nat : e < current_global_epoch_id_ /\ Closed(t, e) => StillClosed(t, e)
      BY WatchedThreads, Zenon
    <2> QED
      BY <1>1, <1>2, <2>1, <2>2, Zenon
  <1>4. ASSUME NEW s \in Sweeper, NEW t \in Watched \ todo[s], sweep[s] # "idle"
        PROVE  global_expired_eid[s] # MAX_EID /\ StillClosed(t, global_expired_eid'[s])
    <2>1. global_expired_eid[s] # MAX_EID /\ Closed(t, global_expired_eid[s])
      BY <1>4, Zenon DEF SweepInv
    <2>2. global_expired_eid[s] < current_global_epoch_id_
      BY <2>1, Zenon DEF ClockInv
    <2>3. \A e \in Nat : e < current_global_epoch_id_ /\ Closed(t, e) => StillClosed(t, e)
      BY WatchedThreads, Zenon
    <2> QED
      BY <1>1, <1>2, <2>1, <2>2, <2>3, Zenon
  <1> QED
    BY <1>1, <1>3, <1>4, SweepInvAfter, Zenon DEF SweepInv

\* A new LocalEpoch closes every epoch, as no entry is under way, and the sweeps
\* that have no minimum yet will visit it.
LEMMA SweepRegister ==
  ASSUME ~MayMiss, TypeInv, SweepInv, NEW t \in Thread, RegisterThread(t)
  PROVE  SweepInv'
PROOF
  <1>1. /\ UNCHANGED <<sweep, observed, global_expired_eid, expired, pc, epoch_id>>
        /\ registered' = registered \cup {t}
        /\ epoch_id_lower_bound_' = [epoch_id_lower_bound_ EXCEPT ![t] = MAX_EID]
        /\ \A x \in Txn : ThreadOf[x] = t => pc[x] = "idle"
    BY Zenon DEF RegisterThread, txns
  <1>2. /\ epoch_id_lower_bound_'[t] = MAX_EID
        /\ \A u \in Thread : u # t => epoch_id_lower_bound_'[u] = epoch_id_lower_bound_[u]
    BY <1>1, Zenon DEF TypeInv, TypeOK
  <1>3. ASSUME NEW e, e <= MAX_EID PROVE StillClosed(t, e)
    <2>1. \A x \in Txn : ThreadOf[x] = t => pc'[x] # "enter"
      BY <1>1, Zenon
    <2> QED
      BY <1>2, <1>3, <2>1, Zenon DEF Closed, StillClosed
  <1>4. ASSUME NEW u \in Thread, u # t, NEW e, Closed(u, e) PROVE StillClosed(u, e)
    BY <1>1, <1>2, <1>4, Zenon DEF Closed, StillClosed
  <1>5. expired <= MAX_EID /\ \A s \in Sweeper : global_expired_eid[s] <= MAX_EID
    BY BoundAssumption DEF TypeInv, TypeOK, MAX_EID
  <1>6. ASSUME NEW u \in Watched' PROVE u \in Thread /\ (u # t => u \in Watched)
    BY <1>1, Zenon DEF Watched, TypeInv, TypeOK
  <1>7. ASSUME NEW u \in Watched' PROVE StillClosed(u, expired')
    BY <1>1, <1>3, <1>4, <1>5, <1>6, Zenon DEF SweepInv
  <1>8. ASSUME NEW s \in Sweeper, sweep[s] # "idle", NEW u \in Watched' \ todo'[s]
        PROVE  global_expired_eid[s] # MAX_EID /\ StillClosed(u, global_expired_eid'[s])
    <2>1. todo[s] \subseteq todo'[s]
      BY RegisterTodo, Zenon DEF TypeInv
    <2>2. CASE u # t
      <3>1. u \in Watched \ todo[s] /\ u \in Thread
        BY <1>6, <2>1, <2>2, Zenon
      <3>2. global_expired_eid[s] # MAX_EID /\ Closed(u, global_expired_eid[s])
        BY <1>8, <3>1, Zenon DEF SweepInv
      <3> QED
        BY <1>1, <1>4, <2>2, <3>1, <3>2, Zenon
    <2>3. CASE u = t /\ t \in registered
      <3>1. t \in Watched \ todo[s]
        BY <2>1, <2>3, Zenon DEF Watched
      <3>2. global_expired_eid[s] # MAX_EID
        BY <1>8, <3>1, Zenon DEF SweepInv
      <3> QED
        BY <1>1, <1>3, <1>5, <2>3, <3>2, Zenon
    <2>4. CASE u = t /\ t \notin registered
      <3>1. s \in Iterating \/ sweep[s] = "publish"
        BY <1>8, Zenon DEF Iterating, TypeInv, TypeOK
      <3>2. s \in Iterating => global_expired_eid[s] # MAX_EID
        BY <2>4, RegisterTodo, Zenon DEF TypeInv
      <3>3. global_expired_eid[s] # MAX_EID
        BY <3>1, <3>2, Zenon DEF TypeInv, PublishesEpoch
      <3> QED
        BY <1>1, <1>3, <1>5, <2>4, <3>3, Zenon
    <2> QED
      BY <2>2, <2>3, <2>4, Zenon
  <1>9. ASSUME NEW s \in Sweeper, sweep[s] = "publish" PROVE todo'[s] = {}
    <2>1. s \notin Iterating
      BY <1>9, Zenon DEF Iterating
    <2> QED
      BY <1>9, <2>1, RegisterTodo, Zenon DEF TypeInv, SweepInv
  <1> QED
    BY <1>1, <1>7, <1>8, <1>9, SweepInvAfter, Zenon DEF SweepInv

\* A sweep starts with the largest minimum, and all threads to visit.
LEMMA SweepBegin ==
  ASSUME SingleSweep, TypeInv, SweepInv, NEW s \in Sweeper, BeginSweep(s)
  PROVE  SweepInv'
PROOF
  <1>1. /\ sweep'[s] = "loop" /\ todo'[s] = registered
        /\ UNCHANGED <<registered, epoch_id_lower_bound_, pc, epoch_id, expired>>
    BY Zenon DEF BeginSweep, locals, txns, TypeInv, TypeOK
  <1>2. \A r \in Sweeper : r = s
    BY Zenon DEF SingleSweep
  <1>3. Watched' = Watched /\ Watched \ todo'[s] = {}
    BY <1>1, Zenon DEF Watched
  <1>4. \A t \in Watched : StillClosed(t, expired')
    BY <1>1, Zenon DEF SweepInv, Closed, StillClosed
  <1> QED
    BY <1>1, <1>2, <1>3, <1>4, SweepInvAfter, ZenonT(30)

\* A sweep reads the global epoch.
LEMMA SweepObserve ==
  ASSUME SingleSweep, TypeInv, ClockInv, SweepInv, NEW s \in Sweeper, ObserveEpoch(s)
  PROVE  SweepInv'
PROOF
  <1>1. /\ sweep[s] # "idle" /\ sweep'[s] = "visit" /\ observed'[s] = current_global_epoch_id_
        /\ UNCHANGED <<registered, epoch_id_lower_bound_, pc, epoch_id, todo,
                       global_expired_eid, expired>>
    BY Zenon DEF ObserveEpoch, locals, txns, TypeInv, TypeOK
  <1>2. expired < observed'[s]
    BY <1>1, Zenon DEF ClockInv, ExpiredIsPast
  <1>3. \A r \in Sweeper : r = s
    BY Zenon DEF SingleSweep
  <1>4. Watched' = Watched
    BY <1>1, Zenon DEF Watched
  <1>5. \A t \in Watched : StillClosed(t, expired')
    BY <1>1, Zenon DEF SweepInv, Closed, StillClosed
  <1>6. \A t \in Watched \ todo[s] :
          global_expired_eid[s] # MAX_EID /\ StillClosed(t, global_expired_eid'[s])
    BY <1>1, Zenon DEF SweepInv, Closed, StillClosed
  <1> QED
    BY <1>1, <1>2, <1>3, <1>4, <1>5, <1>6, SweepInvAfter, ZenonT(30)

\* A sweep raises one bound, and lowers its minimum to it.
LEMMA SweepVisit ==
  ASSUME SingleSweep, TypeInv, SweepInv, NEW s \in Sweeper, VisitLocalEpoch(s)
  PROVE  SweepInv'
PROOF
  <1>0. PICK t \in Thread, eid \in 0 .. MaxEpoch - 1 : Visits(s, t, eid)
    BY VisitLemma, Zenon
  <1>1. /\ eid \in Int /\ expired \in Int /\ observed[s] \in Int
        /\ epoch_id_lower_bound_[t] \in Int /\ global_expired_eid[s] \in Int
        /\ eid < MAX_EID /\ MAX_EID \in Int
    BY SweepTypes
  <1>2. eid # MAX_EID
    BY ONLY <1>1
  <1>3. /\ UNCHANGED <<registered, pc, epoch_id, expired>>
        /\ epoch_id_lower_bound_' = [epoch_id_lower_bound_ EXCEPT ![t] = eid]
        /\ todo' = [todo EXCEPT ![s] = @ \ {t}]
        /\ sweep[s] = "visit" /\ sweep' = [sweep EXCEPT ![s] = "loop"]
        /\ eid = observed[s] - 1 \/ eid >= epoch_id_lower_bound_[t]
    BY <1>0, ZenonT(30) DEF Visits, txns
  <1>4. t \in Watched => expired <= eid
    <2>1. expired < observed[s] /\ (t \in Watched => expired <= epoch_id_lower_bound_[t])
      BY <1>3, Zenon DEF SweepInv, Closed, StillClosed
    <2> QED
      BY ONLY <1>1, <1>3, <2>1
  <1>5. epoch_id_lower_bound_'[t] = eid
        /\ \A u \in Thread : u # t => epoch_id_lower_bound_'[u] = epoch_id_lower_bound_[u]
    BY <1>3, Zenon DEF TypeInv, TypeOK
  <1>6. Watched' = Watched /\ \A u \in Watched : u \in Thread
    BY <1>3, WatchedThreads, Zenon DEF Watched
  <1>7. \A r \in Sweeper : r = s
    BY Zenon DEF SingleSweep
  <1>8. ASSUME NEW u \in Watched PROVE StillClosed(u, expired')
    <2>1. CASE u = t
      BY <1>2, <1>3, <1>4, <1>5, <2>1, Zenon DEF Closed, StillClosed
    <2>2. CASE u # t
      BY <1>3, <1>5, <1>6, <2>2, Zenon DEF SweepInv, Closed, StillClosed
    <2> QED
      BY <2>1, <2>2, Zenon
  <1>9. /\ global_expired_eid'[s] \in Int /\ global_expired_eid'[s] # MAX_EID
        /\ global_expired_eid'[s] <= eid /\ global_expired_eid'[s] <= global_expired_eid[s]
    <2>1. \/ global_expired_eid'[s] = eid /\ eid < global_expired_eid[s]
          \/ global_expired_eid'[s] = global_expired_eid[s] /\ ~(eid < global_expired_eid[s])
      BY <1>0, Zenon DEF Visits, TypeInv, TypeOK
    <2> QED
      BY ONLY <1>1, <2>1
  <1>10. ASSUME NEW u \in Watched \ todo'[s] PROVE StillClosed(u, global_expired_eid'[s])
    <2>1. CASE u = t
      BY <1>2, <1>5, <1>9, <2>1, Zenon DEF Closed, StillClosed
    <2>2. CASE u # t
      <3>1. u \in Watched \ todo[s] /\ u \in Thread
        BY <1>3, <1>6, <2>2, Zenon DEF TypeInv, TypeOK
      <3>2. Closed(u, global_expired_eid[s])
        BY <1>3, <3>1, Zenon DEF SweepInv
      <3>3. /\ epoch_id_lower_bound_[u] \in Int
            /\ global_expired_eid[s] <= epoch_id_lower_bound_[u]
            /\ epoch_id_lower_bound_'[u] = epoch_id_lower_bound_[u]
        BY <1>5, <2>2, <3>1, <3>2, SweepTypes DEF Closed
      <3>4. global_expired_eid'[s] <= epoch_id_lower_bound_'[u]
        BY ONLY <1>1, <1>9, <3>3
      <3>5. ASSUME NEW x \in Txn, ThreadOf[x] = u, pc'[x] = "enter",
                   epoch_id_lower_bound_'[u] = MAX_EID
            PROVE  global_expired_eid'[s] < epoch_id'[x]
        <4>1. global_expired_eid[s] < epoch_id[x] /\ epoch_id'[x] = epoch_id[x]
          BY <1>3, <3>2, <3>3, <3>5, Zenon DEF Closed, StillClosed
        <4>2. epoch_id[x] \in Int
          BY SweepTypes
        <4> QED
          BY ONLY <1>1, <1>9, <4>1, <4>2
      <3> QED
        BY <3>4, <3>5, Zenon DEF Closed, StillClosed
    <2> QED
      BY <2>1, <2>2, Zenon
  <1>11. sweep'[s] = "loop"
    BY <1>3, Zenon DEF TypeInv, TypeOK
  <1> QED
    BY <1>6, <1>7, <1>8, <1>9, <1>10, <1>11, SweepInvAfter, Zenon

\* A sweep returns a minimum that is closed for every thread.
LEMMA SweepReturn ==
  ASSUME SingleSweep, TypeInv, SweepInv, NEW s \in Sweeper, EndSweep(s) \/ PublishSnapshot(s)
  PROVE  SweepInv'
PROOF
  <1>1. /\ UNCHANGED <<locals, txns, todo, observed, global_expired_eid>>
        /\ todo[s] = {} /\ sweep[s] # "idle"
        /\ \/ UNCHANGED expired /\ sweep'[s] \in {"publish", "idle"}
           \/ /\ expired' = global_expired_eid[s] /\ global_expired_eid[s] # MAX_EID
              /\ sweep'[s] = "idle"
    BY ZenonT(30) DEF EndSweep, PublishSnapshot, Return, SweepInv, TypeInv, TypeOK
  <1>2. \A r \in Sweeper : r = s
    BY Zenon DEF SingleSweep
  <1>3. Watched' = Watched
    BY <1>1, Zenon DEF Watched, locals
  <1>4. ASSUME NEW t \in Watched
        PROVE  /\ Closed(t, expired) /\ Closed(t, global_expired_eid[s])
               /\ global_expired_eid[s] # MAX_EID
    BY <1>1, ZenonT(30) DEF SweepInv
  <1>5. ASSUME NEW t \in Watched PROVE StillClosed(t, expired') /\ StillClosed(t, global_expired_eid'[s])
    <2>1. UNCHANGED <<epoch_id_lower_bound_, pc, epoch_id, global_expired_eid>>
      BY <1>1, Zenon DEF locals, txns
    <2>2. expired' = expired \/ expired' = global_expired_eid[s]
      BY <1>1, Zenon
    <2> QED
      BY <1>4, <2>1, <2>2, ZenonT(30) DEF Closed, StillClosed
  <1>6. sweep'[s] \in {"publish", "idle"} /\ todo'[s] = {}
    BY <1>1, ZenonT(30)
  <1> QED
    BY <1>1, <1>2, <1>3, <1>4, <1>5, <1>6, SweepInvAfter, Zenon

LEMMA SweepInvStep ==
  SingleSweep /\ TypeInv /\ ReadTimestamps /\ ClockInv /\ SweepInv /\ [Next]_vars => SweepInv'
PROOF
  <1> SUFFICES ASSUME SingleSweep, TypeInv, ReadTimestamps, ClockInv, SweepInv, [Next]_vars
               PROVE  SweepInv'
    BY Zenon
  <1>2. CASE AdvanceEpoch \/ UNCHANGED vars
    <2>1. UNCHANGED <<registered, sweeps, epoch_id_lower_bound_, pc, epoch_id>>
      BY <1>2, Zenon DEF AdvanceEpoch, vars, locals, txns
    <2>2. ASSUME NEW t \in Thread, NEW e \in Nat, Closed(t, e) PROVE StillClosed(t, e)
      BY <2>1, <2>2, Zenon DEF Closed, StillClosed
    <2> QED
      BY <2>1, <2>2, SweepKept, Zenon
  <1>3. ASSUME NEW t \in Thread, RegisterThread(t) PROVE SweepInv'
    BY <1>3, SweepRegister, Zenon DEF SingleSweep
  <1>4. ASSUME NEW x \in Txn, TxnStep(x) PROVE SweepInv'
    <2>1. UNCHANGED <<registered, sweeps>>
      BY <1>4, ZenonT(30) DEF TxnStep, BeginTransaction, EnterEpoch, RetryEnter, RereadEpoch,
                              TakeTransactionId, ReturnSnapshot, EndTransaction, locals
    <2>2. ASSUME NEW t \in Thread, ReadWrite(t), NEW e \in Nat, e < current_global_epoch_id_,
                 Closed(t, e)
          PROVE  StillClosed(t, e)
      <3>1. CASE EnterEpoch(x)
        BY <2>2, <3>1, ClosedEnter, Zenon
      <3>2. CASE EndTransaction(x)
        BY <2>2, <3>2, ClosedExit, Zenon
      <3> QED
        BY <1>4, <2>2, <3>1, <3>2, ClosedBegin, Zenon DEF TxnStep
    <2> QED
      BY <2>1, <2>2, SweepKept, Zenon
  <1>7. ASSUME NEW s \in Sweeper, BeginSweep(s) PROVE SweepInv'
    BY <1>7, SweepBegin, Zenon
  <1>8. ASSUME NEW s \in Sweeper, ObserveEpoch(s) PROVE SweepInv'
    BY <1>8, SweepObserve, Zenon
  <1>9. ASSUME NEW s \in Sweeper, VisitLocalEpoch(s) PROVE SweepInv'
    BY <1>9, SweepVisit, Zenon
  <1>10. ASSUME NEW s \in Sweeper, EndSweep(s) \/ PublishSnapshot(s) PROVE SweepInv'
    BY <1>10, SweepReturn, Zenon
  <1> QED
    BY <1>2, <1>3, <1>4, <1>7, <1>8, <1>9, <1>10, Zenon DEF Next, SweepStep

-----------------------------------------------------------------------------
(***************************************************************************)
(* The promise of the epoch manager to the garbage collector: with one     *)
(* sweep at a time no guarded transaction runs in an expired epoch.        *)
(*                                                                         *)
(* The invariant is built in layers, each inductive relative to the ones   *)
(* before it: TypeInv, ReadTimestamps, ClockInv, CountInv, SweepInv.       *)
(***************************************************************************)

(* Counting: a LocalEpoch counts the transactions that run in each epoch. *)

CountInv == CountsMatch /\ ReadIdInEpoch

\* A step of a transaction leaves the others and the other threads alone.
LEMMA TxnFrame ==
  ASSUME TypeOK, NEW x \in Txn, TxnStep(x)
  PROVE  /\ \A y \in Txn \ {x} :
              /\ pc'[y] = pc[y] /\ ts_type'[y] = ts_type[y] /\ epoch_id'[y] = epoch_id[y]
              /\ read_id_'[y] = read_id_[y] /\ commit_id_'[y] = commit_id_[y]
         /\ \A t \in Thread : t # ThreadOf[x] =>
              txn_count_'[t] = txn_count_[t] /\ epoch_queue_'[t] = epoch_queue_[t]
         /\ UNCHANGED <<current_global_epoch_id_, snapshot_global_epoch_id_, expired>>
PROOF
  <1> USE DEF TypeOK, Goto
  <1>1. CASE BeginTransaction(x)
    <2>1. /\ UNCHANGED <<globals, locals, read_id_, commit_id_, expired>>
          /\ pc' = [pc EXCEPT ![x] = "enter"]
          /\ \E ts : ts_type' = [ts_type EXCEPT ![x] = ts]
          /\ \E e : epoch_id' = [epoch_id EXCEPT ![x] = e]
      BY <1>1, ZenonT(30) DEF BeginTransaction, sweeps
    <2> QED
      BY <2>1, Zenon DEF globals, locals
  <1>2. CASE EnterEpoch(x)
    <2>1. /\ UNCHANGED <<globals, ts_type, epoch_id, read_id_, commit_id_, expired>>
          /\ \E to : pc' = [pc EXCEPT ![x] = to]
          /\ \/ UNCHANGED <<epoch_queue_, txn_count_>>
             \/ /\ \E q : epoch_queue_' = [epoch_queue_ EXCEPT ![ThreadOf[x]] = q]
                /\ \E c : txn_count_' = [txn_count_ EXCEPT ![ThreadOf[x]] = c]
      BY <1>2, ZenonT(30) DEF EnterEpoch, LocalEnter, sweeps
    <2> QED
      BY <2>1, Zenon DEF globals
  <1>3. CASE RetryEnter(x) \/ RereadEpoch(x)
    BY <1>3, ZenonT(30) DEF RetryEnter, RereadEpoch, globals, locals, sweeps
  <1>4. CASE TakeTransactionId(x)
    BY <1>4, ZenonT(30) DEF TakeTransactionId, locals, sweeps
  <1>5. CASE ReturnSnapshot(x)
    <2>1. /\ UNCHANGED <<globals, locals, epoch_id, expired>>
          /\ \E to : pc' = [pc EXCEPT ![x] = to]
          /\ \E r : read_id_' = [read_id_ EXCEPT ![x] = r]
          /\ UNCHANGED ts_type \/ \E ts : ts_type' = [ts_type EXCEPT ![x] = ts]
          /\ UNCHANGED commit_id_ \/ \E c : commit_id_' = [commit_id_ EXCEPT ![x] = c]
      BY <1>5, ZenonT(30) DEF ReturnSnapshot, sweeps
    <2> QED
      BY <2>1, Zenon DEF globals, locals
  <1>6. CASE EndTransaction(x)
    <2>1. /\ \E q : epoch_queue_' = [epoch_queue_ EXCEPT ![ThreadOf[x]] = q]
          /\ \E c : txn_count_' = [txn_count_ EXCEPT ![ThreadOf[x]] = c]
      BY <1>6, Zenon DEF EndTransaction, LocalExit
    <2> QED
      BY <1>6, <2>1, ZenonT(30) DEF EndTransaction, globals, sweeps
  <1> QED
    BY <1>1, <1>2, <1>3, <1>4, <1>5, <1>6, Zenon DEF TxnStep

\* A step that neither moves an entered transaction nor touches a LocalEpoch.
LEMMA CountsUnchanged ==
  ASSUME CountsMatch, UNCHANGED <<txn_count_, epoch_queue_>>,
         \A x \in Txn : /\ Entered(x)' <=> Entered(x)
                        /\ Entered(x) => epoch_id'[x] = epoch_id[x]
  PROVE  CountsMatch'
PROOF
  <1>1. ASSUME NEW t \in Thread, NEW e \in Eid PROVE InEpoch(t, e)' = InEpoch(t, e)
    BY Zenon DEF InEpoch
  <1> QED
    BY <1>1, Zenon DEF CountsMatch

\* Popping keeps every epoch that counts a transaction.
LEMMA PoppedKeeps ==
  ASSUME NEW q \in SUBSET Eid, NEW count, NEW e \in q, count[e] # 0
  PROVE  e \in Popped(q, count)
  <1>1. e <= e
    BY BoundAssumption DEF Eid
  <1> QED
    BY <1>1, Zenon DEF Popped

\* The epoch half of a cid is the epoch it was made from.
LEMMA EpochOfCid ==
  ASSUME NEW a \in Nat, NEW b \in Nat \ {0}, NEW c \in 0 .. b - 1
  PROVE  (a * b + c) \div b = a
  OBVIOUS

\* The steps a transaction takes before its LocalEpoch counts it.
LEMMA NotYetEntered ==
  ASSUME TypeOK, NEW x \in Txn, BeginTransaction(x) \/ RetryEnter(x) \/ RereadEpoch(x)
  PROVE  /\ UNCHANGED <<current_global_epoch_id_, txn_count_, epoch_queue_, read_id_, expired>>
         /\ pc[x] \in {"idle", "enter", "reread"}
         /\ pc'[x] \in {"enter", "reread"}
         /\ \A y \in Txn \ {x} :
              pc'[y] = pc[y] /\ ts_type'[y] = ts_type[y] /\ epoch_id'[y] = epoch_id[y]
PROOF
  <1>1. CASE BeginTransaction(x)
    <2>1. /\ UNCHANGED <<current_global_epoch_id_, txn_count_, epoch_queue_, read_id_, expired>>
          /\ pc[x] = "idle" /\ pc' = [pc EXCEPT ![x] = "enter"]
          /\ \E ts : ts_type' = [ts_type EXCEPT ![x] = ts]
          /\ \E e : epoch_id' = [epoch_id EXCEPT ![x] = e]
      BY <1>1, ZenonT(30) DEF BeginTransaction, Goto, globals, locals, sweeps
    <2> QED
      BY <2>1, Zenon DEF TypeOK
  <1>2. CASE RetryEnter(x)
    BY <1>2, ZenonT(30) DEF RetryEnter, Goto, TypeOK, globals, locals, sweeps
  <1>3. CASE RereadEpoch(x)
    BY <1>3, Zenon DEF RereadEpoch, Goto, TypeOK, globals, locals, sweeps
  <1> QED
    BY <1>1, <1>2, <1>3, ZenonT(30)

SafeInv == TypeInv /\ ReadTimestamps /\ CountInv /\ ClockInv /\ SweepInv

-----------------------------------------------------------------------------
(* The snapshot epoch. *)

\* One caller of GetExpiredEpochId at a time: one GC thread, no hybrid scans.
OneSweeper == \A s, r \in Sweeper : s = r

\* What a sweep is about to write is not behind the snapshot epoch.
PublishesAhead ==
  \A s \in Sweeper : sweep[s] = "publish" =>
    global_expired_eid[s] # MAX_EID /\ global_expired_eid[s] >= snapshot_global_epoch_id_

\* The test and the write of GetExpiredEpochId are two steps; with one sweeper
\* nothing happens to the snapshot epoch between them.
LEMMA PublishesAheadStep ==
  ASSUME OneSweeper, TypeInv, PublishesAhead, [Next]_vars PROVE PublishesAhead'
PROOF
  <1> USE DEF PublishesAhead
  <1>1. CASE UNCHANGED <<snapshot_global_epoch_id_, sweep, global_expired_eid>>
    BY <1>1, Zenon
  <1>2. ASSUME NEW s \in Sweeper, SweepStep(s) PROVE PublishesAhead'
    <2>1. /\ \A r \in Sweeper : r = s
          /\ sweep[s] \in {"idle", "loop", "visit", "publish"}
          /\ sweep \in [Sweeper -> {"idle", "loop", "visit", "publish"}]
      BY Zenon DEF OneSweeper, TypeInv, TypeOK
    <2>2. CASE sweep'[s] # "publish"
      BY <2>1, <2>2, Zenon
    <2>3. CASE sweep'[s] = "publish"
      <3>1. EndSweep(s) /\ SnapshotBehind(s)
        BY <1>2, <2>1, <2>3, ZenonT(30)
        DEF SweepStep, BeginSweep, ObserveEpoch, VisitLocalEpoch, EndSweep, PublishSnapshot,
            Return
      <3> QED
        BY <2>1, <3>1, Zenon DEF EndSweep, SnapshotBehind, globals
    <2> QED
      BY <2>2, <2>3, Zenon
  <1>3. CASE AdvanceEpoch \/ (\E t \in Thread : RegisterThread(t)) \/ UNCHANGED vars
    <2>1. UNCHANGED <<snapshot_global_epoch_id_, sweep, global_expired_eid>>
      BY <1>3, ZenonT(30) DEF AdvanceEpoch, RegisterThread, vars, globals, sweeps
    <2> QED
      BY <1>1, <2>1, Zenon
  <1>4. ASSUME NEW x \in Txn, TxnStep(x) PROVE PublishesAhead'
    <2>1. UNCHANGED <<snapshot_global_epoch_id_, sweep, global_expired_eid>>
      BY <1>4, ZenonT(30)
      DEF TxnStep, BeginTransaction, EnterEpoch, RetryEnter, RereadEpoch, TakeTransactionId,
          ReturnSnapshot, EndTransaction, globals, sweeps
    <2> QED
      BY <1>1, <2>1, Zenon
  <1> QED
    BY <1>2, <1>3, <1>4, ZenonT(30) DEF Next

\* Only PublishSnapshot writes the snapshot epoch.
LEMMA SnapshotWritten ==
  ASSUME [Next]_vars, snapshot_global_epoch_id_' # snapshot_global_epoch_id_
  PROVE  \E s \in Sweeper : PublishSnapshot(s)
PROOF
  <1>1. ASSUME NEW x \in Txn, TxnStep(x) PROVE FALSE
    BY <1>1, ZenonT(30)
    DEF TxnStep, BeginTransaction, EnterEpoch, RetryEnter, RereadEpoch, TakeTransactionId,
        ReturnSnapshot, EndTransaction, globals
  <1>2. ASSUME NEW s \in Sweeper, SweepStep(s) PROVE PublishSnapshot(s)
    BY <1>2, ZenonT(30)
    DEF SweepStep, BeginSweep, ObserveEpoch, VisitLocalEpoch, EndSweep, globals
  <1>3. ~AdvanceEpoch /\ ~(\E t \in Thread : RegisterThread(t)) /\ ~UNCHANGED vars
    BY Zenon DEF AdvanceEpoch, RegisterThread, vars, globals
  <1> QED
    BY <1>1, <1>2, <1>3, Zenon DEF Next

\* The snapshot epoch is the one that follows the expired epochs.
SnapshotNext == snapshot_global_epoch_id_ = expired + 1

\* The ids of snapshot readers are snapshot epochs that were written, and a
\* snapshot reader never asks for a READ timestamp.
SnapshotIds ==
  \A y \in Txn : IsolationOf[y] # "SERIALIZABLE" =>
    /\ read_id_[y] <= snapshot_global_epoch_id_ * CidShift
    /\ pc[y] # "idle" => ts_type[y] # "READ"

\* The commit id of a guarded transaction lies in its epoch.
CommitIds == \A x \in Guarded : pc[x] = "active" => epoch_id[x] * CidShift <= commit_id_[x]

SnapshotInv == PublishesAhead /\ SnapshotNext

\* A sweep that returns leaves the snapshot epoch just above what has expired.
LEMMA SnapshotNextStep ==
  ASSUME TypeInv, SnapshotInv, [Next]_vars
  PROVE  SnapshotNext' /\ snapshot_global_epoch_id_ <= snapshot_global_epoch_id_'
PROOF
  <1>0. /\ snapshot_global_epoch_id_ \in Int /\ expired \in Int
        /\ \A s \in Sweeper : global_expired_eid[s] \in Int
        /\ snapshot_global_epoch_id_ = expired + 1
    BY ClockTypes, SweepTypes DEF SnapshotInv, SnapshotNext
  <1>1. ASSUME NEW s \in Sweeper, PublishSnapshot(s)
        PROVE  SnapshotNext' /\ snapshot_global_epoch_id_ <= snapshot_global_epoch_id_'
    <2>1. /\ global_expired_eid[s] # MAX_EID
          /\ global_expired_eid[s] >= snapshot_global_epoch_id_
          /\ snapshot_global_epoch_id_' = global_expired_eid[s] + 1
          /\ expired' = IF global_expired_eid[s] # MAX_EID /\ global_expired_eid[s] > expired
                          THEN global_expired_eid[s] ELSE expired
      BY <1>1, Zenon DEF PublishSnapshot, Return, SnapshotInv, PublishesAhead
    <2>2. /\ snapshot_global_epoch_id_' = expired' + 1
          /\ snapshot_global_epoch_id_ <= snapshot_global_epoch_id_'
      BY ONLY <1>0, <2>1
    <2> QED
      BY <2>2, Zenon DEF SnapshotNext
  <1>2. CASE snapshot_global_epoch_id_' = snapshot_global_epoch_id_
    <2>1. CASE expired' = expired
      BY <1>0, <1>2, <2>1 DEF SnapshotNext
    <2>2. ASSUME NEW s \in Sweeper, EndSweep(s) PROVE expired' = expired
      <3>1. \/ expired' = expired
            \/ /\ global_expired_eid[s] > expired
               /\ ~(global_expired_eid[s] >= snapshot_global_epoch_id_)
        BY <2>2, Zenon DEF EndSweep, Return, SnapshotBehind
      <3> QED
        BY ONLY <1>0, <3>1
    <2>3. \/ expired' = expired
          \/ \E s \in Sweeper : EndSweep(s) \/ PublishSnapshot(s)
      BY ZenonT(30)
      DEF Next, TxnStep, SweepStep, AdvanceEpoch, RegisterThread, BeginTransaction, EnterEpoch,
          RetryEnter, RereadEpoch, TakeTransactionId, ReturnSnapshot, EndTransaction,
          BeginSweep, ObserveEpoch, VisitLocalEpoch, sweeps, vars
    <2> QED
      BY <1>1, <2>1, <2>2, <2>3, Zenon
  <1> QED
    BY <1>1, <1>2, SnapshotWritten, Zenon

LEMMA SnapshotInvInvariant == ASSUME OneSweeper PROVE Spec => [](TypeInv /\ ClockInv /\ SnapshotInv)
PROOF
  <1>1. Init => TypeInv /\ ClockInv /\ SnapshotInv
    <2>1. Init => SnapshotInv
      BY DEF Init, SnapshotInv, PublishesAhead, SnapshotNext
    <2> QED
      BY <2>1, TypeInvInit, ClockInvInit, Zenon
  <1>2. TypeInv /\ ClockInv /\ SnapshotInv /\ [Next]_vars => (TypeInv /\ ClockInv /\ SnapshotInv)'
    BY TypeInvStep, ClockInvStep, PublishesAheadStep, SnapshotNextStep, Zenon DEF SnapshotInv
  <1> QED
    BY <1>1, <1>2, PTL DEF Spec

\* What a READ_ONLY transaction relies on when it takes its snapshot: the
\* snapshot epoch is above every epoch that GetExpiredEpochId has returned, and
\* never ahead of the global epoch; for one sweeper, whatever the isolation
\* levels of the transactions and whenever threads are registered.
THEOREM SnapshotsAreAboveExpired == ASSUME OneSweeper PROVE Spec => []SnapshotAboveExpired
PROOF
  <1>1. TypeInv /\ ClockInv /\ SnapshotInv => SnapshotAboveExpired
    <2> SUFFICES ASSUME TypeInv, ClockInv, SnapshotInv PROVE SnapshotAboveExpired
      BY Zenon
    <2>1. /\ expired \in Int /\ snapshot_global_epoch_id_ = expired + 1
          /\ snapshot_global_epoch_id_ <= current_global_epoch_id_
      BY ClockTypes DEF SnapshotInv, SnapshotNext, ClockInv
    <2> QED
      BY <2>1 DEF SnapshotAboveExpired
  <1> QED
    BY <1>1, SnapshotInvInvariant, PTL

\* Ids in units of CidShift.
LEMMA ScaledIds ==
  ASSUME NEW a \in Nat, NEW b \in Nat, a <= b
  PROVE  a * CidShift <= b * CidShift /\ a * CidShift \in Nat
PROOF
  <1>1. PICK d \in Nat : b = a + d
    <2>1. b - a \in Nat /\ b = a + (b - a)
      OBVIOUS
    <2> QED
      BY <2>1
  <1>2. CidShift \in Nat
    BY BoundAssumption, Zenon
  <1>3. a * CidShift \in Nat /\ d * CidShift \in Nat
    BY ONLY <1>1, <1>2, a \in Nat
  <1>4. b * CidShift = a * CidShift + d * CidShift
    BY ONLY <1>1, <1>2, a \in Nat
  <1> QED
    BY ONLY <1>3, <1>4

LEMMA SnapshotIdsStep ==
  ASSUME TypeInv, TypeInv', SnapshotInv, SnapshotIds, [Next]_vars PROVE SnapshotIds'
PROOF
  <1>1. snapshot_global_epoch_id_ <= snapshot_global_epoch_id_'
    BY SnapshotNextStep, Zenon
  <1>2. /\ snapshot_global_epoch_id_ \in Nat /\ snapshot_global_epoch_id_' \in Nat
        /\ \A y \in Txn : read_id_[y] \in Nat
    <2>1. snapshot_global_epoch_id_ \in Eid /\ snapshot_global_epoch_id_' \in Eid
      BY Zenon DEF TypeInv, TypeOK
    <2>2. \A y \in Txn : read_id_[y] \in Nat
      BY Zenon DEF TypeInv, TypeOK, Cid
    <2> QED
      BY <2>1, <2>2 DEF Eid
  <1>3. /\ snapshot_global_epoch_id_ * CidShift <= snapshot_global_epoch_id_' * CidShift
        /\ snapshot_global_epoch_id_ * CidShift \in Nat
        /\ snapshot_global_epoch_id_' * CidShift \in Nat
    <2>1. snapshot_global_epoch_id_' <= snapshot_global_epoch_id_'
      BY ONLY <1>2
    <2> QED
      BY <1>1, <1>2, <2>1, ScaledIds, Zenon
  <1>4. ASSUME NEW x \in Txn, TxnStep(x) PROVE SnapshotIds'
    <2> SUFFICES ASSUME NEW y \in Txn, IsolationOf[y] # "SERIALIZABLE"
                 PROVE  /\ read_id_'[y] <= snapshot_global_epoch_id_' * CidShift
                        /\ pc'[y] # "idle" => ts_type'[y] # "READ"
      BY Zenon DEF SnapshotIds
    <2>1. snapshot_global_epoch_id_' = snapshot_global_epoch_id_
      BY <1>4, TxnFrame, Zenon DEF TypeInv
    <2>2. /\ read_id_[y] <= snapshot_global_epoch_id_ * CidShift
          /\ pc[y] # "idle" => ts_type[y] # "READ"
      BY Zenon DEF SnapshotIds
    <2>3. CASE y # x
      BY <1>4, <2>1, <2>2, <2>3, TxnFrame, Zenon DEF TypeInv
    <2>4. CASE y = x
      <3> USE <2>4 DEF TypeInv, TypeOK, Goto
      <3>1. CASE BeginTransaction(x)
        <4>1. read_id_' = read_id_ /\ ts_type' = [ts_type EXCEPT ![x] = "SNAPSHOT_READ"]
          BY <3>1, Zenon DEF BeginTransaction
        <4> QED
          BY <2>1, <2>2, <4>1, Zenon
      <3>2. CASE EnterEpoch(x) \/ RetryEnter(x) \/ RereadEpoch(x)
        <4>1. UNCHANGED <<read_id_, ts_type>> /\ pc[x] # "idle"
          BY <3>2, Zenon DEF EnterEpoch, RetryEnter, RereadEpoch
        <4> QED
          BY <2>1, <2>2, <4>1, Zenon
      <3>3. CASE TakeTransactionId(x)
        <4>1. pc[x] = "txnid" /\ UNCHANGED ts_type
          BY <3>3, Zenon DEF TakeTransactionId
        <4>2. ts_type[x] # "READ"
          BY <2>2, <4>1, Zenon
        <4>3. read_id_'[x] = read_id_[x]
          BY <3>3, <4>2, Zenon DEF TakeTransactionId
        <4> QED
          BY <2>1, <2>2, <4>1, <4>2, <4>3, Zenon
      <3>4. CASE ReturnSnapshot(x)
        <4>1. /\ read_id_'[x] = snapshot_global_epoch_id_ * CidShift
              /\ ts_type'[x] = "COMMIT" \/ ts_type'[x] = ts_type[x]
              /\ pc[x] = "snapid"
          BY <3>4, ZenonT(30) DEF ReturnSnapshot
        <4>2. read_id_'[x] <= snapshot_global_epoch_id_' * CidShift
          BY ONLY <1>3, <2>1, <4>1
        <4> QED
          BY <2>2, <4>1, <4>2, Zenon
      <3>5. CASE EndTransaction(x)
        <4>1. read_id_'[x] = 0 /\ pc'[x] = "idle"
          BY <3>5, Zenon DEF EndTransaction
        <4>2. 0 <= snapshot_global_epoch_id_' * CidShift
          BY ONLY <1>3
        <4> QED
          BY <4>1, <4>2, Zenon
      <3> QED
        BY <1>4, <3>1, <3>2, <3>3, <3>4, <3>5, Zenon DEF TxnStep
    <2> QED
      BY <2>3, <2>4, Zenon
  <1>5. CASE UNCHANGED txns
    <2>1. ASSUME NEW y \in Txn, read_id_[y] <= snapshot_global_epoch_id_ * CidShift
          PROVE  read_id_[y] <= snapshot_global_epoch_id_' * CidShift
      BY <1>2, <1>3, <2>1
    <2> QED
      BY <1>5, <2>1, Zenon DEF SnapshotIds, txns
  <1>6. (\E x \in Txn : TxnStep(x)) \/ UNCHANGED txns
    BY ZenonT(30) DEF Next, SweepStep, AdvanceEpoch, RegisterThread, BeginSweep, ObserveEpoch,
                      VisitLocalEpoch, EndSweep, PublishSnapshot, vars
  <1> QED
    BY <1>4, <1>5, <1>6, Zenon

LEMMA CommitIdsStep ==
  ASSUME TypeInv, ReadTimestamps, CommitIds, [Next]_vars PROVE CommitIds'
PROOF
  <1>1. ASSUME NEW x \in Txn, TxnStep(x), NEW y \in Guarded, pc'[y] = "active"
        PROVE  epoch_id'[y] * CidShift <= commit_id_'[y]
    <2>1. CASE y # x
      BY <1>1, <2>1, TxnFrame, GuardedReads, Zenon DEF TypeInv, CommitIds
    <2>2. CASE y = x
      <3>1. TakeTransactionId(x)
        BY <1>1, <2>2, ZenonT(30)
        DEF TxnStep, BeginTransaction, EnterEpoch, RetryEnter, RereadEpoch, ReturnSnapshot,
            EndTransaction, Goto, ReadTimestamps, TypeInv, TypeOK
      <3>2. /\ epoch_id'[x] = epoch_id[x]
            /\ commit_id_'[x] = epoch_id[x] * CidShift + next_txn_id_
        BY <3>1, Zenon DEF TakeTransactionId, TypeInv, TypeOK
      <3>3. epoch_id[x] \in Nat /\ next_txn_id_ \in Nat /\ epoch_id[x] <= epoch_id[x]
        BY DEF TypeInv, TypeOK, Eid
      <3>4. epoch_id[x] * CidShift \in Nat
        BY <3>3, ScaledIds, Zenon
      <3>5. epoch_id[x] * CidShift <= epoch_id[x] * CidShift + next_txn_id_
        BY ONLY <3>3, <3>4
      <3> QED
        BY <2>2, <3>2, <3>5, Zenon
    <2> QED
      BY <2>1, <2>2, Zenon
  <1>2. CASE UNCHANGED txns
    BY <1>2, Zenon DEF CommitIds, txns
  <1>3. (\E x \in Txn : TxnStep(x)) \/ UNCHANGED txns
    BY ZenonT(30) DEF Next, SweepStep, AdvanceEpoch, RegisterThread, BeginSweep, ObserveEpoch,
                      VisitLocalEpoch, EndSweep, PublishSnapshot, vars
  <1> QED
    BY <1>1, <1>2, <1>3, Zenon DEF CommitIds

-----------------------------------------------------------------------------
(* Refinement: the steps of the promise. *)

\* An entry that is let in is above everything returned so far.
LEMMA AdmittedAboveExpired ==
  ASSUME SafeInv, NEW x \in Guarded, pc[x] = "enter", ~EnterRejected(x)
  PROVE  expired < epoch_id[x]
PROOF
  <1> DEFINE b == epoch_id_lower_bound_[ThreadOf[x]]
  <1>1. /\ ThreadOf[x] \in Thread /\ b \in Int /\ expired \in Int
        /\ epoch_id[x] \in Int /\ epoch_id[x] >= 1
    <2>1. x \in Txn /\ ThreadOf[x] \in Thread
      BY TxnAssumption, GuardedReads, Zenon
    <2> QED
      BY <2>1, SweepTypes DEF SafeInv
  <1>2. expired <= b /\ (b = MAX_EID => expired < epoch_id[x])
    <2>1. x \in Txn /\ ThreadOf[x] \in Watched
      BY GuardedReads, Zenon DEF SafeInv, ReadTimestamps, Watched
    <2> QED
      BY <2>1, Zenon DEF SafeInv, SweepInv, Closed
  <1>3. b = MAX_EID \/ ~(b >= epoch_id[x])
    BY Zenon DEF EnterRejected, SafeInv, ReadTimestamps
  <1> QED
    BY <1>1, <1>2, <1>3

\* A step that leaves alone everything the promise speaks of.
LEMMA PromiseStutter ==
  ASSUME UNCHANGED <<current_global_epoch_id_, expired>>,
         \A x \in Guarded : (IF Entered(x) THEN epoch_id[x] ELSE 0)'
                        = (IF Entered(x) THEN epoch_id[x] ELSE 0)
  PROVE  UNCHANGED Promise!epochVars
  BY Zenon DEF Promise!epochVars, RunningIn

LEMMA PromiseStep ==
  SafeInv /\ SafeInv' /\ NoTxnInExpiredEpoch' /\ [Next]_vars
    => [Promise!EpochNext]_Promise!epochVars
PROOF
  <1> SUFFICES ASSUME SafeInv, SafeInv', NoTxnInExpiredEpoch', [Next]_vars
               PROVE  Promise!EpochNext \/ UNCHANGED Promise!epochVars
    BY Zenon
  <1> USE DEF SafeInv, TypeInv
  <1>1. CASE AdvanceEpoch
    <2>1. RunningIn' = RunningIn
      BY <1>1, Zenon DEF AdvanceEpoch, RunningIn, Entered, txns
    <2> QED
      BY <1>1, <2>1, Zenon DEF AdvanceEpoch, Promise!EpochNext, Promise!Advance, sweeps
  <1>2. CASE (\E t \in Thread : RegisterThread(t)) \/ UNCHANGED vars
    <2>1. UNCHANGED <<current_global_epoch_id_, expired, pc, ts_type, epoch_id>>
      BY <1>2, ZenonT(30) DEF RegisterThread, vars, globals, txns, sweeps
    <2> QED
      BY <2>1, PromiseStutter, ZenonT(30) DEF Entered
  <1>3. ASSUME NEW x \in Guarded, BeginTransaction(x) \/ RetryEnter(x) \/ RereadEpoch(x)
        PROVE  UNCHANGED Promise!epochVars
    <2>1. /\ UNCHANGED <<current_global_epoch_id_, expired>>
          /\ pc[x] \in {"idle", "enter", "reread"}
          /\ pc'[x] \in {"enter", "reread"}
          /\ \A y \in Txn \ {x} :
               pc'[y] = pc[y] /\ ts_type'[y] = ts_type[y] /\ epoch_id'[y] = epoch_id[y]
      BY <1>3, NotYetEntered, GuardedReads, ZenonT(30)
    <2>2. ASSUME NEW y \in Guarded
          PROVE  (IF Entered(y) THEN epoch_id[y] ELSE 0)' = (IF Entered(y) THEN epoch_id[y] ELSE 0)
      BY <2>1, GuardedReads, Zenon DEF Entered
    <2> QED
      BY <2>1, <2>2, PromiseStutter, Zenon
  <1>9. ASSUME NEW x \in Txn \ Guarded, TxnStep(x) PROVE UNCHANGED Promise!epochVars
    <2>1. /\ UNCHANGED <<current_global_epoch_id_, expired>>
          /\ \A y \in Txn \ {x} :
               pc'[y] = pc[y] /\ ts_type'[y] = ts_type[y] /\ epoch_id'[y] = epoch_id[y]
      BY <1>9, TxnFrame, Zenon
    <2>2. ASSUME NEW y \in Guarded
          PROVE  (IF Entered(y) THEN epoch_id[y] ELSE 0)' = (IF Entered(y) THEN epoch_id[y] ELSE 0)
      BY <2>1, GuardedReads, Zenon DEF Entered
    <2> QED
      BY <2>1, <2>2, PromiseStutter, Zenon
  <1>8. ASSUME NEW x \in Guarded, TakeTransactionId(x) PROVE UNCHANGED Promise!epochVars
    <2>1. /\ UNCHANGED <<current_global_epoch_id_, expired, ts_type, epoch_id>>
          /\ pc[x] = "txnid" /\ pc' = [pc EXCEPT ![x] = "active"]
      BY <1>8, ZenonT(30) DEF TakeTransactionId, Goto, sweeps
    <2> QED
      BY <2>1, PromiseStutter, GuardedReads, ZenonT(30) DEF Entered, TypeOK
  <1>4. ASSUME NEW x \in Guarded, EnterEpoch(x) PROVE Promise!EpochNext
    <2>1. /\ pc[x] = "enter" /\ ts_type[x] = "READ" /\ ~EnterRejected(x)
          /\ pc' = [pc EXCEPT ![x] = "txnid"]
          /\ UNCHANGED <<current_global_epoch_id_, expired, ts_type, epoch_id>>
      BY <1>4, ZenonT(30) DEF EnterEpoch, Goto, ReadTimestamps, globals, sweeps
    <2>2. RunningIn[x] = 0 /\ RunningIn' = [RunningIn EXCEPT ![x] = epoch_id[x]]
      <3>1. \A y \in Guarded : y # x => pc'[y] = pc[y]
        BY <2>1, GuardedReads, Zenon DEF TypeOK
      <3>2. pc'[x] = "txnid"
        BY <2>1, GuardedReads, Zenon DEF TypeOK
      <3> QED
        BY <2>1, <3>1, <3>2, ZenonT(30) DEF RunningIn, Entered
    <2>3. epoch_id[x] \in 1 .. current_global_epoch_id_ /\ expired < epoch_id[x]
      <3>1. expired < epoch_id[x]
        BY <2>1, AdmittedAboveExpired, ZenonT(30)
      <3>2. epoch_id[x] <= current_global_epoch_id_
        BY GuardedReads, Zenon DEF ClockInv
      <3>3. epoch_id[x] \in Eid /\ current_global_epoch_id_ \in Eid
        BY GuardedReads, Zenon DEF TypeOK
      <3>4. epoch_id[x] \in 1 .. current_global_epoch_id_
        BY ONLY <3>2, <3>3, BoundAssumption DEF Eid
      <3> QED
        BY <3>1, <3>4, Zenon
    <2>4. Promise!Enter(x)
      BY <2>1, <2>2, <2>3, ZenonT(30) DEF Promise!Enter
    <2> QED
      BY <2>4, Zenon DEF Promise!EpochNext
  <1>5. ASSUME NEW x \in Guarded, ReturnSnapshot(x) PROVE FALSE
    BY <1>5, ZenonT(30) DEF ReturnSnapshot, Goto, ReadTimestamps
  <1>6. ASSUME NEW x \in Guarded, EndTransaction(x) PROVE Promise!EpochNext
    <2>1. /\ pc[x] = "active" /\ ts_type[x] = "READ"
          /\ pc' = [pc EXCEPT ![x] = "idle"]
          /\ epoch_id' = [epoch_id EXCEPT ![x] = 1]
          /\ UNCHANGED <<current_global_epoch_id_, expired, ts_type>>
      BY <1>6, ZenonT(30) DEF EndTransaction, Goto, ReadTimestamps, globals, sweeps
    <2>2. RunningIn[x] # 0
      <3>1. epoch_id[x] # 0
        BY BoundAssumption, GuardedReads DEF TypeOK, Eid
      <3> QED
        BY <2>1, <3>1, Zenon DEF RunningIn, Entered
    <2>3. RunningIn' = [RunningIn EXCEPT ![x] = 0]
      <3>1. \A y \in Guarded : y # x => pc'[y] = pc[y] /\ epoch_id'[y] = epoch_id[y]
        BY <2>1, GuardedReads, Zenon DEF TypeOK
      <3>2. pc'[x] = "idle"
        BY <2>1, GuardedReads, Zenon DEF TypeOK
      <3> QED
        BY <2>1, <3>1, <3>2, ZenonT(30) DEF RunningIn, Entered
    <2>4. Promise!Exit(x)
      BY <2>1, <2>2, <2>3, Zenon DEF Promise!Exit
    <2> QED
      BY <2>4, Zenon DEF Promise!EpochNext
  <1>7. ASSUME NEW s \in Sweeper, SweepStep(s)
        PROVE  Promise!EpochNext \/ UNCHANGED Promise!epochVars
    <2>1. UNCHANGED <<current_global_epoch_id_, pc, ts_type, epoch_id>>
      BY <1>7, ZenonT(30) DEF SweepStep, BeginSweep, ObserveEpoch, VisitLocalEpoch, EndSweep,
                  PublishSnapshot, globals, txns
    <2>2. UNCHANGED RunningIn
      BY <2>1, ZenonT(30) DEF RunningIn, Entered
    <2>3. CASE expired' = expired
      BY <2>1, <2>2, <2>3, Zenon DEF Promise!epochVars
    <2>4. CASE expired' # expired
      <3>1. expired' > expired
        BY <1>7, <2>4, ZenonT(30) DEF SweepStep, BeginSweep, ObserveEpoch, VisitLocalEpoch, EndSweep,
                          PublishSnapshot, Return
      <3>2. expired' \in expired + 1 .. current_global_epoch_id_ - 1
        <4>0. expired' \in 0 .. MaxEpoch
          BY ZenonT(30) DEF TypeOK
        <4>1. expired \in Int /\ expired' \in Int /\ current_global_epoch_id_ \in Int
          BY <4>0, ClockTypes
        <4>2. expired' < current_global_epoch_id_
          BY <2>1, ZenonT(30) DEF ClockInv, ExpiredIsPast
        <4> QED
          BY <3>1, <4>1, <4>2
      <3>3. ASSUME NEW x \in Guarded, RunningIn[x] # 0 PROVE expired' < RunningIn[x]
        <4>1. Entered(x)' /\ RunningIn[x] = epoch_id'[x]
          BY <2>1, <3>3, ZenonT(30) DEF RunningIn, Entered
        <4> QED
          BY <4>1, ZenonT(30) DEF NoTxnInExpiredEpoch
      <3>4. Promise!Expire
        BY <2>1, <2>2, <3>2, <3>3, Zenon DEF Promise!Expire
      <3> QED
        BY <3>4, Zenon DEF Promise!EpochNext
    <2> QED
      BY <2>3, <2>4, Zenon
  <1> QED
    BY <1>1, <1>2, <1>3, <1>4, <1>5, <1>6, <1>7, <1>8, <1>9, GuardedReads, Zenon
    DEF Next, TxnStep

-----------------------------------------------------------------------------
(* Cardinalities, from here on. *)

FS == INSTANCE FiniteSetTheorems

\* The library's cardinality is this module's.
LEMMA SameCardinality ==
  ASSUME NEW S
  PROVE  (FS!IsFiniteSet(S) <=> IsFiniteSet(S)) /\ FS!Cardinality(S) = Cardinality(S)
  BY Zenon DEF IsFiniteSet, FS!IsFiniteSet, Cardinality, FS!Cardinality

LEMMA FiniteSubset ==
  ASSUME NEW S, IsFiniteSet(S), NEW T \in SUBSET S
  PROVE  IsFiniteSet(T) /\ Cardinality(T) <= Cardinality(S)
  BY SameCardinality, FS!FS_Subset

LEMMA CardinalityNat ==
  ASSUME NEW S, IsFiniteSet(S)
  PROVE  Cardinality(S) \in Nat
  BY SameCardinality, FS!FS_CardinalityType, Zenon

LEMMA EmptyCardinality ==
  Cardinality({}) = 0 /\ \A S : IsFiniteSet(S) => (Cardinality(S) = 0 <=> S = {})
  BY SameCardinality, FS!FS_EmptySet, Zenon

LEMMA AddedCardinality ==
  ASSUME NEW S, NEW x, IsFiniteSet(S), x \notin S
  PROVE  Cardinality(S \union {x}) = Cardinality(S) + 1
  BY SameCardinality, FS!FS_AddElement, Zenon

LEMMA RemovedCardinality ==
  ASSUME NEW S, NEW x \in S, IsFiniteSet(S)
  PROVE  Cardinality(S \ {x}) = Cardinality(S) - 1
  BY SameCardinality, FS!FS_RemoveElement, Zenon

LEMMA FiniteInEpoch ==
  ASSUME NEW t, NEW e
  PROVE  IsFiniteSet(InEpoch(t, e)) /\ Cardinality(InEpoch(t, e)) \in Nat
  <1>1. InEpoch(t, e) \subseteq Txn
    BY Zenon DEF InEpoch
  <1> QED
    BY <1>1, TxnAssumption, FiniteSubset, CardinalityNat, Zenon

LEMMA CountInvInit == Init => CountInv
PROOF
  <1> SUFFICES ASSUME Init PROVE CountInv
    BY Zenon
  <1>1. ASSUME NEW t \in Thread, NEW e \in Eid PROVE InEpoch(t, e) = {}
    BY Zenon DEF Init, InEpoch, Entered
  <1>2. ASSUME NEW t \in Thread, NEW e \in Eid PROVE txn_count_[t][e] = 0
    BY Zenon DEF Init
  <1>3. CountsMatch
    BY <1>1, <1>2, EmptyCardinality, ZenonT(30) DEF CountsMatch
  <1> QED
    BY <1>3, GuardedReads, Zenon DEF Init, CountInv, ReadIdInEpoch

LEMMA CountInvStep ==
  TypeInv /\ ReadTimestamps /\ CountInv /\ [Next]_vars => CountInv'
PROOF
  <1> SUFFICES ASSUME TypeInv, ReadTimestamps, CountInv, [Next]_vars
               PROVE  CountInv'
    BY Zenon
  <1> USE DEF CountInv, TypeInv
  <1>1. CASE AdvanceEpoch \/ UNCHANGED vars
    <2>1. UNCHANGED <<txn_count_, epoch_queue_, pc, ts_type, epoch_id, read_id_>>
      BY <1>1, ZenonT(30) DEF AdvanceEpoch, vars, locals, txns
    <2>2. CountsMatch'
      BY <2>1, CountsUnchanged, Zenon DEF Entered
    <2> QED
      BY <2>1, <2>2, Zenon DEF ReadIdInEpoch, EpochOf
  <1>9. ASSUME NEW t \in Thread, RegisterThread(t) PROVE CountInv'
    <2>1. /\ UNCHANGED <<pc, ts_type, epoch_id, read_id_>>
          /\ epoch_queue_' = [epoch_queue_ EXCEPT ![t] = {}]
          /\ txn_count_' = [txn_count_ EXCEPT ![t] = [e \in Eid |-> 0]]
          /\ \A x \in Txn : ThreadOf[x] = t => pc[x] = "idle"
      BY <1>9, Zenon DEF RegisterThread, txns
    <2>2. ASSUME NEW u \in Thread, NEW f \in Eid, ReadWrite(u)
          PROVE  /\ txn_count_'[u][f] = Cardinality(InEpoch(u, f)')
                 /\ txn_count_'[u][f] # 0 => f \in epoch_queue_'[u]
      <3>1. CASE u = t
        <4>1. InEpoch(u, f)' = {} /\ txn_count_'[u][f] = 0
          BY <2>1, <3>1, Zenon DEF InEpoch, Entered, TypeOK
        <4> QED
          BY <4>1, EmptyCardinality, Zenon
      <3>2. CASE u # t
        <4>1. /\ InEpoch(u, f)' = InEpoch(u, f)
              /\ txn_count_'[u] = txn_count_[u] /\ epoch_queue_'[u] = epoch_queue_[u]
          BY <2>1, <3>2, Zenon DEF InEpoch, Entered, TypeOK
        <4> QED
          BY <2>2, <4>1, Zenon DEF CountsMatch
      <3> QED
        BY <3>1, <3>2, Zenon
    <2> QED
      BY <2>1, <2>2, Zenon DEF CountsMatch, ReadIdInEpoch, EpochOf
  <1>10. ASSUME NEW x \in Txn \ Guarded, TxnStep(x) PROVE CountInv'
    <2>1. /\ \A y \in Txn \ {x} :
               /\ pc'[y] = pc[y] /\ ts_type'[y] = ts_type[y] /\ epoch_id'[y] = epoch_id[y]
               /\ read_id_'[y] = read_id_[y]
          /\ \A t \in Thread : t # ThreadOf[x] =>
               txn_count_'[t] = txn_count_[t] /\ epoch_queue_'[t] = epoch_queue_[t]
      BY <1>10, TxnFrame, Zenon
    <2>2. ASSUME NEW u \in Thread, NEW f \in Eid, ReadWrite(u)
          PROVE  /\ txn_count_'[u][f] = Cardinality(InEpoch(u, f)')
                 /\ txn_count_'[u][f] # 0 => f \in epoch_queue_'[u]
      <3>1. u # ThreadOf[x]
        BY <1>10, <2>2, Zenon DEF Guarded
      <3>2. InEpoch(u, f)' = InEpoch(u, f)
        BY <2>1, <3>1, Zenon DEF InEpoch, Entered
      <3> QED
        BY <2>1, <2>2, <3>1, <3>2, Zenon DEF CountsMatch
    <2>3. ReadIdInEpoch'
      BY <2>1, GuardedReads, Zenon DEF ReadIdInEpoch, EpochOf
    <2> QED
      BY <2>2, <2>3, Zenon DEF CountsMatch
  <1>2. ASSUME NEW x \in Guarded, BeginTransaction(x) \/ RetryEnter(x) \/ RereadEpoch(x)
        PROVE  CountInv'
    <2>1. /\ UNCHANGED <<txn_count_, epoch_queue_, read_id_>>
          /\ pc[x] \in {"idle", "enter", "reread"}
          /\ pc'[x] \in {"enter", "reread"}
          /\ \A y \in Txn \ {x} :
               pc'[y] = pc[y] /\ ts_type'[y] = ts_type[y] /\ epoch_id'[y] = epoch_id[y]
      BY <1>2, NotYetEntered, GuardedReads, Zenon
    <2>2. CountsMatch'
      BY <2>1, CountsUnchanged, ZenonT(30) DEF Entered
    <2> QED
      BY <2>1, <2>2, GuardedReads, Zenon DEF ReadIdInEpoch, EpochOf
  <1>3. ASSUME NEW x \in Guarded, EnterEpoch(x) PROVE CountInv'
    <2> DEFINE t == ThreadOf[x]
               e == epoch_id[x]
    <2>1. t \in Thread /\ e \in Eid /\ ts_type[x] = "READ" /\ pc[x] = "enter"
      BY <1>3, TxnAssumption, GuardedReads, ZenonT(30) DEF TypeOK, ReadTimestamps, EnterEpoch, Goto
    <2>2. /\ pc' = [pc EXCEPT ![x] = "txnid"]
          /\ UNCHANGED <<ts_type, epoch_id, read_id_>>
          /\ epoch_queue_' = [epoch_queue_ EXCEPT ![t] = @ \cup {e}]
          /\ txn_count_' = [txn_count_ EXCEPT ![t][e] = @ + 1]
      BY <1>3, <2>1, Zenon DEF EnterEpoch, Goto, LocalEnter
    <2>3. ASSUME NEW u \in Thread, NEW f \in Eid, ReadWrite(u)
          PROVE  /\ txn_count_'[u][f] = Cardinality(InEpoch(u, f)')
                 /\ txn_count_'[u][f] # 0 => f \in epoch_queue_'[u]
      <3>0. txn_count_[u][f] = Cardinality(InEpoch(u, f)) /\ txn_count_[u][f] \in Int
        BY <2>3, Zenon DEF CountsMatch, TypeOK
      <3>1. CASE u = t /\ f = e
        <4>1. x \notin InEpoch(u, f) /\ InEpoch(u, f)' = InEpoch(u, f) \cup {x}
          BY <2>1, <2>2, <3>1, GuardedReads, ZenonT(30) DEF InEpoch, Entered, TypeOK
        <4>2. Cardinality(InEpoch(u, f)') = Cardinality(InEpoch(u, f)) + 1
          BY <4>1, FiniteInEpoch, AddedCardinality, Zenon
        <4>3. txn_count_'[u][f] = txn_count_[u][f] + 1
          BY <2>1, <2>2, <3>1, Zenon DEF TypeOK
        <4> QED
          BY <2>1, <2>2, <3>0, <3>1, <4>2, <4>3, Zenon DEF TypeOK
      <3>2. CASE ~(u = t /\ f = e)
        <4>1. InEpoch(u, f)' = InEpoch(u, f)
          BY <2>1, <2>2, <3>2, Zenon DEF InEpoch, Entered, TypeOK
        <4>2. txn_count_'[u][f] = txn_count_[u][f]
          BY <2>1, <2>2, <3>2, Zenon DEF TypeOK
        <4> QED
          BY <2>1, <2>2, <3>0, <2>3, <4>1, <4>2, Zenon DEF CountsMatch, TypeOK
      <3> QED
        BY <3>1, <3>2, ZenonT(30)
    <2>4. ReadIdInEpoch'
      BY <2>2, GuardedReads, ZenonT(30) DEF ReadIdInEpoch, EpochOf, TypeOK
    <2> QED
      BY <2>3, <2>4, ZenonT(30) DEF CountsMatch
  <1>4. ASSUME NEW x \in Guarded, TakeTransactionId(x) PROVE CountInv'
    <2>1. /\ pc[x] = "txnid" /\ pc' = [pc EXCEPT ![x] = "active"]
          /\ UNCHANGED <<txn_count_, epoch_queue_, ts_type, epoch_id>>
          /\ read_id_' = [read_id_ EXCEPT ![x] = epoch_id[x] * CidShift + next_txn_id_]
      BY <1>4, ZenonT(30) DEF TakeTransactionId, Goto, ReadTimestamps, locals
    <2>2. CountsMatch'
      BY <2>1, CountsUnchanged, ZenonT(30) DEF Entered, TypeOK
    <2>3. (epoch_id[x] * CidShift + next_txn_id_) \div CidShift = epoch_id[x]
      <3>1. epoch_id[x] \in Nat /\ next_txn_id_ \in 0 .. CidShift - 1
        BY GuardedReads DEF TypeOK, Eid
      <3> QED
        BY <3>1, BoundAssumption, EpochOfCid, Zenon
    <2>4. EpochOf(x)' = epoch_id'[x]
      <3>1. read_id_'[x] = epoch_id[x] * CidShift + next_txn_id_
        BY <2>1, GuardedReads, ZenonT(30) DEF TypeOK
      <3> QED
        BY <2>1, <2>3, <3>1, Zenon DEF EpochOf
    <2>5. ASSUME NEW y \in Guarded, y # x, pc'[y] = "active" PROVE EpochOf(y)' = epoch_id'[y]
      <3>1. read_id_'[y] = read_id_[y] /\ pc[y] = "active" /\ epoch_id'[y] = epoch_id[y]
        BY <2>1, <2>5, GuardedReads, ZenonT(30) DEF TypeOK
      <3>2. EpochOf(y) = epoch_id[y]
        BY <3>1, Zenon DEF ReadIdInEpoch
      <3> QED
        BY <3>1, <3>2, Zenon DEF EpochOf
    <2> QED
      BY <2>2, <2>4, <2>5, ZenonT(30) DEF ReadIdInEpoch
  <1>5. ASSUME NEW x \in Guarded, ReturnSnapshot(x) PROVE FALSE
    BY <1>5, Zenon DEF ReturnSnapshot, Goto, ReadTimestamps
  <1>6. ASSUME NEW x \in Guarded, EndTransaction(x) PROVE CountInv'
    <2> DEFINE t == ThreadOf[x]
               e == epoch_id[x]
               count == [txn_count_[t] EXCEPT ![e] = @ - 1]
    <2>1. /\ t \in Thread /\ e \in Eid /\ ts_type[x] = "READ" /\ pc[x] = "active"
          /\ EpochOf(x) = e
      BY <1>6, TxnAssumption, GuardedReads, ZenonT(30) DEF TypeOK, ReadTimestamps, EndTransaction, Goto, ReadIdInEpoch
    <2>2. /\ pc' = [pc EXCEPT ![x] = "idle"]
          /\ UNCHANGED ts_type
          /\ epoch_id' = [epoch_id EXCEPT ![x] = 1]
          /\ read_id_' = [read_id_ EXCEPT ![x] = 0]
          /\ epoch_queue_' = [epoch_queue_ EXCEPT ![t] = Popped(@, count)]
          /\ txn_count_' = [txn_count_ EXCEPT ![t] = count]
      BY <1>6, <2>1, Zenon DEF EndTransaction, Goto, LocalExit
    <2> HIDE DEF count
    <2>3. ASSUME NEW u \in Thread, NEW f \in Eid, ReadWrite(u)
          PROVE  /\ txn_count_'[u][f] = Cardinality(InEpoch(u, f)')
                 /\ txn_count_'[u][f] # 0 => f \in epoch_queue_'[u]
      <3>0. /\ txn_count_[u][f] = Cardinality(InEpoch(u, f)) /\ txn_count_[u][f] \in Int
            /\ txn_count_[u][f] # 0 => f \in epoch_queue_[u]
            /\ epoch_queue_[u] \in SUBSET Eid
        BY <2>3, ZenonT(30) DEF CountsMatch, TypeOK
      <3>1. CASE u = t /\ f = e
        <4>1. x \in InEpoch(u, f) /\ InEpoch(u, f)' = InEpoch(u, f) \ {x}
          BY <2>1, <2>2, <3>1, GuardedReads, Zenon DEF InEpoch, Entered, TypeOK
        <4>2. /\ Cardinality(InEpoch(u, f)') = Cardinality(InEpoch(u, f)) - 1
              /\ Cardinality(InEpoch(u, f)) # 0
          BY <4>1, FiniteInEpoch, RemovedCardinality, EmptyCardinality, ZenonT(30)
        <4>3. txn_count_'[u] = count /\ count[f] = txn_count_[u][f] - 1
          BY <2>1, <2>2, <3>1, ZenonT(30) DEF TypeOK, count
        <4>4. f \in epoch_queue_[u]
          BY <3>0, <4>2, Zenon
        <4>5. count[f] # 0 => f \in Popped(epoch_queue_[u], count)
          BY <3>0, <4>4, PoppedKeeps, Zenon
        <4> QED
          BY <2>1, <2>2, <3>0, <3>1, <4>2, <4>3, <4>5, Zenon DEF TypeOK
      <3>2. CASE u = t /\ f # e
        <4>1. InEpoch(u, f)' = InEpoch(u, f)
          BY <2>1, <2>2, <3>2, ZenonT(30) DEF InEpoch, Entered, TypeOK
        <4>2. txn_count_'[u] = count /\ count[f] = txn_count_[u][f]
          BY <2>1, <2>2, <3>2, ZenonT(30) DEF TypeOK, count
        <4>3. count[f] # 0 => f \in Popped(epoch_queue_[u], count)
          BY <3>0, <4>2, PoppedKeeps, Zenon
        <4> QED
          BY <2>1, <2>2, <3>0, <3>2, <4>1, <4>2, <4>3, Zenon DEF TypeOK
      <3>3. CASE u # t
        <4>1. InEpoch(u, f)' = InEpoch(u, f)
          BY <2>1, <2>2, <3>3, Zenon DEF InEpoch, Entered, TypeOK
        <4>2. txn_count_'[u] = txn_count_[u] /\ epoch_queue_'[u] = epoch_queue_[u]
          BY <2>1, <2>2, <3>3, Zenon DEF TypeOK
        <4> QED
          BY <3>0, <4>1, <4>2, Zenon
      <3> QED
        BY <3>1, <3>2, <3>3, ZenonT(30)
    <2>4. ReadIdInEpoch'
      BY <2>2, GuardedReads, ZenonT(30) DEF ReadIdInEpoch, EpochOf, TypeOK
    <2> QED
      BY <2>3, <2>4, Zenon DEF CountsMatch
  <1>7. ASSUME NEW s \in Sweeper, SweepStep(s), ~VisitLocalEpoch(s) PROVE CountInv'
    <2>1. UNCHANGED <<txn_count_, epoch_queue_, pc, ts_type, epoch_id, read_id_>>
      BY <1>7, Zenon DEF SweepStep, BeginSweep, ObserveEpoch, EndSweep, PublishSnapshot, locals, txns
    <2>2. CountsMatch'
      BY <2>1, CountsUnchanged, Zenon DEF Entered
    <2> QED
      BY <2>1, <2>2, Zenon DEF ReadIdInEpoch, EpochOf
  <1>8. ASSUME NEW s \in Sweeper, VisitLocalEpoch(s) PROVE CountInv'
    <2>1. PICK t \in todo[s] :
            epoch_queue_' = [epoch_queue_ EXCEPT ![t] = Popped(@, txn_count_[t])]
      BY <1>8, ZenonT(30) DEF VisitLocalEpoch
    <2>2. UNCHANGED <<txn_count_, pc, ts_type, epoch_id, read_id_>>
      BY <1>8, Zenon DEF VisitLocalEpoch, txns
    <2>3. ASSUME NEW u \in Thread, NEW f \in Eid, ReadWrite(u)
          PROVE  /\ txn_count_'[u][f] = Cardinality(InEpoch(u, f)')
                 /\ txn_count_'[u][f] # 0 => f \in epoch_queue_'[u]
      <3>1. InEpoch(u, f)' = InEpoch(u, f)
        BY <2>2, Zenon DEF InEpoch, Entered
      <3>2. /\ txn_count_[u][f] = Cardinality(InEpoch(u, f))
            /\ txn_count_[u][f] # 0 => f \in epoch_queue_[u]
            /\ epoch_queue_[u] \in SUBSET Eid
        BY <2>3, ZenonT(30) DEF CountsMatch, TypeOK
      <3>3. f \in epoch_queue_[u] /\ txn_count_[u][f] # 0
              => f \in Popped(epoch_queue_[u], txn_count_[u])
        BY <3>2, PoppedKeeps, ZenonT(30)
      <3> QED
        BY <2>1, <2>2, <3>1, <3>2, <3>3, Zenon DEF TypeOK
    <2> QED
      BY <2>2, <2>3, Zenon DEF CountsMatch, ReadIdInEpoch, EpochOf
  <1> QED
    BY <1>1, <1>2, <1>3, <1>4, <1>5, <1>6, <1>7, <1>8, <1>9, <1>10, Zenon DEF Next, TxnStep

LEMMA SafeInvInvariant == ASSUME SingleSweep PROVE Spec => []SafeInv
PROOF
  <1>1. Init => SafeInv
    BY TypeInvInit, ReadTimestampsInit, CountInvInit, ClockInvInit, SweepInvInit, Zenon DEF SafeInv
  <1>2. SafeInv /\ [Next]_vars => SafeInv'
    BY TypeInvStep, ReadTimestampsStep, CountInvStep, ClockInvStep, SweepInvStep, Zenon DEF SafeInv
  <1> QED
    BY <1>1, <1>2, PTL DEF Spec

\* A transaction that its LocalEpoch counts is in its queue.
LEMMA EnteredIsQueued ==
  ASSUME SafeInv, NEW x \in Guarded, Entered(x)
  PROVE  epoch_id[x] \in epoch_queue_[ThreadOf[x]]
PROOF
  <1> DEFINE t == ThreadOf[x]
             e == epoch_id[x]
  <1>1. t \in Thread /\ e \in Eid /\ x \in InEpoch(t, e) /\ ReadWrite(t)
    BY TxnAssumption, GuardedReads, Zenon DEF SafeInv, TypeInv, TypeOK, InEpoch
  <1>2. Cardinality(InEpoch(t, e)) # 0
    BY <1>1, FiniteInEpoch, EmptyCardinality, Zenon
  <1> QED
    BY <1>1, <1>2, Zenon DEF SafeInv, CountInv, CountsMatch

\* A queued epoch is above its bound, and the bound above what was returned.
LEMMA SafeImpliesNoTxnInExpired == SafeInv => NoTxnInExpiredEpoch
PROOF
  <1> SUFFICES ASSUME SafeInv, NEW x \in Guarded, Entered(x) PROVE expired < epoch_id[x]
    BY Zenon DEF NoTxnInExpiredEpoch
  <1>1. /\ epoch_id[x] \in epoch_queue_[ThreadOf[x]]
        /\ x \in Txn /\ ThreadOf[x] \in Thread /\ ThreadOf[x] \in Watched
    BY EnteredIsQueued, TxnAssumption, GuardedReads, Zenon
    DEF SafeInv, ReadTimestamps, Entered, Watched
  <1>2. epoch_id_lower_bound_[ThreadOf[x]] < epoch_id[x]
    BY <1>1, Zenon DEF SafeInv, TypeInv, QueueAboveBound
  <1>3. expired <= epoch_id_lower_bound_[ThreadOf[x]]
    BY <1>1, ZenonT(30) DEF SafeInv, SweepInv, Closed
  <1>4. /\ expired \in Int /\ epoch_id[x] \in Int
        /\ epoch_id_lower_bound_[ThreadOf[x]] \in Int
    BY <1>1, SweepTypes DEF SafeInv
  <1> QED
    BY ONLY <1>2, <1>3, <1>4

\* What gc/transaction_level_gc_manager.cpp relies on when it unlinks: with one
\* sweep at a time, no read-write transaction of a thread without snapshots
\* ever runs in an epoch that GetExpiredEpochId has returned, for any number of
\* threads, registered at any time that no sweep misses, and of epochs.
THEOREM ExpiredEpochsAreEmpty == ASSUME SingleSweep PROVE Spec => []NoTxnInExpiredEpoch
  BY SafeImpliesNoTxnInExpired, SafeInvInvariant, PTL

\* EnterEpoch and ExitEpoch of local_epoch.cpp keep exact counts: each epoch's
\* count is the number of transactions of the thread that run in it.
THEOREM CountsStayExact == ASSUME SingleSweep PROVE Spec => []CountsMatch
PROOF
  <1>1. SafeInv => CountsMatch
    BY Zenon DEF SafeInv, CountInv
  <1> QED
    BY <1>1, SafeInvInvariant, PTL

\* ExitEpoch of local_epoch.cpp finds its epoch: the assertion before
\* epoch_map_.at never fails on a thread without snapshots.
THEOREM ExitAlwaysFindsEpoch == ASSUME SingleSweep PROVE Spec => []ExitFindsEpoch
PROOF
  <1>1. SafeInv => ExitFindsEpoch
    <2> SUFFICES ASSUME SafeInv, NEW x \in Guarded, pc[x] = "active"
                 PROVE  EpochOf(x) \in epoch_queue_[ThreadOf[x]]
      BY ZenonT(30) DEF ExitFindsEpoch
    <2>1. Entered(x) /\ EpochOf(x) = epoch_id[x]
      BY Zenon DEF SafeInv, ReadTimestamps, CountInv, ReadIdInEpoch, Entered
    <2> QED
      BY <2>1, EnteredIsQueued, Zenon
  <1> QED
    BY <1>1, SafeInvInvariant, PTL

\* What makes the reads of SNAPSHOT and READ_ONLY transactions repeatable: the
\* id that EnterEpoch gives them is not above the commit id of any read-write
\* transaction that still runs, or will, on a thread without snapshots.
THEOREM SnapshotsAreSettled == ASSUME SingleSweep PROVE Spec => []SnapshotSettled
PROOF
  <1> DEFINE Inv == SafeInv /\ SnapshotInv /\ SnapshotIds /\ CommitIds
  <1>1. Init => SnapshotInv /\ SnapshotIds /\ CommitIds
    <2> SUFFICES ASSUME Init PROVE SnapshotInv /\ SnapshotIds /\ CommitIds
      BY Zenon
    <2>1. SnapshotInv
      BY DEF Init, SnapshotInv, PublishesAhead, SnapshotNext
    <2>2. 0 <= 1 * CidShift
      BY BoundAssumption
    <2>3. SnapshotIds
      BY <2>2, Zenon DEF Init, SnapshotIds
    <2>4. CommitIds
      BY GuardedReads, Zenon DEF Init, CommitIds
    <2> QED
      BY <2>1, <2>3, <2>4, Zenon
  <1>2. /\ SafeInv /\ SafeInv' /\ SnapshotInv /\ SnapshotIds /\ CommitIds /\ [Next]_vars
        => (SnapshotInv /\ SnapshotIds /\ CommitIds)'
    <2>1. OneSweeper
      BY Zenon DEF SingleSweep, OneSweeper
    <2> QED
      BY <2>1, PublishesAheadStep, SnapshotNextStep, SnapshotIdsStep, CommitIdsStep, Zenon
      DEF SafeInv, SnapshotInv
  <1>3. Inv => SnapshotSettled
    <2> SUFFICES ASSUME Inv, NEW x \in Guarded, NEW y \in Txn, pc[x] = "active",
                        IsolationOf[y] # "SERIALIZABLE"
                 PROVE  read_id_[y] <= commit_id_[x]
      BY Zenon DEF SnapshotSettled
    <2>1. x \in Txn /\ Entered(x)
      BY GuardedReads, Zenon DEF SafeInv, ReadTimestamps, Entered
    <2>2. expired < epoch_id[x] /\ snapshot_global_epoch_id_ = expired + 1
      BY <2>1, SafeImpliesNoTxnInExpired, Zenon DEF NoTxnInExpiredEpoch, SnapshotInv, SnapshotNext
    <2>3. epoch_id[x] \in Nat /\ expired \in Nat /\ snapshot_global_epoch_id_ \in Nat
      BY <2>1, ClockTypes, Zenon DEF SafeInv
    <2>4. snapshot_global_epoch_id_ <= epoch_id[x] /\ epoch_id[x] <= epoch_id[x]
      BY ONLY <2>2, <2>3
    <2>5. /\ snapshot_global_epoch_id_ * CidShift <= epoch_id[x] * CidShift
          /\ snapshot_global_epoch_id_ * CidShift \in Nat
          /\ epoch_id[x] * CidShift \in Nat
      BY <2>3, <2>4, ScaledIds, Zenon
    <2>6. /\ read_id_[y] <= snapshot_global_epoch_id_ * CidShift
          /\ epoch_id[x] * CidShift <= commit_id_[x]
      BY Zenon DEF SnapshotIds, CommitIds
    <2>7. read_id_[y] \in Nat /\ commit_id_[x] \in Nat
      BY <2>1, Zenon DEF SafeInv, TypeInv, TypeOK, Cid
    <2> QED
      BY ONLY <2>5, <2>6, <2>7
  <1> QED
    BY <1>1, <1>2, <1>3, SafeInvInvariant, PTL DEF Spec

\* Every behaviour of the epoch manager with one sweep at a time is, for the
\* transactions of threads without snapshots, one of the abstract EpochManager,
\* which the model of the garbage collector is built on.
THEOREM ImplementsPromise == ASSUME SingleSweep PROVE Spec => KeepsPromise
PROOF
  <1>1. Init => Promise!EpochInit
    BY GuardedReads, Zenon DEF Init, Promise!EpochInit, RunningIn, Entered
  <1> QED
    BY <1>1, PromiseStep, SafeInvInvariant, SafeImpliesNoTxnInExpired, PTL
    DEF Spec, KeepsPromise, Promise!EpochSpec
=============================================================================
