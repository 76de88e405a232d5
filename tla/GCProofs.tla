------------------------------ MODULE GCProofs ------------------------------
(***************************************************************************)
(* Proofs about the garbage collector, for any number of transactions,     *)
(* slots, tuples, GC threads and epochs: types, the order of epochs, and   *)
(* the versions that scans hold.                                           *)
(*                                                                         *)
(* TypeInv orders the epochs that the parts have seen; HeldInv, proved with*)
(* it, ties every scan to the epochs of the reclaim maps.                  *)
(***************************************************************************)
EXTENDS TransactionLevelGC, TLAPS

\* Where a transaction is while it counts for its epoch.
Busy == {"active", "commit", "abort"}

\* What has expired is behind every running transaction that the epoch manager's
\* promise covers, and what a GC thread remembers of it is older still.
EpochsOrdered ==
  /\ epoch \in 1 .. MaxEpoch
  /\ expired \in 0 .. MaxEpoch /\ expired < epoch
  /\ running \in [Txn -> 0 .. MaxEpoch]
  /\ \A x \in Txn : running[x] # 0 => running[x] <= epoch
  /\ \A x \in Guarded : running[x] # 0 => expired < running[x]
  /\ \A g \in GCThread : expired_eid[g] <= expired

\* Only a transaction in an epoch scans or installs, and it commits no later
\* than in the current epoch.
TxnsOrdered ==
  \A x \in Txn :
    /\ running[x] # 0 <=> status[x] \in Busy
    /\ status[x] # "active" => cursor[x] = NULL /\ x \notin held
    /\ install[x] # NULL => status[x] = "commit"
    /\ commit_eid[x] <= epoch
    /\ SnapshotTxn = {} => commit_eid[x] = eid[x]

\* Layer 1.
TypeInv == TypeOK /\ EpochsOrdered /\ TxnsOrdered

\* Layer 2: a context that holds the version of a scan was stamped no earlier
\* than in the epoch of the scan, so it has not expired.
HeldInv ==
  \A x \in held \intersect Guarded :
    /\ cursor[x] # NULL
    /\ cursor[x] \notin recycle_queue
    /\ \A g \in GCThread : \A c \in reclaim_map[g] :
         cursor[x] \in c.gc_set => running[x] <= c.eid

-----------------------------------------------------------------------------
(* Types, and the order of epochs. *)

\* The part of the assumption that arithmetic needs.
LEMMA MaxFacts ==
  MaxEpoch \in Nat /\ MaxEpoch > 0 /\ MAX \in Nat /\ MAX = MaxEpoch + 1 /\ 0 \in 0 .. MAX
PROOF
  BY GCAssumption DEF MAX

\* What each kind of write to a tile group header leaves behind is a header.
LEMMA VersionFields ==
  /\ EmptyVersion \in Versions
  /\ \A v \in Versions :
       /\ \A o \in Txn \union {"INVALID", "INITIAL"} : [v EXCEPT !.owner = o] \in Versions
       /\ \A t \in 0 .. MAX : [v EXCEPT !.begin = t] \in Versions
       /\ \A t \in 0 .. MAX : [v EXCEPT !.end = t] \in Versions
       /\ \A b \in BOOLEAN : [v EXCEPT !.empty = b] \in Versions
  /\ \A e \in Entry \union {NULL}, s \in Slot \union {NULL},
        o \in Txn \union {"INVALID", "INITIAL"}, b \in BOOLEAN :
       NewVersion(e, s, o, b) \in Versions
PROOF
  BY MaxFacts DEF Versions, EmptyVersion, NewVersion

\* The three parts of TypeInv hold at first.
LEMMA TypeInit == Init => TypeInv
PROOF
  <1> SUFFICES ASSUME Init PROVE TypeInv
    BY Zenon
  <1>1. version \in [Slot -> Versions]
    <2> DEFINE v(s) == IF \E e \in Loaded : FirstSlot[e] = s
                       THEN [NewVersion(CHOOSE e \in Loaded : FirstSlot[e] = s, NULL,
                                        "INITIAL", FALSE) EXCEPT !.begin = 0]
                       ELSE EmptyVersion
    <2>1. ASSUME NEW s \in Slot PROVE v(s) \in Versions
      <3>1. CASE \E e \in Loaded : FirstSlot[e] = s
        <4>1. PICK f : f = CHOOSE e \in Loaded : FirstSlot[e] = s
          BY Zenon
        <4>2. NewVersion(f, NULL, "INITIAL", FALSE) \in Versions
          BY <3>1, <4>1, GCAssumption, VersionFields, Zenon
        <4> QED
          BY <3>1, <4>1, <4>2, VersionFields, MaxFacts, Zenon
      <3> QED
        BY <3>1, VersionFields, Zenon
    <2>2. version = [s \in Slot |-> v(s)]
      BY Zenon DEF Init
    <2> HIDE DEF v
    <2> QED
      BY <2>1, <2>2, Zenon
  <1>2. head \in [Entry -> Slot \union {NULL}] /\ unused \subseteq Slot
    BY GCAssumption, Zenon DEF Init
  <1>3. /\ epoch = 1 /\ running = [x \in Txn |-> 0] /\ expired = 0
        /\ expired_eid = [g \in GCThread |-> 0]
        /\ status = [x \in Txn |-> "idle"]
        /\ eid = [x \in Txn |-> 0] /\ commit_eid = [x \in Txn |-> 0]
        /\ install = [x \in Txn |-> NULL] /\ cursor = [x \in Txn |-> NULL]
        /\ held = {}
    BY Zenon DEF Init, EpochInit
  <1>4. /\ gc_set = [x \in Txn |-> {}] /\ unlink_queue = [g \in GCThread |-> {}]
        /\ local_unlink_queue = [g \in GCThread |-> {}]
        /\ reclaim_map = [g \in GCThread |-> {}] /\ recycle_queue = {}
        /\ garbages = [g \in GCThread |-> {}] /\ gc_pc = [g \in GCThread |-> "sweep"]
    BY Zenon DEF Init
  <1>5. TypeOK
    BY <1>1, <1>2, <1>3, <1>4, MaxFacts DEF TypeOK
  <1>6. EpochsOrdered
    BY <1>3, MaxFacts DEF EpochsOrdered, Guarded
  <1>7. TxnsOrdered
    <2> SUFFICES ASSUME NEW x \in Txn PROVE TxnsOrdered!(x)
      BY Zenon DEF TxnsOrdered
    <2>1. /\ running[x] = 0 /\ status[x] = "idle" /\ cursor[x] = NULL /\ x \notin held
          /\ install[x] = NULL /\ commit_eid[x] = 0 /\ eid[x] = 0 /\ epoch = 1
      BY <1>3, Zenon
    <2> QED
      BY <2>1 DEF Busy
  <1> QED
    BY <1>5, <1>6, <1>7, Zenon DEF TypeInv

\* A step that leaves the epochs alone keeps them in order.
LEMMA EpochsKept ==
  ASSUME EpochsOrdered, UNCHANGED <<epochVars, expired_eid>>
  PROVE  EpochsOrdered'
PROOF
  BY Zenon DEF EpochsOrdered, epochVars

\* A step that moves no transaction keeps them in order.
LEMMA TxnsKept ==
  ASSUME TxnsOrdered, UNCHANGED <<epochVars, status, eid, commit_eid, install, cursor, held>>
  PROVE  TxnsOrdered'
PROOF
  BY Zenon DEF TxnsOrdered, epochVars

\* Every step keeps types and order.
LEMMA TypeStep ==
  ASSUME TypeInv, [Next]_vars
  PROVE  TypeInv'
PROOF
  <1> USE DEF TypeInv
  <1>1. ASSUME NEW x \in Txn, Begin(x) PROVE TypeInv'
    <2>1. PICK e \in 1 .. epoch : /\ x \in Guarded => expired < e
                                  /\ running' = [running EXCEPT ![x] = e]
      BY <1>1, Zenon DEF Begin, Enter, Guarded
    <2>2. /\ epoch' = epoch /\ expired' = expired
          /\ UNCHANGED <<tableVars, gc_set, install, cursor, held, gcVars>>
          /\ status[x] = "idle" /\ status' = [status EXCEPT ![x] = "active"]
      BY <1>1, Zenon DEF Begin, Enter
    <2>3. /\ e \in 1 .. MaxEpoch /\ e <= epoch
          /\ epoch \in 0 .. MaxEpoch /\ running'[x] = e
      BY <2>1, MaxFacts DEF EpochsOrdered
    <2>4. /\ eid' = [eid EXCEPT ![x] = e]
          /\ commit_eid' = [commit_eid EXCEPT ![x] = IF x \in SnapshotTxn THEN epoch ELSE e]
      BY <1>1, <2>3, Zenon DEF Begin
    <2>5. TypeOK'
      BY <2>2, <2>3, <2>4 DEF TypeOK, tableVars, gcVars
    <2>6. EpochsOrdered'
      <3>1. \A y \in Txn : running'[y] = IF y = x THEN e ELSE running[y]
        BY <2>1, Zenon DEF EpochsOrdered
      <3>2. \A y \in Guarded : y \in Txn
        BY Zenon DEF Guarded
      <3> QED
        BY <2>1, <2>2, <2>3, <3>1, <3>2 DEF EpochsOrdered, gcVars
    <2>7. TxnsOrdered'
      <3> SUFFICES ASSUME NEW y \in Txn PROVE TxnsOrdered!(y)'
        BY Zenon DEF TxnsOrdered
      <3>1. CASE y = x
        BY <2>1, <2>2, <2>3, <2>4, <3>1 DEF TxnsOrdered, TypeOK, EpochsOrdered, Busy
      <3>2. CASE y # x
        BY <2>1, <2>2, <2>4, <3>2 DEF TxnsOrdered, TypeOK, EpochsOrdered, Busy
      <3> QED
        BY <3>1, <3>2, Zenon
    <2> QED
      BY <2>5, <2>6, <2>7, Zenon
  <1>2. ASSUME NEW x \in Txn, Lookup(x) PROVE TypeInv'
    <2>1. PICK s \in Slot : MoveCursor(x, s)
      BY <1>2, GCAssumption, Zenon DEF Lookup, TypeOK
    <2>2. /\ UNCHANGED <<epochVars, tableVars, status, eid, commit_eid, gc_set, install, gcVars>>
          /\ status[x] = "active"
      BY <1>2, Zenon DEF Lookup
    <2>3. TypeOK'
      BY <2>1, <2>2, Zenon DEF MoveCursor, TypeOK, tableVars, gcVars
    <2>4. EpochsOrdered'
      BY <1>2, EpochsKept, Zenon DEF Lookup, gcVars
    <2>5. TxnsOrdered'
      <3> SUFFICES ASSUME NEW y \in Txn PROVE TxnsOrdered!(y)'
        BY Zenon DEF TxnsOrdered
      <3> QED
        BY <2>1, <2>2, Zenon DEF MoveCursor, TxnsOrdered, TypeOK, epochVars
    <2> QED
      BY <2>3, <2>4, <2>5, Zenon
  <1>3. ASSUME NEW x \in Txn, FollowNext(x) PROVE TypeInv'
    <2>1. PICK s \in Slot : MoveCursor(x, s)
      BY <1>3, GCAssumption DEF FollowNext, TypeOK, Versions
    <2>2. /\ UNCHANGED <<epochVars, tableVars, status, eid, commit_eid, gc_set, install, gcVars>>
          /\ status[x] = "active"
      BY <1>3, Zenon DEF FollowNext
    <2>3. TypeOK'
      BY <2>1, <2>2, Zenon DEF MoveCursor, TypeOK, tableVars, gcVars
    <2>4. EpochsOrdered'
      BY <1>3, EpochsKept, Zenon DEF FollowNext, gcVars
    <2>5. TxnsOrdered'
      <3> SUFFICES ASSUME NEW y \in Txn PROVE TxnsOrdered!(y)'
        BY Zenon DEF TxnsOrdered
      <3> QED
        BY <2>1, <2>2, Zenon DEF MoveCursor, TxnsOrdered, TypeOK, epochVars
    <2> QED
      BY <2>3, <2>4, <2>5, Zenon
  <1>4. ASSUME NEW x \in Txn, PerformInsert(x) PROVE TypeInv'
    <2>1. PICK e \in Entry, n \in Slot :
            /\ GetEmptyTupleSlot(n)
            /\ head' = [head EXCEPT ![e] = n]
            /\ version' = [version EXCEPT ![n] = NewVersion(e, NULL, x, FALSE)]
      BY <1>4, Zenon DEF PerformInsert
    <2>2. NewVersion(e, NULL, x, FALSE) \in Versions
      BY VersionFields, Zenon
    <2>3. TypeOK'
      BY <1>4, <2>1, <2>2, Zenon DEF PerformInsert, GetEmptyTupleSlot, TypeOK, txnVars
    <2>4. EpochsOrdered'
      BY <1>4, EpochsKept, Zenon DEF PerformInsert, gcVars
    <2>5. TxnsOrdered'
      BY <1>4, TxnsKept, Zenon DEF PerformInsert, txnVars
    <2> QED
      BY <2>3, <2>4, <2>5, Zenon
  <1>5. ASSUME NEW x \in Txn, PerformWrite(x) PROVE TypeInv'
    <2>1. PICK e \in Entry, s, n \in Slot, st \in Statements \intersect {"update", "delete"} :
            /\ head[e] = s /\ version[s].entry = e
            /\ version[s].owner = "INITIAL" /\ version[s].end = MAX
            /\ x \notin SnapshotTxn \/ st # "delete" => version[s].begin <= commit_eid[x]
            /\ GetEmptyTupleSlot(n)
            /\ head' = [head EXCEPT ![e] = n]
            /\ version' = [version EXCEPT ![s].owner = x,
                                         ![n] = NewVersion(e, s, x, st = "delete")]
      BY <1>5, Zenon DEF PerformWrite
    <2>2. NewVersion(e, s, x, st = "delete") \in Versions
      BY VersionFields, Zenon
    <2>3. version[s] \in Versions /\ [version[s] EXCEPT !.owner = x] \in Versions
      BY VersionFields, Zenon DEF TypeOK
    <2>4. version' \in [Slot -> Versions]
      BY <2>1, <2>2, <2>3, Zenon DEF TypeOK
    <2>5. TypeOK'
      BY <1>5, <2>1, <2>4 DEF PerformWrite, GetEmptyTupleSlot, TypeOK, txnVars
    <2>6. EpochsOrdered'
      BY <1>5, EpochsKept, Zenon DEF PerformWrite, gcVars
    <2>7. TxnsOrdered'
      BY <1>5, TxnsKept, Zenon DEF PerformWrite, txnVars
    <2> QED
      BY <2>5, <2>6, <2>7, Zenon
  <1>6. ASSUME NEW x \in Txn, DeleteOwn(x) PROVE TypeInv'
    <2>1. PICK n \in Slot : version' = [version EXCEPT ![n].empty = TRUE]
      BY <1>6, Zenon DEF DeleteOwn
    <2>2. version[n] \in Versions /\ [version[n] EXCEPT !.empty = TRUE] \in Versions
      BY VersionFields, Zenon DEF TypeOK
    <2>3. TypeOK'
      BY <1>6, <2>1, <2>2, Zenon DEF DeleteOwn, TypeOK, txnVars, gcVars
    <2>4. EpochsOrdered'
      BY <1>6, EpochsKept, Zenon DEF DeleteOwn, gcVars
    <2>5. TxnsOrdered'
      BY <1>6, TxnsKept, Zenon DEF DeleteOwn, txnVars
    <2> QED
      BY <2>3, <2>4, <2>5, Zenon
  <1>7. ASSUME NEW x \in Txn, EndRequest(x) PROVE TypeInv'
    <2>1. PICK st \in {"commit", "abort"} : status' = [status EXCEPT ![x] = st]
      BY <1>7, Zenon DEF EndRequest
    <2>2. TypeOK'
      BY <1>7, <2>1, Zenon DEF EndRequest, TypeOK, tableVars, gcVars
    <2>3. EpochsOrdered'
      BY <1>7, EpochsKept, Zenon DEF EndRequest, gcVars
    <2>4. TxnsOrdered'
      <3> SUFFICES ASSUME NEW y \in Txn PROVE TxnsOrdered!(y)'
        BY Zenon DEF TxnsOrdered
      <3> QED
        BY <1>7, <2>1, Zenon DEF EndRequest, TxnsOrdered, TypeOK, Busy, epochVars
    <2> QED
      BY <2>2, <2>3, <2>4, Zenon
  <1>8. ASSUME NEW x \in Txn, CommitVersion(x) PROVE TypeInv'
    <2>1. PICK n \in Slot :
            /\ version' = [t \in Slot |->
                 CASE t = n -> [version[n] EXCEPT !.begin = commit_eid[x]]
                   [] t = version[n].next -> [version[version[n].next] EXCEPT !.end = commit_eid[x]]
                   [] OTHER -> version[t]]
            /\ install' = [install EXCEPT ![x] = n]
      BY <1>8, Zenon DEF CommitVersion, Pending
    <2>2. commit_eid[x] \in 0 .. MAX
      BY MaxFacts DEF TypeOK
    <2>3. version' \in [Slot -> Versions]
      <3> SUFFICES ASSUME NEW t \in Slot PROVE version'[t] \in Versions
        BY <2>1, Zenon
      <3>1. \A u \in Slot : /\ version[u] \in Versions
                            /\ [version[u] EXCEPT !.begin = commit_eid[x]] \in Versions
                            /\ [version[u] EXCEPT !.end = commit_eid[x]] \in Versions
        BY <2>2, VersionFields, Zenon DEF TypeOK
      <3> QED
        BY <2>1, <3>1, Zenon
    <2>4. TypeOK'
      BY <1>8, <2>1, <2>3, Zenon DEF CommitVersion, TypeOK, gcVars
    <2>5. EpochsOrdered'
      BY <1>8, EpochsKept, Zenon DEF CommitVersion, gcVars
    <2>6. TxnsOrdered'
      <3> SUFFICES ASSUME NEW y \in Txn PROVE TxnsOrdered!(y)'
        BY Zenon DEF TxnsOrdered
      <3> QED
        BY <1>8, <2>1 DEF CommitVersion, TxnsOrdered, TypeOK, epochVars
    <2> QED
      BY <2>4, <2>5, <2>6, Zenon
  <1>9. ASSUME NEW x \in Txn, ReleaseVersion(x) PROVE TypeInv'
    <2>1. install[x] \in Slot
      BY <1>9, Zenon DEF ReleaseVersion, TypeOK
    <2>2. version' \in [Slot -> Versions]
      <3> DEFINE n == install[x]
                 o == IF version[n].empty THEN "INVALID" ELSE "INITIAL"
      <3>1. \A u \in Slot : /\ version[u] \in Versions
                            /\ [version[u] EXCEPT !.owner = o] \in Versions
                            /\ [version[u] EXCEPT !.owner = "INITIAL"] \in Versions
        BY VersionFields, Zenon DEF TypeOK
      <3>2. version' = [t \in Slot |->
              CASE t = n -> [version[n] EXCEPT !.owner = o]
                [] t = version[n].next -> [version[version[n].next] EXCEPT !.owner = "INITIAL"]
                [] OTHER -> version[t]]
        BY <1>9, Zenon DEF ReleaseVersion
      <3> HIDE DEF n, o
      <3> SUFFICES ASSUME NEW t \in Slot PROVE version'[t] \in Versions
        BY <3>2, Zenon
      <3> QED
        BY <3>1, <3>2, Zenon
    <2>3. gc_set' \in [Txn -> SUBSET Slot]
      <3>1. version[install[x]].next \in Slot \union {NULL}
        BY <2>1, Zenon DEF TypeOK, Versions
      <3> QED
        BY <1>9, <2>1, <3>1 DEF ReleaseVersion, TypeOK
    <2>4. install' = [install EXCEPT ![x] = NULL]
      BY <1>9, Zenon DEF ReleaseVersion
    <2>5. TypeOK'
      BY <1>9, <2>2, <2>3, <2>4, Zenon DEF ReleaseVersion, TypeOK, gcVars
    <2>6. EpochsOrdered'
      BY <1>9, EpochsKept, Zenon DEF ReleaseVersion, gcVars
    <2>7. TxnsOrdered'
      <3> SUFFICES ASSUME NEW y \in Txn PROVE TxnsOrdered!(y)'
        BY Zenon DEF TxnsOrdered
      <3> QED
        BY <1>9, <2>4, Zenon DEF ReleaseVersion, TxnsOrdered, TypeOK, epochVars
    <2> QED
      BY <2>5, <2>6, <2>7, Zenon
  <1>10. ASSUME NEW x \in Txn, DiscardInsert(x) PROVE TypeInv'
    <2>1. PICK n \in Slot : /\ version' = [version EXCEPT ![n].owner = "INVALID"]
                            /\ gc_set' = [gc_set EXCEPT ![x] = @ \union {n}]
      BY <1>10, Zenon DEF DiscardInsert, Pending
    <2>2. version[n] \in Versions /\ [version[n] EXCEPT !.owner = "INVALID"] \in Versions
      BY VersionFields, Zenon DEF TypeOK
    <2>3. TypeOK'
      BY <1>10, <2>1, <2>2 DEF DiscardInsert, TypeOK, gcVars
    <2>4. EpochsOrdered'
      BY <1>10, EpochsKept, Zenon DEF DiscardInsert, gcVars
    <2>5. TxnsOrdered'
      BY <1>10, TxnsKept, Zenon DEF DiscardInsert, txnVars
    <2> QED
      BY <2>3, <2>4, <2>5, Zenon
  <1>11. ASSUME NEW x \in Txn, AbortVersion(x) PROVE TypeInv'
    <2>1. PICK n \in Slot, s \in Slot :
            /\ head' = [head EXCEPT ![version[n].entry] = s]
            /\ version' = [version EXCEPT ![n].owner = "INVALID", ![s].owner = "INITIAL"]
            /\ gc_set' = [gc_set EXCEPT ![x] = @ \union {n}]
      <3>1. PICK n \in Slot :
              /\ version[n].next # NULL
              /\ head' = [head EXCEPT ![version[n].entry] = version[n].next]
              /\ version' = [version EXCEPT ![n].owner = "INVALID",
                                           ![version[n].next].owner = "INITIAL"]
              /\ gc_set' = [gc_set EXCEPT ![x] = @ \union {n}]
        BY <1>11, Zenon DEF AbortVersion, Pending
      <3>2. version[n].next \in Slot
        BY <3>1, Zenon DEF TypeOK, Versions
      <3> QED
        BY <3>1, <3>2, Zenon
    <2>2. \A u \in Slot : version[u] \in Versions
      BY Zenon DEF TypeOK
    <2>3. /\ [version[n] EXCEPT !.owner = "INVALID"] \in Versions
          /\ [version[s] EXCEPT !.owner = "INITIAL"] \in Versions
          /\ [[version[n] EXCEPT !.owner = "INVALID"] EXCEPT !.owner = "INITIAL"] \in Versions
      BY <2>2, VersionFields, Zenon
    <2>4. version' \in [Slot -> Versions]
      BY <2>1, <2>2, <2>3, ZenonT(30) DEF TypeOK
    <2>5. TypeOK'
      <3>1. UNCHANGED <<unused, status, eid, commit_eid, install, cursor, held, gcVars>>
        BY <1>11, Zenon DEF AbortVersion
      <3>2. head' \in [Entry -> Slot \union {NULL}] /\ gc_set' \in [Txn -> SUBSET Slot]
        <4>1. head \in [Entry -> Slot \union {NULL}] /\ gc_set \in [Txn -> SUBSET Slot]
          BY Zenon DEF TypeOK
        <4> QED
          BY <2>1, <4>1, Zenon
      <3> QED
        BY <2>4, <3>1, <3>2, Zenon DEF TypeOK, gcVars
    <2>6. EpochsOrdered'
      BY <1>11, EpochsKept, Zenon DEF AbortVersion, gcVars
    <2>7. TxnsOrdered'
      BY <1>11, TxnsKept, Zenon DEF AbortVersion, txnVars
    <2> QED
      BY <2>5, <2>6, <2>7, Zenon
  <1>12. ASSUME NEW x \in Txn, ExitEpoch(x) PROVE TypeInv'
    <2>1. TypeOK'
      BY <1>12, Zenon DEF ExitEpoch, TypeOK, tableVars, gcVars
    <2>2. EpochsOrdered'
      BY <1>12, MaxFacts DEF ExitEpoch, Exit, EpochsOrdered, gcVars
    <2>3. TxnsOrdered'
      <3> SUFFICES ASSUME NEW y \in Txn PROVE TxnsOrdered!(y)'
        BY Zenon DEF TxnsOrdered
      <3>1. /\ status' = [status EXCEPT ![x] =
                              IF status[x] = "commit" THEN "committed" ELSE "aborted"]
            /\ running' = [running EXCEPT ![x] = 0] /\ epoch' = epoch /\ install[x] = NULL
            /\ UNCHANGED <<eid, commit_eid, install, cursor, held>>
            /\ status[x] \in {"commit", "abort"}
        BY <1>12, ZenonT(30) DEF ExitEpoch, Exit
      <3> QED
        BY <3>1, Zenon DEF TxnsOrdered, EpochsOrdered, TypeOK, Busy
    <2> QED
      BY <2>1, <2>2, <2>3, Zenon
  <1>13. ASSUME NEW x \in Txn, RecycleTransaction(x) PROVE TypeInv'
    <2>1. GarbageEpoch(x) \in 0 .. MAX
      BY MaxFacts DEF GarbageEpoch, TypeOK, EpochsOrdered
    <2>2. [eid |-> GarbageEpoch(x), gc_set |-> gc_set[x]] \in Context
      BY <2>1, Zenon DEF Context, TypeOK
    <2>3. unlink_queue' \in [GCThread -> SUBSET Context]
      BY <1>13, <2>2, GCAssumption, ZenonT(30) DEF RecycleTransaction, TypeOK
    <2>4. TypeOK'
      BY <1>13, <2>3, MaxFacts DEF RecycleTransaction, TypeOK, tableVars
    <2>5. EpochsOrdered'
      BY <1>13, EpochsKept, Zenon DEF RecycleTransaction, gcVars
    <2>6. TxnsOrdered'
      <3> SUFFICES ASSUME NEW y \in Txn PROVE TxnsOrdered!(y)'
        BY Zenon DEF TxnsOrdered
      <3>1. /\ status' = [status EXCEPT ![x] = "idle"] /\ eid' = [eid EXCEPT ![x] = 0]
            /\ commit_eid' = [commit_eid EXCEPT ![x] = 0]
            /\ UNCHANGED <<epochVars, install, cursor, held>>
            /\ status[x] \in {"committed", "aborted"}
        BY <1>13, Zenon DEF RecycleTransaction
      <3> QED
        BY <3>1 DEF TxnsOrdered, EpochsOrdered, TypeOK, Busy, epochVars
    <2> QED
      BY <2>4, <2>5, <2>6, Zenon
  <1>14. ASSUME NEW g \in GCThread, Sweep(g) PROVE TypeInv'
    <2>1. /\ epoch' = epoch /\ running' = running /\ expired <= expired'
          /\ expired' \in 0 .. MaxEpoch /\ expired' < epoch
          /\ \A x \in Guarded : running[x] # 0 => expired' < running[x]
      BY <1>14, MaxFacts DEF Sweep, Expire, EpochsOrdered, epochVars, Guarded
    <2>2. expired_eid' = [expired_eid EXCEPT ![g] = expired']
      BY <1>14, Zenon DEF Sweep
    <2>3. TypeOK'
      BY <1>14, <2>1, <2>2 DEF Sweep, TypeOK, tableVars, txnVars
    <2>4. EpochsOrdered'
      BY <2>1, <2>2, MaxFacts DEF EpochsOrdered, TypeOK
    <2>5. TxnsOrdered'
      BY <1>14, <2>1, Zenon DEF Sweep, TxnsOrdered, txnVars
    <2> QED
      BY <2>3, <2>4, <2>5, Zenon
  <1>15. ASSUME NEW g \in GCThread, Reclaim(g) PROVE TypeInv'
    <2>1. version' \in [Slot -> Versions]
      <3> SUFFICES ASSUME NEW s \in Slot PROVE version'[s] \in Versions
        BY <1>15, Zenon DEF Reclaim
      <3>1. version[s].entry \in Entry \union {NULL}
        BY Zenon DEF TypeOK, Versions
      <3>2. ResetTuple(version[s]) \in Versions
        BY <3>1, VersionFields, Zenon DEF ResetTuple
      <3>3. version'[s] = ResetTuple(version[s]) \/ version'[s] = version[s]
        BY <1>15, Zenon DEF Reclaim
      <3> QED
        BY <3>2, <3>3, Zenon DEF TypeOK
    <2>2. recycle_queue' \subseteq Slot
      BY <1>15 DEF Reclaim, ExpiredContexts, TypeOK, Context
    <2>3. TypeOK'
      BY <1>15, <2>1, <2>2, Zenon DEF Reclaim, TypeOK, txnVars
    <2>4. EpochsOrdered'
      BY <1>15, EpochsKept, ZenonT(30) DEF Reclaim, gcVars
    <2>5. TxnsOrdered'
      BY <1>15, TxnsKept, Zenon DEF Reclaim, txnVars
    <2> QED
      BY <2>3, <2>4, <2>5, Zenon
  <1>16. ASSUME NEW g \in GCThread, Unlink(g) PROVE TypeInv'
    <2>1. TypeOK'
      BY <1>16 DEF Unlink, Waiting, TypeOK, tableVars, txnVars
    <2>2. EpochsOrdered'
      BY <1>16, EpochsKept, Zenon DEF Unlink, gcVars
    <2>3. TxnsOrdered'
      BY <1>16, TxnsKept, Zenon DEF Unlink, txnVars
    <2> QED
      BY <2>1, <2>2, <2>3, Zenon
  <1>17. ASSUME NEW g \in GCThread, Stamp(g) PROVE TypeInv'
    <2>1. \A c \in garbages[g] : [eid |-> epoch, gc_set |-> c.gc_set] \in Context
      BY MaxFacts DEF TypeOK, EpochsOrdered, Context
    <2>2. TypeOK'
      BY <1>17, <2>1 DEF Stamp, TypeOK, tableVars, txnVars
    <2>3. EpochsOrdered'
      BY <1>17, EpochsKept, Zenon DEF Stamp, gcVars
    <2>4. TxnsOrdered'
      BY <1>17, TxnsKept, Zenon DEF Stamp, txnVars
    <2> QED
      BY <2>2, <2>3, <2>4, Zenon
  <1>18. CASE AdvanceEpoch
    BY <1>18, MaxFacts DEF AdvanceEpoch, Advance, TypeOK, EpochsOrdered, TxnsOrdered, tableVars,
                           txnVars, gcVars
  <1>19. CASE UNCHANGED vars
    BY <1>19, Zenon DEF vars, TypeOK, EpochsOrdered, TxnsOrdered, epochVars, tableVars, txnVars, gcVars
  <1> QED
    BY <1>1, <1>2, <1>3, <1>4, <1>5, <1>6, <1>7, <1>8, <1>9, <1>10, <1>11, <1>12,
       <1>13, <1>14, <1>15, <1>16, <1>17, <1>18, <1>19, Zenon DEF Next, TxnStep, GCStep

\* Every variable of the collector keeps its type, with an epoch counter and
\* transactions that stay in step, whatever the constants are.
THEOREM TypesCorrect == Spec => []TypeOK
PROOF
  <1>1. TypeInv /\ [Next]_vars => TypeInv'
    BY TypeStep, Zenon
  <1>2. TypeInv => TypeOK
    BY Zenon DEF TypeInv
  <1> QED
    BY TypeInit, <1>1, <1>2, PTL DEF Spec

-----------------------------------------------------------------------------
(* Scans and the second wait. *)

\* A step that moves no scan, unlinks and recycles nothing, and changes no
\* epoch of a transaction in a scan.
LEMMA HeldKept ==
  ASSUME HeldInv, UNCHANGED <<cursor, held, reclaim_map>>,
         recycle_queue' \subseteq recycle_queue,
         \A x \in held : running'[x] = running[x]
  PROVE  HeldInv'
PROOF
  BY Zenon DEF HeldInv

\* A scan that moves to a version is held there only if the version has not
\* been unlinked.
LEMMA HeldMoved ==
  ASSUME TypeOK, HeldInv, NEW x \in Txn, NEW s \in Slot, MoveCursor(x, s),
         UNCHANGED <<epochVars, tableVars, gcVars>>
  PROVE  HeldInv'
PROOF
  <1> SUFFICES ASSUME NEW y \in held' \intersect Guarded PROVE HeldInv!(y)'
    BY ZenonT(30) DEF HeldInv
  <1>1. CASE y = x
    <2>1. cursor'[y] = s /\ s \notin Unlinked
      BY <1>1, Zenon DEF MoveCursor, TypeOK
    <2>2. s # NULL /\ s \notin recycle_queue
      BY <2>1, GCAssumption, Zenon DEF Unlinked
    <2>3. \A g \in GCThread : \A c \in reclaim_map[g] : s \notin c.gc_set
      BY <2>1, Zenon DEF Unlinked
    <2> QED
      BY <2>1, <2>2, <2>3, ZenonT(30) DEF gcVars
  <1>2. CASE y # x
    BY <1>2, Zenon DEF MoveCursor, HeldInv, TypeOK, epochVars, gcVars
  <1> QED
    BY <1>1, <1>2, ZenonT(30)

\* Every step keeps held versions out of reach of Reclaim.
LEMMA HeldStep ==
  ASSUME TypeInv, HeldInv, [Next]_vars
  PROVE  HeldInv'
PROOF
  <1> USE DEF TypeInv
  <1>1. ASSUME NEW x \in Txn, Begin(x) PROVE HeldInv'
    <2>1. x \notin held
      BY <1>1, Zenon DEF Begin, TxnsOrdered
    <2>2. \A y \in held : running'[y] = running[y]
      BY <1>1, <2>1, Zenon DEF Begin, Enter, TypeOK, EpochsOrdered
    <2> QED
      BY <1>1, <2>2, HeldKept, Zenon DEF Begin, gcVars
  <1>2. ASSUME NEW x \in Txn, Lookup(x) PROVE HeldInv'
    <2>1. PICK s \in Slot : MoveCursor(x, s)
      BY <1>2, GCAssumption, Zenon DEF Lookup, TypeOK
    <2> QED
      BY <1>2, <2>1, HeldMoved, Zenon DEF Lookup
  <1>3. ASSUME NEW x \in Txn, FollowNext(x) PROVE HeldInv'
    <2>1. PICK s \in Slot : MoveCursor(x, s)
      BY <1>3, GCAssumption, ZenonT(30) DEF FollowNext, TypeOK, Versions
    <2> QED
      BY <1>3, <2>1, HeldMoved, Zenon DEF FollowNext
  <1>4. ASSUME NEW x \in Txn, PerformInsert(x) PROVE HeldInv'
    BY <1>4, HeldKept, Zenon DEF PerformInsert, epochVars, GetEmptyTupleSlot, txnVars
  <1>5. ASSUME NEW x \in Txn, PerformWrite(x) PROVE HeldInv'
    BY <1>5, HeldKept DEF PerformWrite, epochVars, GetEmptyTupleSlot, txnVars
  <1>6. ASSUME NEW x \in Txn, DeleteOwn(x) PROVE HeldInv'
    BY <1>6, HeldKept, Zenon DEF DeleteOwn, epochVars, txnVars, gcVars
  <1>7. ASSUME NEW x \in Txn, CommitVersion(x) PROVE HeldInv'
    BY <1>7, HeldKept, Zenon DEF CommitVersion, epochVars, gcVars
  <1>8. ASSUME NEW x \in Txn, ReleaseVersion(x) PROVE HeldInv'
    BY <1>8, HeldKept, Zenon DEF ReleaseVersion, epochVars, gcVars
  <1>9. ASSUME NEW x \in Txn, DiscardInsert(x) PROVE HeldInv'
    BY <1>9, HeldKept, Zenon DEF DiscardInsert, epochVars, gcVars
  <1>10. ASSUME NEW x \in Txn, AbortVersion(x) PROVE HeldInv'
    BY <1>10, HeldKept, Zenon DEF AbortVersion, epochVars, gcVars
  <1>11. ASSUME NEW x \in Txn, RecycleTransaction(x) PROVE HeldInv'
    BY <1>11, HeldKept, Zenon DEF RecycleTransaction, epochVars
  <1>12. ASSUME NEW x \in Txn, EndRequest(x) PROVE HeldInv'
    BY <1>12, Zenon DEF EndRequest, HeldInv, TypeOK, epochVars, gcVars
  <1>13. ASSUME NEW x \in Txn, ExitEpoch(x) PROVE HeldInv'
    <2>1. x \notin held
      BY <1>13, ZenonT(30) DEF ExitEpoch, TxnsOrdered
    <2>2. \A y \in held : running'[y] = running[y]
      BY <1>13, <2>1, Zenon DEF ExitEpoch, Exit, TypeOK, EpochsOrdered
    <2> QED
      BY <1>13, <2>2, HeldKept, Zenon DEF ExitEpoch, gcVars
  <1>14. ASSUME NEW g \in GCThread, Sweep(g) PROVE HeldInv'
    BY <1>14, HeldKept, Zenon DEF Sweep, Expire, epochVars, txnVars
  <1>15. ASSUME NEW g \in GCThread, Reclaim(g) PROVE HeldInv'
    <2> SUFFICES ASSUME NEW x \in held \intersect Guarded PROVE HeldInv!(x)'
      BY <1>15, Zenon DEF Reclaim, txnVars, HeldInv
    <2>1. x \in Txn /\ x \in Guarded /\ running[x] # 0
      BY Zenon DEF TypeOK, TxnsOrdered, Busy
    <2>2. \A c \in ExpiredContexts(g) : cursor[x] \notin c.gc_set
      <3> SUFFICES ASSUME NEW c \in ExpiredContexts(g), cursor[x] \in c.gc_set PROVE FALSE
        BY Zenon
      <3>1. c \in reclaim_map[g] /\ c.eid <= expired_eid[g]
        BY Zenon DEF ExpiredContexts
      <3>2. running[x] <= c.eid
        BY <3>1, Zenon DEF HeldInv
      <3>3. c.eid \in Nat /\ expired_eid[g] \in Nat
        BY <3>1, MaxFacts DEF TypeOK, Context
      <3> QED
        BY <2>1, <3>1, <3>2, <3>3, SMTT(30) DEF EpochsOrdered
    <2>3. cursor[x] \notin recycle_queue'
      BY <1>15, <2>2, Zenon DEF Reclaim, HeldInv
    <2>4. \A h \in GCThread : reclaim_map'[h] \subseteq reclaim_map[h]
      BY <1>15, ZenonT(30) DEF Reclaim, TypeOK
    <2> QED
      BY <1>15, <2>3, <2>4, Zenon DEF Reclaim, HeldInv, txnVars, epochVars
  <1>16. ASSUME NEW g \in GCThread, Unlink(g) PROVE HeldInv'
    BY <1>16, HeldKept, Zenon DEF Unlink, epochVars, txnVars
  <1>17. ASSUME NEW g \in GCThread, Stamp(g) PROVE HeldInv'
    <2> SUFFICES ASSUME NEW x \in held \intersect Guarded PROVE HeldInv!(x)'
      BY <1>17, Zenon DEF Stamp, txnVars, HeldInv
    <2>1. x \in Txn /\ running[x] <= epoch
      <3>1. x \in Txn
        BY Zenon DEF TypeOK
      <3>2. running[x] # 0 => running[x] <= epoch
        BY <3>1, Zenon DEF EpochsOrdered
      <3>3. epoch \in 1 .. MaxEpoch
        BY Zenon DEF EpochsOrdered
      <3> QED
        BY ONLY <3>1, <3>2, <3>3, MaxFacts
    <2>2. ASSUME NEW h \in GCThread, NEW c \in reclaim_map'[h]
          PROVE  c \in reclaim_map[h] \/ c.eid = epoch
      BY <1>17 DEF Stamp, TypeOK
    <2> QED
      BY <1>17, <2>1, <2>2, ZenonT(30) DEF Stamp, HeldInv, txnVars, epochVars
  <1>18. CASE AdvanceEpoch
    BY <1>18, HeldKept, Zenon DEF AdvanceEpoch, Advance, txnVars, gcVars
  <1>19. CASE UNCHANGED vars
    BY <1>19, HeldKept, Zenon DEF vars, epochVars, txnVars, gcVars
  <1> QED
    BY <1>1, <1>2, <1>3, <1>4, <1>5, <1>6, <1>7, <1>8, <1>9, <1>10, <1>11, <1>12,
       <1>13, <1>14, <1>15, <1>16, <1>17, <1>18, <1>19, Zenon DEF Next, TxnStep, GCStep

\* A version that a scan reached before it was unlinked is not recycled while
\* the transaction runs, however many scans and collectors there are: the epoch
\* that Stamp reads is no older than the one the scan runs in.
THEOREM HeldIsSafe == Spec => []HeldNotRecycled
PROOF
  <1>1. Init => HeldInv
    BY Zenon DEF Init, HeldInv
  <1>2. TypeInv /\ HeldInv /\ [Next]_vars => TypeInv' /\ HeldInv'
    BY TypeStep, HeldStep, Zenon
  <1>3. HeldInv => HeldNotRecycled
    BY Zenon DEF HeldInv, HeldNotRecycled
  <1> QED
    BY TypeInit, <1>1, <1>2, <1>3, PTL DEF Spec
-----------------------------------------------------------------------------
(***************************************************************************)
(* The invariant of the table and of the garbage: where each slot is and   *)
(* who owns it.  Here: what the steps of a running transaction, and the    *)
(* timestamps of its commit, do to it.                                     *)
(***************************************************************************)

\* Contexts of two queues, or different contexts of one, share no slot.
Apart(Q, R) == \A c \in Q, d \in R : c.gc_set \intersect d.gc_set = {}

Separate(Q) == \A c, d \in Q : c # d => c.gc_set \intersect d.gc_set = {}

\* A context is in one of the four places of its thread.
OnePlace(g) ==
  /\ Separate(unlink_queue[g]) /\ Separate(local_unlink_queue[g])
  /\ Separate(garbages[g]) /\ Separate(reclaim_map[g])
  /\ Apart(unlink_queue[g], local_unlink_queue[g]) /\ Apart(unlink_queue[g], garbages[g])
  /\ Apart(unlink_queue[g], reclaim_map[g]) /\ Apart(local_unlink_queue[g], garbages[g])
  /\ Apart(local_unlink_queue[g], reclaim_map[g]) /\ Apart(garbages[g], reclaim_map[g])

\* A slot is free, or in the garbage of one transaction, or in one context, or
\* in none of these.
PlacesInv ==
  /\ \A g \in GCThread : OnePlace(g)
  /\ \A g \in GCThread : \A c \in ContextsOf(g) :
       /\ c.gc_set \intersect (recycle_queue \union unused) = {}
       /\ \A x \in Txn : c.gc_set \intersect gc_set[x] = {}
  /\ \A g, h \in GCThread : g # h => Apart(ContextsOf(g), ContextsOf(h))
  /\ \A x, y \in Txn : x # y => gc_set[x] \intersect gc_set[y] = {}
  /\ \A x \in Txn : gc_set[x] \intersect (recycle_queue \union unused) = {}

\* Slots that GetEmptyTupleSlot can hand out.
Free == recycle_queue \union unused

\* Slots on their way to be free.
InGarbage(s) ==
  \/ \E x \in Txn : s \in gc_set[x]
  \/ \E g \in GCThread : \E c \in ContextsOf(g) : s \in c.gc_set

queueVars == <<unlink_queue, local_unlink_queue, garbages, reclaim_map>>

\* Nothing in the slot can be seen after epoch e.
Dead(s, e) == version[s].empty \/ version[s].begin = MAX \/ version[s].end <= e

\* No transaction owns the version, and none can come to own it.
Settled(s) ==
  /\ version[s].owner \in {"INITIAL", "INVALID"}
  /\ version[s].owner = "INITIAL" => version[s].end # MAX

\* Garbage is settled, and dead in the epoch its context waits for.
GarbageInv ==
  /\ \A x \in Txn : status[x] = "idle" => gc_set[x] = {}
  /\ \A x \in Txn : \A s \in gc_set[x] : Settled(s) /\ Dead(s, commit_eid[x])
  /\ \A g \in GCThread : \A c \in unlink_queue[g] \union local_unlink_queue[g] :
       \A s \in c.gc_set :
         Settled(s) /\ Dead(s, epoch) /\ (SnapshotTxn = {} => Dead(s, c.eid))
  /\ \A g \in GCThread : \A c \in garbages[g] : \A s \in c.gc_set :
       Settled(s) /\ Dead(s, epoch) /\ (SnapshotTxn = {} => Dead(s, expired))
  /\ \A g \in GCThread : \A c \in reclaim_map[g] : \A s \in c.gc_set :
       Settled(s) /\ Dead(s, c.eid) /\ (SnapshotTxn = {} => Dead(s, expired))

\* The version that a pending one is to replace belongs to the same transaction,
\* has not ended and is replaced only once.
Replaces(x, n) ==
  LET s == version[n].next
  IN  s # NULL =>
        /\ version[s].owner = x /\ version[s].begin # MAX /\ version[s].end = MAX
        /\ s # install[x]
        /\ \A m \in Pending(x) : version[m].next = s => m = n

\* Between the two steps of an installation both versions are still owned.
Installs(x) ==
  LET n == install[x]
      s == version[n].next
  IN  n # NULL =>
        /\ version[n].owner = x /\ version[n].begin # MAX
        /\ s # NULL => /\ s # n /\ version[s].owner = x
                       /\ version[s].begin # MAX /\ version[s].end = commit_eid[x]

\* Who owns what.
OwnerInv ==
  /\ \A s \in Slot : version[s].owner = "INITIAL" => version[s].begin # MAX
  /\ \A x \in Txn : \A n \in Pending(x) : Replaces(x, n)
  /\ \A x \in Txn : Installs(x)

\* Layer 3, proved with layer 1.
TableInv == FreeIsEmpty /\ PlacesInv /\ OwnerInv /\ GarbageInv
-----------------------------------------------------------------------------
(* Free slots, owned versions and garbage. *)

\* Everything handed to the collector is settled, and none of it is free.
LEMMA GarbageFacts ==
  ASSUME PlacesInv, GarbageInv, NEW s, InGarbage(s)
  PROVE  Settled(s) /\ s \notin Free
PROOF
  BY ZenonT(30) DEF PlacesInv, GarbageInv, InGarbage, Free, ContextsOf

\* The names of transactions are not the two marks that an owner field can hold.
LEMMA OwnerMarks ==
  \A x \in Txn : x # "INVALID" /\ x # "INITIAL"
PROOF
  BY GCAssumption, Zenon

\* A step that frees no slot and writes to no free one.
LEMMA FreeKept ==
  ASSUME FreeIsEmpty, Free' \subseteq Free, \A s \in Free' : version'[s] = version[s]
  PROVE  FreeIsEmpty'
PROOF
  BY Zenon DEF FreeIsEmpty, Free

\* A step that moves no garbage and frees no slot.
LEMMA PlacesKept ==
  ASSUME PlacesInv, UNCHANGED <<queueVars, gc_set>>, Free' \subseteq Free
  PROVE  PlacesInv'
PROOF
  BY Zenon DEF PlacesInv, OnePlace, queueVars, ContextsOf, Free

\* A transaction adds slots to its garbage that are nowhere else.
LEMMA PlacesGrow ==
  ASSUME PlacesInv, TypeOK, UNCHANGED <<queueVars, recycle_queue, unused>>,
         NEW x \in Txn, NEW S \in SUBSET Slot,
         \A s \in S : ~ InGarbage(s) /\ s \notin Free,
         gc_set' = [gc_set EXCEPT ![x] = @ \union S]
  PROVE  PlacesInv'
PROOF
  <1>1. /\ gc_set'[x] = gc_set[x] \union S
        /\ \A y \in Txn \ {x} : gc_set'[y] = gc_set[y]
    BY Zenon DEF TypeOK
  <1>2. \A g \in GCThread : \A c \in ContextsOf(g) :
          /\ c.gc_set \intersect Free = {}
          /\ \A y \in Txn : c.gc_set \intersect gc_set'[y] = {}
    BY <1>1, ZenonT(30) DEF PlacesInv, InGarbage, Free
  <1>3. /\ \A y, z \in Txn : y # z => gc_set'[y] \intersect gc_set'[z] = {}
        /\ \A y \in Txn : gc_set'[y] \intersect Free = {}
    BY <1>1, ZenonT(30) DEF PlacesInv, InGarbage, Free
  <1> QED
    BY <1>2, <1>3, Zenon DEF PlacesInv, OnePlace, queueVars, ContextsOf, Free

\* A step that writes to no version.
LEMMA OwnerKept ==
  ASSUME OwnerInv, UNCHANGED <<version, install>>,
         \A x \in Txn : install[x] # NULL => commit_eid'[x] = commit_eid[x]
  PROVE  OwnerInv'
PROOF
  BY SMTT(30) DEF OwnerInv, Pending, Replaces, Installs

\* Garbage stays dead as epochs pass, as long as its headers are not written.
LEMMA GarbageKept ==
  ASSUME GarbageInv, TypeInv, TypeInv', UNCHANGED <<queueVars, gc_set>>,
         \A x \in Txn : gc_set[x] # {} => commit_eid'[x] = commit_eid[x] /\ status'[x] # "idle",
         epoch <= epoch', expired <= expired',
         \A s \in Slot : InGarbage(s) => version'[s] = version[s]
  PROVE  GarbageInv'
PROOF
  <1> USE DEF TypeInv
  <1>1. ASSUME NEW s \in Slot, InGarbage(s)
        PROVE  /\ Settled(s) => Settled(s)'
               /\ \A e : Dead(s, e) => Dead(s, e)'
               /\ Dead(s, epoch) => Dead(s, epoch)'
               /\ Dead(s, expired) => Dead(s, expired)'
    <2>1. version'[s] = version[s] /\ version[s].end \in Nat
      BY <1>1, MaxFacts DEF TypeOK, Versions
    <2> QED
      BY <2>1, MaxFacts DEF Settled, Dead, EpochsOrdered
  <1>2. \A x \in Txn : \A s \in gc_set[x] : s \in Slot /\ InGarbage(s)
    BY ZenonT(30) DEF InGarbage, TypeOK
  <1>3. \A g \in GCThread : \A c \in ContextsOf(g) : \A s \in c.gc_set : s \in Slot /\ InGarbage(s)
    BY SMTT(30) DEF InGarbage, ContextsOf, TypeOK, Context
  <1>4. \A x \in Txn : status'[x] = "idle" => gc_set'[x] = {}
    BY Zenon DEF queueVars
  <1>5. \A x \in Txn : \A s \in gc_set'[x] : Settled(s)' /\ Dead(s, commit_eid[x])'
    BY <1>1, <1>2, Zenon DEF GarbageInv
  <1> QED
    BY <1>1, <1>2, <1>3, <1>4, <1>5, Zenon DEF GarbageInv, queueVars, ContextsOf

\* The same for a step that changes neither epochs nor the ends of transactions.
LEMMA GarbageQuiet ==
  ASSUME GarbageInv, TypeInv, TypeInv',
         UNCHANGED <<epochVars, queueVars, gc_set, commit_eid, status>>,
         \A s \in Slot : InGarbage(s) => version'[s] = version[s]
  PROVE  GarbageInv'
PROOF
  <1>1. \A x \in Txn : gc_set[x] # {} => commit_eid'[x] = commit_eid[x] /\ status'[x] # "idle"
    BY Zenon DEF GarbageInv
  <1>2. epoch <= epoch' /\ expired <= expired'
    BY MaxFacts DEF TypeInv, EpochsOrdered, epochVars
  <1> QED
    BY <1>1, <1>2, GarbageKept, ZenonT(30)

\* The table is only touched by the steps below; any other step that leaves
\* the garbage where it is keeps the invariant.
LEMMA TableKept ==
  ASSUME TableInv, TypeInv, TypeInv',
         UNCHANGED <<tableVars, install, queueVars, recycle_queue, gc_set>>,
         \A x \in Txn : gc_set[x] # {} => commit_eid'[x] = commit_eid[x] /\ status'[x] # "idle",
         \A x \in Txn : install[x] # NULL => commit_eid'[x] = commit_eid[x],
         epoch <= epoch', expired <= expired'
  PROVE  TableInv'
PROOF
  BY FreeKept, PlacesKept, OwnerKept, GarbageKept, ZenonT(30) DEF TableInv, tableVars, Free

\* The same for a step that only moves a transaction.
LEMMA TableQuiet ==
  ASSUME TableInv, TypeInv, TypeInv',
         UNCHANGED <<epoch, expired, tableVars, install, queueVars, recycle_queue, gc_set,
                     commit_eid>>,
         \A x \in Txn : status'[x] = "idle" => status[x] = "idle"
  PROVE  TableInv'
PROOF
  <1>1. \A x \in Txn : gc_set[x] # {} => commit_eid'[x] = commit_eid[x] /\ status'[x] # "idle"
    BY ZenonT(30) DEF TableInv, GarbageInv
  <1>2. epoch <= epoch' /\ expired <= expired'
    BY MaxFacts DEF TypeInv, EpochsOrdered
  <1> QED
    BY <1>1, <1>2, TableKept, Zenon

\* What a transaction owns is not disturbed by writes to headers that it owns
\* neither before nor after.
LEMMA OwnedKept ==
  ASSUME OwnerInv, TypeInv, NEW y \in Txn, install'[y] = install[y],
         install[y] # NULL => commit_eid'[y] = commit_eid[y],
         \A t \in Slot : version'[t] = version[t]
                          \/ (version[t].owner # y /\ version'[t].owner # y)
  PROVE  Installs(y)' /\ \A m \in Pending(y)' : Replaces(y, m)'
PROOF
  <1> USE DEF TypeInv
  <1>1. \A t \in Slot : version[t].owner = y => version'[t] = version[t]
    BY Zenon
  <1>2. Pending(y)' = Pending(y) /\ \A m \in Pending(y) : m \in Slot /\ version'[m] = version[m]
    BY Zenon DEF Pending
  <1>3. ASSUME NEW m \in Pending(y) PROVE Replaces(y, m)'
    <2> SUFFICES ASSUME version[m].next # NULL PROVE Replaces(y, m)'
      BY <1>2, ZenonT(30) DEF Replaces
    <2>1. version[m].next \in Slot /\ Replaces(y, m)
      BY <1>2, Zenon DEF TypeOK, Versions, OwnerInv
    <2>2. version[version[m].next].owner = y
      BY <2>1, Zenon DEF Replaces
    <2> QED
      BY <1>1, <1>2, <2>1, <2>2, ZenonT(30) DEF Replaces
  <1>4. Installs(y)'
    <2> SUFFICES ASSUME install[y] # NULL PROVE Installs(y)'
      BY Zenon DEF Installs
    <2>1. install[y] \in Slot /\ Installs(y) /\ version[install[y]].owner = y
      BY SMTT(30) DEF TypeOK, OwnerInv, Installs
    <2>2. version'[install[y]] = version[install[y]]
      BY <1>1, <2>1, Zenon
    <2>3. CASE version[install[y]].next # NULL
      <3>1. /\ version[install[y]].next \in Slot
            /\ version[version[install[y]].next].owner = y
        BY <2>1, <2>3, ZenonT(30) DEF TypeOK, Versions, Installs
      <3> QED
        BY <1>1, <2>1, <2>2, <3>1, Zenon DEF Installs
    <2> QED
      BY <2>1, <2>2, <2>3, Zenon DEF Installs
  <1> QED
    BY <1>2, <1>3, <1>4, ZenonT(30)

\* Insertion: the new version is taken from the free slots.
LEMMA InsertKeeps ==
  ASSUME TableInv, TypeInv, TypeInv', NEW x \in Txn, PerformInsert(x)
  PROVE  TableInv'
PROOF
  <1> USE DEF TypeInv, TableInv
  <1>1. PICK e \in Entry, n \in Slot :
          /\ GetEmptyTupleSlot(n)
          /\ version' = [version EXCEPT ![n] = NewVersion(e, NULL, x, FALSE)]
    BY ZenonT(30) DEF PerformInsert
  <1>2. n \in Free /\ Free' = Free \ {n} /\ version[n].owner = "INVALID"
    BY <1>1, Zenon DEF GetEmptyTupleSlot, Free, FreeIsEmpty
  <1>3. /\ \A t \in Slot \ {n} : version'[t] = version[t]
        /\ version'[n].owner = x /\ version'[n].next = NULL
    BY <1>1, Zenon DEF TypeOK, NewVersion
  <1>4. UNCHANGED <<epochVars, txnVars, queueVars>>
    BY Zenon DEF PerformInsert, queueVars
  <1>5. FreeIsEmpty'
    BY <1>2, <1>3, FreeKept, Zenon DEF TypeOK, Free
  <1>6. PlacesInv'
    BY <1>2, <1>4, PlacesKept, ZenonT(30) DEF txnVars
  <1>7. OwnerInv'
    <2>1. \A s \in Slot : version'[s].owner = "INITIAL" => version'[s].begin # MAX
      BY <1>3, OwnerMarks, ZenonT(30) DEF OwnerInv
    <2>2. \A y \in Txn \ {x} : Installs(y)' /\ \A m \in Pending(y)' : Replaces(y, m)'
      BY <1>2, <1>3, <1>4, OwnedKept, OwnerMarks, ZenonT(30) DEF txnVars
    <2>3. Installs(x)'
      BY <1>4, TypeInv, ZenonT(30) DEF PerformInsert, TxnsOrdered, Installs, txnVars
    <2>4. ASSUME NEW m \in Pending(x)' PROVE Replaces(x, m)'
      <3>1. \A k \in Pending(x)' : k # n => k \in Pending(x) /\ version'[k] = version[k]
        BY <1>3, ZenonT(30) DEF Pending
      <3> SUFFICES ASSUME version'[m].next # NULL PROVE Replaces(x, m)'
        BY Zenon DEF Replaces
      <3>2. m # n /\ m \in Pending(x) /\ version'[m] = version[m] /\ Replaces(x, m)
        BY <1>3, <3>1, Zenon DEF OwnerInv
      <3>3. version[m].next \in Slot /\ version[version[m].next].owner = x
        BY <3>2 DEF TypeOK, Versions, Pending, Replaces
      <3>4. version[m].next # n
        BY <1>2, <3>3, OwnerMarks, Zenon
      <3> QED
        BY <1>3, <1>4, <3>1, <3>2, <3>3, <3>4, ZenonT(30) DEF Replaces, txnVars
    <2> QED
      BY <2>1, <2>2, <2>3, <2>4, ZenonT(30) DEF OwnerInv
  <1>8. GarbageInv'
    <2>1. \A s \in Slot : InGarbage(s) => version'[s] = version[s]
      BY <1>2, <1>3, GarbageFacts, ZenonT(30)
    <2> QED
      BY <1>4, <2>1, GarbageQuiet, Zenon DEF txnVars
  <1> QED
    BY <1>5, <1>6, <1>7, <1>8, Zenon

\* Update and delete: the newest version, which is not garbage, gets an owner
\* and a successor taken from the free slots.
LEMMA WriteKeeps ==
  ASSUME TableInv, TypeInv, TypeInv', NEW x \in Txn, PerformWrite(x)
  PROVE  TableInv'
PROOF
  <1> USE DEF TypeInv, TableInv
  <1>1. PICK e \in Entry, s, n \in Slot, st \in Statements \intersect {"update", "delete"} :
          /\ head[e] = s /\ version[s].entry = e
          /\ version[s].owner = "INITIAL" /\ version[s].end = MAX
          /\ x \notin SnapshotTxn \/ st # "delete" => version[s].begin <= commit_eid[x]
          /\ GetEmptyTupleSlot(n)
          /\ head' = [head EXCEPT ![e] = n]
          /\ version' = [version EXCEPT ![s].owner = x,
                                       ![n] = NewVersion(e, s, x, st = "delete")]
    BY Zenon DEF PerformWrite
  <1>2. n \in Free /\ Free' = Free \ {n} /\ version[n].owner = "INVALID" /\ n # s
    BY <1>1, Zenon DEF GetEmptyTupleSlot, Free, FreeIsEmpty
  <1>3. /\ \A t \in Slot \ {n, s} : version'[t] = version[t]
        /\ version'[n].owner = x /\ version'[n].next = s
        /\ version'[s].owner = x /\ version'[s].begin = version[s].begin
        /\ version'[s].end = MAX /\ version[s].begin # MAX
    BY <1>1, <1>2 DEF TypeOK, Versions, NewVersion, OwnerInv
  <1>4. UNCHANGED <<epochVars, txnVars, queueVars>> /\ install[x] = NULL
    BY Zenon DEF PerformWrite, queueVars, TxnsOrdered
  <1>5. FreeIsEmpty'
    BY <1>1, <1>2, <1>3, FreeKept, Zenon DEF TypeOK, Free, FreeIsEmpty
  <1>6. PlacesInv'
    BY <1>2, <1>4, PlacesKept, ZenonT(30) DEF txnVars
  <1>7. OwnerInv'
    <2>1. \A t \in Slot : version'[t].owner = "INITIAL" => version'[t].begin # MAX
      BY <1>3, OwnerMarks DEF OwnerInv
    <2>2. \A y \in Txn \ {x} : Installs(y)' /\ \A m \in Pending(y)' : Replaces(y, m)'
      BY <1>1, <1>2, <1>3, <1>4, OwnedKept, OwnerMarks, ZenonT(30) DEF txnVars
    <2>3. Installs(x)'
      BY <1>4, ZenonT(30) DEF Installs, txnVars
    <2>4. \A k \in Pending(x)' : k # n => k \in Pending(x) /\ version'[k] = version[k]
      BY <1>3, ZenonT(30) DEF Pending
    <2>5. \A k \in Pending(x) : version[k].next # s /\ version[k].next # n
      <3> SUFFICES ASSUME NEW k \in Pending(x), version[k].next # NULL
                   PROVE  version[k].next # s /\ version[k].next # n
        BY GCAssumption, Zenon
      <3>1. version[version[k].next].owner = x
        BY ZenonT(30) DEF OwnerInv, Replaces
      <3> QED
        BY <1>1, <1>2, <3>1, OwnerMarks, Zenon
    <2>6. ASSUME NEW m \in Pending(x)' PROVE Replaces(x, m)'
      <3>1. CASE m = n
        <4>1. /\ version'[n].next = s /\ version'[s].owner = x
              /\ version'[s].begin # MAX /\ version'[s].end = MAX
          BY <1>3, Zenon
        <4>2. s # NULL => s # install'[x]
          BY <1>4, Zenon DEF txnVars
        <4>3. \A k \in Pending(x)' : version'[k].next = s => k = n
          BY <2>4, <2>5, Zenon
        <4> QED
          BY <3>1, <4>1, <4>2, <4>3, Zenon DEF Replaces
      <3>2. CASE m # n
        <4> SUFFICES ASSUME version'[m].next # NULL PROVE Replaces(x, m)'
          BY ZenonT(30) DEF Replaces
        <4>1. m \in Pending(x) /\ version'[m] = version[m] /\ Replaces(x, m)
          BY <2>4, <3>2, Zenon DEF OwnerInv
        <4>2. version[m].next \in Slot \ {n, s}
          BY <2>5, <4>1, ZenonT(30) DEF TypeOK, Versions, Pending
        <4> QED
          BY <1>3, <1>4, <2>4, <4>1, <4>2, Zenon DEF Replaces, txnVars
      <3> QED
        BY <3>1, <3>2, Zenon
    <2> QED
      BY <2>1, <2>2, <2>3, <2>6, ZenonT(30) DEF OwnerInv
  <1>8. GarbageInv'
    <2>1. \A t \in Slot : InGarbage(t) => version'[t] = version[t]
      BY <1>1, <1>2, <1>3, GarbageFacts, ZenonT(30) DEF Settled
    <2> QED
      BY <1>4, <2>1, GarbageQuiet, ZenonT(30) DEF txnVars
  <1> QED
    BY <1>5, <1>6, <1>7, <1>8, Zenon

\* Deletion of an own version only marks its header.
LEMMA DeleteOwnKeeps ==
  ASSUME TableInv, TypeInv, TypeInv', NEW x \in Txn, DeleteOwn(x)
  PROVE  TableInv'
PROOF
  <1> USE DEF TypeInv, TableInv
  <1>1. PICK n \in Slot :
          /\ version[n].owner = x /\ version[n].begin = MAX /\ ~ version[n].empty
          /\ version' = [version EXCEPT ![n].empty = TRUE]
    BY Zenon DEF DeleteOwn
  <1>2. /\ \A t \in Slot \ {n} : version'[t] = version[t]
        /\ version'[n].owner = x /\ version'[n].begin = MAX
        /\ version'[n].end = version[n].end /\ version'[n].next = version[n].next
    BY <1>1 DEF TypeOK, Versions
  <1>3. UNCHANGED <<epochVars, txnVars, queueVars, recycle_queue, unused>>
    BY Zenon DEF DeleteOwn, gcVars, queueVars
  <1>4. FreeIsEmpty'
    BY <1>1, <1>2, <1>3, FreeKept, OwnerMarks DEF TypeOK, Free, FreeIsEmpty
  <1>5. PlacesInv'
    BY <1>3, PlacesKept, Zenon DEF txnVars, Free
  <1>6. OwnerInv'
    <2>1. \A t \in Slot : version'[t].owner = "INITIAL" => version'[t].begin # MAX
      BY <1>2, OwnerMarks, Zenon DEF OwnerInv
    <2>2. \A y \in Txn \ {x} : Installs(y)' /\ \A m \in Pending(y)' : Replaces(y, m)'
      BY <1>1, <1>2, <1>3, OwnedKept, Zenon DEF txnVars
    <2>3. Installs(x)'
      BY <1>3, Zenon DEF DeleteOwn, TxnsOrdered, Installs, txnVars
    <2>4. \A k \in Pending(x)' : k \in Pending(x) /\ version'[k].next = version[k].next
      BY <1>1, <1>2, Zenon DEF Pending
    <2>5. ASSUME NEW m \in Pending(x)' PROVE Replaces(x, m)'
      <3> SUFFICES ASSUME version'[m].next # NULL PROVE Replaces(x, m)'
        BY Zenon DEF Replaces
      <3>1. m \in Pending(x) /\ version'[m].next = version[m].next /\ Replaces(x, m)
        BY <2>4, ZenonT(30) DEF OwnerInv
      <3>2. version[m].next \in Slot \ {n}
        BY <1>1, <3>1 DEF TypeOK, Versions, Pending, Replaces
      <3> QED
        BY <1>2, <1>3, <2>4, <3>1, <3>2, ZenonT(30) DEF Replaces, txnVars
    <2> QED
      BY <2>1, <2>2, <2>3, <2>5, Zenon DEF OwnerInv
  <1>7. GarbageInv'
    <2>1. \A t \in Slot : InGarbage(t) => version'[t] = version[t]
      BY <1>1, <1>2, GarbageFacts, OwnerMarks, Zenon DEF Settled
    <2> QED
      BY <1>3, <2>1, GarbageQuiet, Zenon DEF txnVars
  <1> QED
    BY <1>4, <1>5, <1>6, <1>7, Zenon

\* Commit, the timestamps: the new version is no longer pending, the old one
\* ends.
LEMMA CommitKeeps ==
  ASSUME TableInv, TypeInv, TypeInv', NEW x \in Txn, CommitVersion(x)
  PROVE  TableInv'
PROOF
  <1> USE DEF TypeInv, TableInv
  <1>1. PICK n \in Pending(x) :
          /\ version' = [t \in Slot |->
               CASE t = n -> [version[n] EXCEPT !.begin = commit_eid[x]]
                 [] t = version[n].next -> [version[version[n].next] EXCEPT !.end = commit_eid[x]]
                 [] OTHER -> version[t]]
          /\ install' = [install EXCEPT ![x] = n]
    BY Zenon DEF CommitVersion
  <1>2. PICK s : s = version[n].next
    BY Zenon
  <1>3. /\ n \in Slot /\ version[n].owner = x /\ version[n].begin = MAX
        /\ s \in Slot \union {NULL} /\ (s \in Slot => s # NULL)
    BY <1>2, GCAssumption, ZenonT(30) DEF Pending, TypeOK, Versions
  <1>4. s # NULL => s # n /\ version[s].owner = x /\ version[s].begin # MAX /\ version[s].end = MAX
    BY <1>2, <1>3, ZenonT(30) DEF OwnerInv, Replaces
  <1>5. commit_eid[x] # MAX
    BY MaxFacts DEF TypeOK
  <1>6. /\ \A t \in Slot \ {n, s} : version'[t] = version[t]
        /\ version'[n].owner = x /\ version'[n].begin = commit_eid[x] /\ version'[n].next = s
        /\ s # NULL => /\ version'[s].owner = x /\ version'[s].begin = version[s].begin
                       /\ version'[s].end = commit_eid[x]
    <2>1. \A t \in Slot \ {n, s} : version'[t] = version[t]
      BY <1>1, <1>2, Zenon
    <2>2. version'[n] = [version[n] EXCEPT !.begin = commit_eid[x]] /\ version[n] \in Versions
      BY <1>1, <1>2, <1>3, <1>4, GCAssumption DEF TypeOK
    <2>3. s # NULL => /\ version'[s] = [version[s] EXCEPT !.end = commit_eid[x]]
                      /\ version[s] \in Versions
      BY <1>1, <1>2, <1>3, <1>4, Zenon DEF TypeOK
    <2> QED
      BY <1>2, <1>3, <1>4, <2>1, <2>2, <2>3 DEF Versions
  <1>7. /\ UNCHANGED <<epochVars, queueVars, recycle_queue, unused, gc_set, commit_eid, status>>
        /\ install'[x] = n /\ \A y \in Txn \ {x} : install'[y] = install[y]
    BY <1>1, Zenon DEF CommitVersion, gcVars, queueVars, TypeOK
  <1>8. FreeIsEmpty'
    BY <1>3, <1>4, <1>6, <1>7, FreeKept, OwnerMarks, SMTT(30) DEF TypeOK, Free, FreeIsEmpty
  <1>9. PlacesInv'
    BY <1>7, PlacesKept, ZenonT(30) DEF Free
  <1>10. OwnerInv'
    <2>1. \A t \in Slot : version'[t].owner = "INITIAL" => version'[t].begin # MAX
      BY <1>3, <1>4, <1>6, OwnerMarks, ZenonT(30) DEF OwnerInv
    <2>2. \A y \in Txn \ {x} : Installs(y)' /\ \A m \in Pending(y)' : Replaces(y, m)'
      BY <1>3, <1>4, <1>6, <1>7, OwnedKept, ZenonT(30)
    <2>3. Installs(x)'
      BY <1>3, <1>4, <1>5, <1>6, <1>7, GCAssumption, Zenon DEF Installs
    <2>4. \A k \in Pending(x)' : k # n /\ k \in Pending(x) /\ version'[k] = version[k]
      BY <1>3, <1>4, <1>5, <1>6, Zenon DEF Pending
    <2>5. ASSUME NEW m \in Pending(x)' PROVE Replaces(x, m)'
      <3> SUFFICES ASSUME version'[m].next # NULL PROVE Replaces(x, m)'
        BY Zenon DEF Replaces
      <3>1. m # n /\ m \in Pending(x) /\ version'[m] = version[m] /\ Replaces(x, m)
        BY <2>4, ZenonT(30) DEF OwnerInv
      <3>2. version[m].next # n
        BY <1>3, <3>1, ZenonT(30) DEF Replaces
      <3>3. version[m].next # s
        BY <1>2, <3>1, Zenon DEF Replaces
      <3>4. version[m].next \in Slot \ {n, s}
        BY <3>1, <3>2, <3>3, ZenonT(30) DEF TypeOK, Versions, Pending
      <3> QED
        BY <1>6, <1>7, <2>4, <3>1, <3>4, Zenon DEF Replaces
    <2> QED
      BY <2>1, <2>2, <2>3, <2>5, Zenon DEF OwnerInv
  <1>11. GarbageInv'
    <2>1. ~ InGarbage(n) /\ (s # NULL => ~ InGarbage(s))
      BY <1>3, <1>4, GarbageFacts, OwnerMarks, Zenon DEF Settled
    <2>2. \A t \in Slot : InGarbage(t) => version'[t] = version[t]
      BY <1>3, <1>6, <2>1, Zenon
    <2> QED
      BY <1>7, <2>2, GarbageQuiet, ZenonT(30)
  <1> QED
    BY <1>8, <1>9, <1>10, <1>11, Zenon
-----------------------------------------------------------------------------
(***************************************************************************)
(* What the end of a transaction does to the invariant of the table: its   *)
(* versions are released or withdrawn, and its garbage is handed over.     *)
(***************************************************************************)

\* A transaction that ends adds settled and dead versions to its garbage.
LEMMA GarbageGrow ==
  ASSUME GarbageInv, TypeInv, NEW x \in Txn, NEW S \in SUBSET Slot, status[x] # "idle",
         UNCHANGED <<epochVars, queueVars, status, commit_eid>>,
         gc_set' = [gc_set EXCEPT ![x] = @ \union S],
         \A s \in S : Settled(s)' /\ Dead(s, commit_eid[x])',
         \A s \in Slot : InGarbage(s) => version'[s] = version[s]
  PROVE  GarbageInv'
PROOF
  <1> USE DEF TypeInv
  <1>1. ASSUME NEW s \in Slot, InGarbage(s)
        PROVE  (Settled(s) => Settled(s)') /\ \A e : Dead(s, e) => Dead(s, e)'
    BY <1>1, ZenonT(30) DEF Settled, Dead
  <1>2. /\ gc_set'[x] = gc_set[x] \union S
        /\ \A y \in Txn \ {x} : gc_set'[y] = gc_set[y]
    BY Zenon DEF TypeOK
  <1>3. \A y \in Txn : \A s \in gc_set[y] : s \in Slot /\ InGarbage(s)
    BY ZenonT(30) DEF InGarbage, TypeOK
  <1>4. \A g \in GCThread : \A c \in ContextsOf(g) : \A s \in c.gc_set : s \in Slot /\ InGarbage(s)
    BY SMTT(30) DEF InGarbage, ContextsOf, TypeOK, Context
  <1>5. \A y \in Txn : status'[y] = "idle" => gc_set'[y] = {}
    BY <1>2, Zenon DEF GarbageInv
  <1>6. \A y \in Txn : \A s \in gc_set'[y] : Settled(s)' /\ Dead(s, commit_eid[y])'
    BY <1>1, <1>2, <1>3, Zenon DEF GarbageInv
  <1> QED
    BY <1>1, <1>4, <1>5, <1>6, ZenonT(30) DEF GarbageInv, queueVars, epochVars, ContextsOf

\* Commit, the release: the old version, and an empty new one, become garbage.
LEMMA ReleaseKeeps ==
  ASSUME TableInv, TypeInv, TypeInv', NEW x \in Txn, ReleaseVersion(x)
  PROVE  TableInv'
PROOF
  <1> USE DEF TypeInv, TableInv
  <1> DEFINE n == install[x]
             s == version[n].next
             o == IF version[n].empty THEN "INVALID" ELSE "INITIAL"
             S == (IF s = NULL THEN {} ELSE {s}) \union (IF version[n].empty THEN {n} ELSE {})
  <1>1. version' = [t \in Slot |->
          CASE t = n -> [version[n] EXCEPT !.owner = o]
            [] t = s -> [version[s] EXCEPT !.owner = "INITIAL"]
            [] OTHER -> version[t]]
    BY Zenon DEF ReleaseVersion
  <1>2. gc_set' = [gc_set EXCEPT ![x] = @
          \union (IF s = NULL THEN {} ELSE {s}) \union (IF version[n].empty THEN {n} ELSE {})]
    BY Zenon DEF ReleaseVersion
  <1>3. /\ n = install[x] /\ s = version[n].next
        /\ o = IF version[n].empty THEN "INVALID" ELSE "INITIAL"
    BY ZenonT(30)
  <1>4. S = (IF s = NULL THEN {} ELSE {s}) \union (IF version[n].empty THEN {n} ELSE {})
    BY Zenon
  <1> HIDE DEF n, s, o, S
  <1>5. /\ n \in Slot /\ version[n].owner = x /\ version[n].begin # MAX
        /\ s \in Slot \union {NULL} /\ (s \in Slot => s # NULL)
        /\ s # NULL => /\ s # n /\ version[s].owner = x /\ version[s].begin # MAX
                       /\ version[s].end = commit_eid[x]
    <2>1. n \in Slot /\ Installs(x)
      BY <1>3, ZenonT(30) DEF ReleaseVersion, OwnerInv, TypeOK
    <2>2. s \in Slot \union {NULL}
      BY <1>3, <2>1, ZenonT(30) DEF TypeOK, Versions
    <2> QED
      BY <1>3, <2>1, <2>2, GCAssumption, ZenonT(30) DEF Installs
  <1>6. commit_eid[x] # MAX
    BY MaxFacts DEF TypeOK
  <1>7. /\ \A t \in Slot \ {n, s} : version'[t] = version[t]
        /\ version'[n].owner = o /\ version'[n].begin = version[n].begin
        /\ version'[n].empty = version[n].empty
        /\ s # NULL => /\ version'[s].owner = "INITIAL" /\ version'[s].begin = version[s].begin
                       /\ version'[s].end = commit_eid[x]
    <2>1. \A t \in Slot \ {n, s} : version'[t] = version[t]
      BY <1>1, Zenon
    <2>2. version'[n] = [version[n] EXCEPT !.owner = o] /\ version[n] \in Versions
      BY <1>1, <1>5, Zenon DEF TypeOK
    <2>3. s # NULL => /\ version'[s] = [version[s] EXCEPT !.owner = "INITIAL"]
                      /\ version[s] \in Versions
      BY <1>1, <1>5, Zenon DEF TypeOK
    <2> QED
      BY <1>5, <2>1, <2>2, <2>3, Zenon DEF Versions
  <1>8. /\ UNCHANGED <<epochVars, queueVars, recycle_queue, unused, commit_eid, status>>
        /\ install'[x] = NULL /\ \A y \in Txn \ {x} : install'[y] = install[y]
        /\ status[x] = "commit"
    BY DEF ReleaseVersion, gcVars, queueVars, TypeOK, TxnsOrdered
  <1>9. S \in SUBSET Slot /\ gc_set' = [gc_set EXCEPT ![x] = @ \union S]
    <2>1. S \in SUBSET Slot
      BY <1>4, <1>5, Zenon
    <2>2. gc_set[x] \union (IF s = NULL THEN {} ELSE {s})
            \union (IF version[n].empty THEN {n} ELSE {}) = gc_set[x] \union S
      BY <1>4, Zenon
    <2> QED
      BY <1>2, <2>1, <2>2, Zenon
  <1>10. \A t \in S : ~ InGarbage(t) /\ t \notin Free
    BY <1>4, <1>5, GarbageFacts, OwnerMarks DEF Settled, FreeIsEmpty, Free
  <1>11. FreeIsEmpty'
    <2>1. \A t \in Free : t \in Slot \ {n, s}
      BY <1>5, OwnerMarks DEF TypeOK, Free, FreeIsEmpty
    <2> QED
      BY <1>7, <1>8, <2>1, FreeKept, ZenonT(30) DEF Free
  <1>12. PlacesInv'
    BY <1>8, <1>9, <1>10, PlacesGrow, ZenonT(30)
  <1>13. OwnerInv'
    <2>1. \A t \in Slot : version'[t].owner = "INITIAL" => version'[t].begin # MAX
      BY <1>5, <1>7, Zenon DEF OwnerInv
    <2>2. \A y \in Txn \ {x} : Installs(y)' /\ \A m \in Pending(y)' : Replaces(y, m)'
      <3> SUFFICES ASSUME NEW y \in Txn, y # x
                   PROVE  Installs(y)' /\ \A m \in Pending(y)' : Replaces(y, m)'
        BY Zenon
      <3>1. install'[y] = install[y] /\ commit_eid'[y] = commit_eid[y]
        BY <1>8, Zenon
      <3>2. o # y
        BY <1>3, OwnerMarks, Zenon
      <3>3. \A t \in Slot : version'[t] = version[t]
                            \/ (version[t].owner # y /\ version'[t].owner # y)
        BY <1>5, <1>7, <3>2, OwnerMarks, ZenonT(30)
      <3> QED
        BY <3>1, <3>3, OwnedKept, Zenon
    <2>3. Installs(x)'
      BY <1>8, ZenonT(30) DEF Installs
    <2>4. \A k \in Pending(x)' : k \in Pending(x) /\ version'[k] = version[k]
      BY <1>5, <1>7, ZenonT(30) DEF Pending
    <2>5. ASSUME NEW m \in Pending(x)' PROVE Replaces(x, m)'
      <3> SUFFICES ASSUME version'[m].next # NULL PROVE Replaces(x, m)'
        BY ZenonT(30) DEF Replaces
      <3>1. m \in Pending(x) /\ version'[m] = version[m] /\ Replaces(x, m)
        BY <2>4, Zenon DEF OwnerInv
      <3>2. version[m].next # n /\ version[m].next # s
        BY <1>3, <1>5, <1>6, <3>1, Zenon DEF Replaces
      <3>3. version[m].next \in Slot \ {n, s}
        BY <3>1, <3>2 DEF TypeOK, Versions, Pending
      <3> QED
        BY <1>7, <1>8, <2>4, <3>1, <3>3, GCAssumption, ZenonT(30) DEF Replaces
    <2> QED
      BY <2>1, <2>2, <2>3, <2>5, ZenonT(30) DEF OwnerInv
  <1>14. GarbageInv'
    <2>1. \A t \in Slot : InGarbage(t) => version'[t] = version[t]
      BY <1>5, <1>7, GarbageFacts, OwnerMarks, ZenonT(30) DEF Settled
    <2>2. commit_eid[x] <= commit_eid[x]
      BY MaxFacts, SMTT(30) DEF TypeOK
    <2>3. \A t \in S : Settled(t)' /\ Dead(t, commit_eid[x])'
      BY <1>3, <1>4, <1>5, <1>6, <1>7, <1>8, <2>2, ZenonT(30) DEF Settled, Dead
    <2> QED
      BY <1>8, <1>9, <2>1, <2>3, GarbageGrow, ZenonT(30)
  <1> QED
    BY <1>11, <1>12, <1>13, <1>14, Zenon

\* A withdrawn insertion becomes garbage.
LEMMA DiscardKeeps ==
  ASSUME TableInv, TypeInv, TypeInv', NEW x \in Txn, DiscardInsert(x)
  PROVE  TableInv'
PROOF
  <1> USE DEF TypeInv, TableInv
  <1>1. PICK n \in Pending(x) :
          /\ version[n].next = NULL
          /\ version' = [version EXCEPT ![n].owner = "INVALID"]
          /\ gc_set' = [gc_set EXCEPT ![x] = @ \union {n}]
    BY Zenon DEF DiscardInsert
  <1>2. n \in Slot /\ version[n].owner = x /\ version[n].begin = MAX
    BY Zenon DEF Pending
  <1>3. /\ \A t \in Slot \ {n} : version'[t] = version[t]
        /\ version'[n].owner = "INVALID" /\ version'[n].begin = MAX
    BY <1>1, <1>2 DEF TypeOK, Versions
  <1>4. /\ UNCHANGED <<epochVars, queueVars, recycle_queue, unused, commit_eid, status, install>>
        /\ status[x] # "idle" /\ install[x] = NULL
    BY Zenon DEF DiscardInsert, gcVars, queueVars
  <1>5. ~ InGarbage(n) /\ n \notin Free
    BY <1>2, GarbageFacts, OwnerMarks, ZenonT(30) DEF Settled, FreeIsEmpty, Free
  <1>6. FreeIsEmpty'
    BY <1>3, <1>4, <1>5, FreeKept, ZenonT(30) DEF TypeOK, Free
  <1>7. PlacesInv'
    <2>1. {n} \in SUBSET Slot /\ \A t \in {n} : ~ InGarbage(t) /\ t \notin Free
      BY <1>2, <1>5, Zenon
    <2> QED
      BY <1>1, <1>4, <2>1, PlacesGrow, ZenonT(30)
  <1>8. OwnerInv'
    <2>1. \A t \in Slot : version'[t].owner = "INITIAL" => version'[t].begin # MAX
      BY <1>3, ZenonT(30) DEF OwnerInv
    <2>2. \A y \in Txn \ {x} : Installs(y)' /\ \A m \in Pending(y)' : Replaces(y, m)'
      BY <1>2, <1>3, <1>4, OwnedKept, OwnerMarks, ZenonT(30)
    <2>3. Installs(x)'
      BY <1>4, ZenonT(30) DEF Installs
    <2>4. \A k \in Pending(x)' : k \in Pending(x) /\ version'[k] = version[k]
      BY <1>3, OwnerMarks, ZenonT(30) DEF Pending
    <2>5. ASSUME NEW m \in Pending(x)' PROVE Replaces(x, m)'
      <3> SUFFICES ASSUME version'[m].next # NULL PROVE Replaces(x, m)'
        BY ZenonT(30) DEF Replaces
      <3>1. m \in Pending(x) /\ version'[m] = version[m] /\ Replaces(x, m)
        BY <2>4, ZenonT(30) DEF OwnerInv
      <3>2. version[m].next \in Slot \ {n}
        BY <1>2, <3>1 DEF TypeOK, Versions, Pending, Replaces
      <3> QED
        BY <1>3, <1>4, <2>4, <3>1, <3>2, Zenon DEF Replaces
    <2> QED
      BY <2>1, <2>2, <2>3, <2>5, ZenonT(30) DEF OwnerInv
  <1>9. GarbageInv'
    <2>1. \A t \in Slot : InGarbage(t) => version'[t] = version[t]
      BY <1>3, <1>5, ZenonT(30)
    <2>2. {n} \in SUBSET Slot /\ \A t \in {n} : Settled(t)' /\ Dead(t, commit_eid[x])'
      BY <1>2, <1>3, ZenonT(30) DEF Settled, Dead
    <2> QED
      BY <1>1, <1>4, <2>1, <2>2, GarbageGrow, ZenonT(30)
  <1> QED
    BY <1>6, <1>7, <1>8, <1>9, Zenon

\* Abort: the new version becomes garbage, the old one is free to be written.
LEMMA AbortKeeps ==
  ASSUME TableInv, TypeInv, TypeInv', NEW x \in Txn, AbortVersion(x)
  PROVE  TableInv'
PROOF
  <1> USE DEF TypeInv, TableInv
  <1>1. PICK n \in Pending(x) :
          /\ version[n].next # NULL
          /\ version' = [version EXCEPT ![n].owner = "INVALID",
                                       ![version[n].next].owner = "INITIAL"]
          /\ gc_set' = [gc_set EXCEPT ![x] = @ \union {n}]
    BY Zenon DEF AbortVersion
  <1>2. PICK s : s = version[n].next
    BY Zenon
  <1>3. /\ n \in Slot /\ version[n].owner = x /\ version[n].begin = MAX
        /\ s \in Slot /\ s # n /\ version[s].owner = x /\ version[s].begin # MAX
    <2>1. n \in Slot /\ version[n].owner = x /\ version[n].begin = MAX /\ Replaces(x, n)
      BY ZenonT(30) DEF Pending, OwnerInv
    <2>2. s \in Slot
      BY <1>1, <1>2, <2>1 DEF TypeOK, Versions
    <2> QED
      BY <1>1, <1>2, <2>1, <2>2, Zenon DEF Replaces
  <1>4. /\ \A t \in Slot \ {n, s} : version'[t] = version[t]
        /\ version'[n].owner = "INVALID" /\ version'[n].begin = MAX
        /\ version'[s].owner = "INITIAL" /\ version'[s].begin = version[s].begin
    <2>1. version' = [version EXCEPT ![n].owner = "INVALID", ![s].owner = "INITIAL"]
      BY <1>1, <1>2, Zenon
    <2>2. version \in [Slot -> Versions]
      BY Zenon DEF TypeOK
    <2> QED
      BY <1>3, <2>1, <2>2 DEF Versions
  <1>5. /\ UNCHANGED <<epochVars, queueVars, recycle_queue, unused, commit_eid, status, install>>
        /\ status[x] # "idle" /\ install[x] = NULL
    BY Zenon DEF AbortVersion, gcVars, queueVars, TxnsOrdered
  <1>6. /\ ~ InGarbage(n) /\ n \notin Free
        /\ ~ InGarbage(s) /\ s \notin Free
    BY <1>3, GarbageFacts, OwnerMarks, Zenon DEF Settled, FreeIsEmpty, Free
  <1>7. FreeIsEmpty'
    BY <1>4, <1>5, <1>6, FreeKept, Zenon DEF TypeOK, Free
  <1>8. PlacesInv'
    <2>1. {n} \in SUBSET Slot /\ \A t \in {n} : ~ InGarbage(t) /\ t \notin Free
      BY <1>3, <1>6, ZenonT(30)
    <2> QED
      BY <1>1, <1>5, <2>1, PlacesGrow, ZenonT(30)
  <1>9. OwnerInv'
    <2>1. \A t \in Slot : version'[t].owner = "INITIAL" => version'[t].begin # MAX
      BY <1>3, <1>4, ZenonT(30) DEF OwnerInv
    <2>2. \A y \in Txn \ {x} : Installs(y)' /\ \A m \in Pending(y)' : Replaces(y, m)'
      BY <1>3, <1>4, <1>5, OwnedKept, OwnerMarks, ZenonT(30)
    <2>3. Installs(x)'
      BY <1>5, Zenon DEF Installs
    <2>4. \A k \in Pending(x)' : k # n /\ k \in Pending(x) /\ version'[k] = version[k]
      BY <1>4, OwnerMarks, ZenonT(30) DEF Pending
    <2>5. ASSUME NEW m \in Pending(x)' PROVE Replaces(x, m)'
      <3> SUFFICES ASSUME version'[m].next # NULL PROVE Replaces(x, m)'
        BY Zenon DEF Replaces
      <3>1. m # n /\ m \in Pending(x) /\ version'[m] = version[m] /\ Replaces(x, m)
        BY <2>4, Zenon DEF OwnerInv
      <3>2. version[m].next # n /\ version[m].next # s
        BY <1>2, <1>3, <3>1, ZenonT(30) DEF Replaces
      <3>3. version[m].next \in Slot \ {n, s}
        BY <3>1, <3>2 DEF TypeOK, Versions, Pending
      <3> QED
        BY <1>4, <1>5, <2>4, <3>1, <3>3, Zenon DEF Replaces
    <2> QED
      BY <2>1, <2>2, <2>3, <2>5, ZenonT(30) DEF OwnerInv
  <1>10. GarbageInv'
    <2>1. \A t \in Slot : InGarbage(t) => version'[t] = version[t]
      BY <1>4, <1>6, Zenon
    <2>2. {n} \in SUBSET Slot /\ \A t \in {n} : Settled(t)' /\ Dead(t, commit_eid[x])'
      BY <1>3, <1>4, Zenon DEF Settled, Dead
    <2> QED
      BY <1>1, <1>5, <2>1, <2>2, GarbageGrow, Zenon
  <1> QED
    BY <1>7, <1>8, <1>9, <1>10, Zenon

\* The epochs of a transaction and of a version are numbers.
LEMMA EpochTypes ==
  ASSUME TypeInv
  PROVE  /\ epoch \in Nat
         /\ \A x \in Txn : /\ eid[x] \in Nat /\ commit_eid[x] \in Nat
                           /\ commit_eid[x] <= epoch
                           /\ SnapshotTxn = {} => commit_eid[x] = eid[x]
                           /\ commit_eid[x] <= commit_eid[x]
                           /\ commit_eid[x] <= epoch + 1 /\ epoch + 1 \in Nat
PROOF
  <1>1. /\ epoch \in 1 .. MaxEpoch /\ eid \in [Txn -> 0 .. MaxEpoch]
        /\ commit_eid \in [Txn -> 0 .. MaxEpoch]
    BY Zenon DEF TypeInv, TypeOK, EpochsOrdered
  <1>2. \A x \in Txn : /\ commit_eid[x] <= epoch
                       /\ SnapshotTxn = {} => commit_eid[x] = eid[x]
    BY Zenon DEF TypeInv, TxnsOrdered
  <1>3. ASSUME NEW x \in Txn
        PROVE  /\ eid[x] \in Nat /\ commit_eid[x] \in Nat
               /\ commit_eid[x] <= commit_eid[x] /\ commit_eid[x] <= epoch + 1
    BY <1>1, <1>2, MaxFacts
  <1>4. epoch \in Nat /\ epoch + 1 \in Nat
    BY <1>1, MaxFacts
  <1> QED
    BY <1>2, <1>3, <1>4, Zenon

LEMMA EndTypes ==
  ASSUME TypeInv, NEW s \in Slot
  PROVE  version[s].end \in Nat
PROOF
  <1>1. version[s] \in Versions
    BY Zenon DEF TypeInv, TypeOK
  <1> QED
    BY <1>1, MaxFacts DEF Versions

LEMMA ExceptSame ==
  ASSUME NEW D, NEW R, NEW f \in [D -> R], NEW x \in D
  PROVE  [f EXCEPT ![x] = f[x]] = f
PROOF
  BY Zenon

\* Contexts that get the same stamp differ in their slots.
Restamped(Q, e) == {[eid |-> e, gc_set |-> c.gc_set] : c \in Q}

LEMMA Stamped ==
  ASSUME NEW Q, NEW e
  PROVE  /\ \A d \in Restamped(Q, e) : d.eid = e /\ \E c \in Q : d.gc_set = c.gc_set
         /\ \A d, f \in Restamped(Q, e) : d # f => d.gc_set # f.gc_set
PROOF
  <1>1. \A d \in Restamped(Q, e) : \E c \in Q : d = [eid |-> e, gc_set |-> c.gc_set]
    BY Zenon DEF Restamped
  <1>2. \A c : /\ [eid |-> e, gc_set |-> c.gc_set].eid = e
               /\ [eid |-> e, gc_set |-> c.gc_set].gc_set = c.gc_set
    BY Zenon
  <1>3. \A d \in Restamped(Q, e) : d.eid = e /\ d = [eid |-> e, gc_set |-> d.gc_set]
    BY <1>1, <1>2, Zenon
  <1>4. \A d \in Restamped(Q, e) : \E c \in Q : d.gc_set = c.gc_set
    BY <1>1, <1>2, Zenon
  <1>5. \A d, f \in Restamped(Q, e) : d # f => d.gc_set # f.gc_set
    BY <1>3, Zenon
  <1> QED
    BY <1>3, <1>4, <1>5, Zenon

\* The garbage of a transaction becomes a context of one queue.
LEMMA RecycleKeeps ==
  ASSUME TableInv, TypeInv, TypeInv', NEW x \in Txn, RecycleTransaction(x)
  PROVE  TableInv'
PROOF
  <1> USE DEF TypeInv, TableInv
  <1>1. /\ UNCHANGED <<epochVars, tableVars, install, local_unlink_queue, reclaim_map,
                       recycle_queue, garbages>>
        /\ status[x] \in {"committed", "aborted"} /\ install[x] = NULL
        /\ status' = [status EXCEPT ![x] = "idle"]
        /\ commit_eid' = [commit_eid EXCEPT ![x] = 0]
        /\ gc_set' = [gc_set EXCEPT ![x] = {}]
    BY Zenon DEF RecycleTransaction, TxnsOrdered
  <1>2. CASE gc_set[x] = {}
    <2>1. unlink_queue' = unlink_queue /\ gc_set' = gc_set
      <3>1. HashToThread[x] \in GCThread
        BY GCAssumption, Zenon
      <3>2. /\ unlink_queue \in [GCThread -> SUBSET Context]
            /\ gc_set \in [Txn -> SUBSET Slot]
        BY Zenon DEF TypeOK
      <3>3. unlink_queue' = [unlink_queue EXCEPT ![HashToThread[x]] = unlink_queue[HashToThread[x]]]
        BY <1>2, Zenon DEF RecycleTransaction
      <3>4. gc_set' = [gc_set EXCEPT ![x] = gc_set[x]]
        BY <1>1, <1>2, Zenon
      <3> QED
        BY <3>1, <3>2, <3>3, <3>4, ExceptSame, Zenon
    <2>2. \A y \in Txn \ {x} : commit_eid'[y] = commit_eid[y] /\ status'[y] = status[y]
      BY <1>1, ZenonT(30) DEF TypeOK
    <2>3. \A y \in Txn : gc_set[y] # {} => commit_eid'[y] = commit_eid[y] /\ status'[y] # "idle"
      BY <1>2, <2>2, Zenon DEF GarbageInv
    <2>4. UNCHANGED <<tableVars, install, queueVars, recycle_queue, gc_set>>
      BY <1>1, <2>1, Zenon DEF queueVars
    <2>5. \A y \in Txn : install[y] # NULL => commit_eid'[y] = commit_eid[y]
      BY <1>1, <2>2, Zenon
    <2>6. epoch <= epoch' /\ expired <= expired'
      <3>1. epoch \in Int /\ expired \in Int
        BY MaxFacts DEF EpochsOrdered
      <3>2. epoch' = epoch /\ expired' = expired
        BY <1>1, Zenon DEF epochVars
      <3> QED
        BY ONLY <3>1, <3>2
    <2> QED
      BY <2>3, <2>4, <2>5, <2>6, TableKept, Zenon
  <1>3. CASE gc_set[x] # {}
    <2> DEFINE c == [eid |-> GarbageEpoch(x), gc_set |-> gc_set[x]]
               g == HashToThread[x]
    <2>1. unlink_queue' = [unlink_queue EXCEPT ![g] = @ \union {c}]
      BY <1>3, Zenon DEF RecycleTransaction
    <2>2. /\ c.gc_set = gc_set[x] /\ c.eid = GarbageEpoch(x) /\ g \in GCThread
      BY GCAssumption, Zenon
    <2> HIDE DEF c, g
    <2>3. /\ unlink_queue'[g] = unlink_queue[g] \union {c}
          /\ \A h \in GCThread \ {g} : unlink_queue'[h] = unlink_queue[h]
          /\ \A h \in GCThread : /\ local_unlink_queue'[h] = local_unlink_queue[h]
                                 /\ reclaim_map'[h] = reclaim_map[h]
                                 /\ garbages'[h] = garbages[h]
      BY <1>1, <2>1, <2>2, ZenonT(30) DEF TypeOK
    <2>4. /\ gc_set'[x] = {} /\ \A y \in Txn \ {x} : /\ gc_set'[y] = gc_set[y]
                                                   /\ commit_eid'[y] = commit_eid[y]
                                                   /\ status'[y] = status[y]
      BY <1>1, ZenonT(30) DEF TypeOK
    <2>5. /\ \A h \in GCThread \ {g} : ContextsOf(h)' = ContextsOf(h)
          /\ ContextsOf(g)' = ContextsOf(g) \union {c}
      BY <2>2, <2>3, ZenonT(30) DEF ContextsOf
    <2>6. \A h \in GCThread : \A d \in ContextsOf(h) : c.gc_set \intersect d.gc_set = {}
      BY <2>2, ZenonT(30) DEF PlacesInv
    <2>7. FreeIsEmpty'
      BY <1>1, FreeKept, Zenon DEF Free, tableVars
    <2>8. PlacesInv'
      <3>1. ASSUME NEW h \in GCThread PROVE OnePlace(h)'
        <4>1. OnePlace(h)
          BY Zenon DEF PlacesInv
        <4>2. CASE h # g
          BY <2>3, <4>1, <4>2, Zenon DEF OnePlace
        <4>3. CASE h = g
          <5>1. /\ Separate(unlink_queue[g] \union {c})
                /\ Apart(unlink_queue[g] \union {c}, local_unlink_queue[g])
                /\ Apart(unlink_queue[g] \union {c}, garbages[g])
                /\ Apart(unlink_queue[g] \union {c}, reclaim_map[g])
            <6>1. \A d \in ContextsOf(g) : /\ c.gc_set \intersect d.gc_set = {}
                                           /\ d.gc_set \intersect c.gc_set = {}
              BY <2>2, <2>6, Zenon
            <6> QED
              BY <4>1, <4>3, <6>1, ZenonT(30) DEF OnePlace, Separate, Apart, ContextsOf
          <5> QED
            BY <2>2, <2>3, <4>1, <4>3, <5>1, Zenon DEF OnePlace
        <4> QED
          BY <4>2, <4>3, Zenon
      <3>2. ASSUME NEW h \in GCThread, NEW d \in ContextsOf(h)'
            PROVE  /\ d.gc_set \intersect (recycle_queue \union unused)' = {}
                   /\ \A y \in Txn : d.gc_set \intersect gc_set'[y] = {}
        BY <1>1, <2>2, <2>4, <2>5 DEF PlacesInv, tableVars
      <3>3. ASSUME NEW h \in GCThread, NEW k \in GCThread, h # k
            PROVE  Apart(ContextsOf(h), ContextsOf(k))'
        <4>1. Apart(ContextsOf(h), ContextsOf(k)) /\ h \in GCThread /\ k \in GCThread
          BY <3>3, Zenon DEF PlacesInv
        <4> QED
          BY ONLY <2>5, <2>6, <3>3, <4>1 DEF Apart
      <3>4. /\ \A y, z \in Txn : y # z => gc_set'[y] \intersect gc_set'[z] = {}
            /\ \A y \in Txn : gc_set'[y] \intersect (recycle_queue \union unused)' = {}
        BY <1>1, <2>4, Zenon DEF PlacesInv, tableVars
      <3> QED
        BY <3>1, <3>2, <3>3, <3>4, ZenonT(30) DEF PlacesInv
    <2>9. OwnerInv'
      BY <1>1, <2>4, OwnerKept, ZenonT(30) DEF tableVars
    <2>10. GarbageInv'
      <3>1. UNCHANGED <<version, epoch, expired>>
        BY <1>1, Zenon DEF tableVars, epochVars
      <3>2. ASSUME NEW s \in c.gc_set
            PROVE  Settled(s) /\ Dead(s, epoch) /\ (SnapshotTxn = {} => Dead(s, c.eid))
        <4>1. s \in Slot /\ version[s].end \in Nat
          <5>1. s \in Slot
            BY <2>2, Zenon DEF TypeOK
          <5> QED
            BY <5>1, EndTypes, Zenon
        <4>2. Settled(s) /\ Dead(s, commit_eid[x])
          BY <2>2, Zenon DEF GarbageInv
        <4>3. commit_eid[x] <= epoch /\ commit_eid[x] \in Nat /\ epoch \in Nat
          BY EpochTypes, Zenon
        <4>4. SnapshotTxn = {} => commit_eid[x] <= c.eid /\ c.eid \in Nat
          <5>1. c.eid = IF status[x] = "committed" THEN eid[x] ELSE epoch + 1
            BY <2>2, Zenon DEF GarbageEpoch
          <5> QED
            BY <5>1, EpochTypes, Zenon
        <4> QED
          BY ONLY <4>1, <4>2, <4>3, <4>4 DEF Dead
      <3>3. \A y \in Txn : /\ status'[y] = "idle" => gc_set'[y] = {}
                           /\ \A s \in gc_set'[y] : Settled(s)' /\ Dead(s, commit_eid[y])'
        BY <2>4, <3>1, ZenonT(30) DEF GarbageInv, Settled, Dead
      <3>4. \A h \in GCThread : \A d \in (unlink_queue[h] \union local_unlink_queue[h])' :
              \A s \in d.gc_set :
                Settled(s) /\ Dead(s, epoch) /\ (SnapshotTxn = {} => Dead(s, d.eid))
        BY <2>2, <2>3, <3>2, ZenonT(30) DEF GarbageInv
      <3> QED
        BY <2>3, <3>1, <3>3, <3>4, ZenonT(30) DEF GarbageInv, Settled, Dead
    <2> QED
      BY <2>7, <2>8, <2>9, <2>10, Zenon
  <1> QED
    BY <1>2, <1>3, Zenon
-----------------------------------------------------------------------------
(***************************************************************************)
(* What the collector does to the invariant of the table, and the theorems *)
(* about the garbage collector.                                            *)
(***************************************************************************)

\* Reclaim: the slots of expired contexts, which are in no other place, are
\* reset and free.
LEMMA ReclaimKeeps ==
  ASSUME TableInv, TypeInv, TypeInv', NEW g \in GCThread, Reclaim(g)
  PROVE  TableInv'
PROOF
  <1> USE DEF TypeInv, TableInv
  <1> DEFINE E == ExpiredContexts(g)
             slots == UNION {c.gc_set : c \in E}
  <1>1. /\ version' = [s \in Slot |-> IF s \in slots THEN ResetTuple(version[s]) ELSE version[s]]
        /\ recycle_queue' = recycle_queue \union slots
        /\ reclaim_map' = [reclaim_map EXCEPT ![g] = @ \ E]
    BY Zenon DEF Reclaim
  <1>2. E \subseteq reclaim_map[g] /\ \A s : s \in slots <=> \E c \in E : s \in c.gc_set
    BY Zenon DEF ExpiredContexts
  <1> HIDE DEF E, slots
  <1>3. /\ \A s \in Slot \ slots : version'[s] = version[s]
        /\ \A s \in Slot \intersect slots :
             /\ version'[s].owner = "INVALID" /\ version'[s].begin = MAX
             /\ version'[s].end = MAX /\ version'[s].next = NULL
    BY <1>1, ZenonT(30) DEF ResetTuple, NewVersion
  <1>4. UNCHANGED <<epochVars, unused, txnVars, unlink_queue, local_unlink_queue, garbages>>
    BY ZenonT(30) DEF Reclaim
  <1>5. /\ reclaim_map'[g] = reclaim_map[g] \ E
        /\ \A h \in GCThread \ {g} : reclaim_map'[h] = reclaim_map[h]
    BY <1>1, ZenonT(30) DEF TypeOK
  <1>6. /\ \A h \in GCThread : ContextsOf(h)' \subseteq ContextsOf(h)
        /\ Free' = Free \union slots
    BY <1>1, <1>4, <1>5, Zenon DEF ContextsOf, Free
  <1>7. \A s \in slots : InGarbage(s) /\ s \in Slot
    BY <1>2 DEF InGarbage, ContextsOf, TypeOK, Context
  <1>8. /\ \A x \in Txn : gc_set[x] \intersect slots = {}
        /\ \A h \in GCThread : \A d \in ContextsOf(h)' : d.gc_set \intersect slots = {}
    <2>1. \A c \in E : c \in ContextsOf(g) /\ c \in reclaim_map[g]
      BY <1>2, Zenon DEF ContextsOf
    <2>2. \A x \in Txn : gc_set[x] \intersect slots = {}
      BY <1>2, <2>1, ZenonT(30) DEF PlacesInv
    <2>3. ASSUME NEW d \in ContextsOf(g)', NEW c \in E PROVE d.gc_set \intersect c.gc_set = {}
      BY <1>4, <1>5, <2>1, ZenonT(30) DEF PlacesInv, OnePlace, Separate, Apart, ContextsOf
    <2>4. ASSUME NEW h \in GCThread \ {g}, NEW d \in ContextsOf(h)', NEW c \in E
          PROVE  d.gc_set \intersect c.gc_set = {}
      BY <1>6, <2>1, ZenonT(30) DEF PlacesInv, Apart
    <2> QED
      BY <1>2, <2>2, <2>3, <2>4, Zenon
  <1>9. FreeIsEmpty'
    BY <1>3, <1>6, <1>7, ZenonT(30) DEF FreeIsEmpty, Free, TypeOK
  <1>10. PlacesInv'
    <2>1. ASSUME NEW h \in GCThread PROVE OnePlace(h)'
      <3>1. OnePlace(h)
        BY Zenon DEF PlacesInv
      <3>2. reclaim_map'[h] \subseteq reclaim_map[h]
        BY <1>5, Zenon
      <3>3. /\ Separate(reclaim_map'[h]) /\ Apart(unlink_queue[h], reclaim_map'[h])
            /\ Apart(local_unlink_queue[h], reclaim_map'[h])
            /\ Apart(garbages[h], reclaim_map'[h])
        BY <3>1, <3>2, ZenonT(30) DEF OnePlace, Separate, Apart
      <3> QED
        BY <1>4, <3>1, <3>3, Zenon DEF OnePlace
    <2>2. ASSUME NEW h \in GCThread, NEW d \in ContextsOf(h)'
          PROVE  /\ d.gc_set \intersect (recycle_queue \union unused)' = {}
                 /\ \A y \in Txn : d.gc_set \intersect gc_set'[y] = {}
      BY <1>4, <1>6, <1>8, Zenon DEF PlacesInv, Free, txnVars
    <2>3. ASSUME NEW h \in GCThread, NEW k \in GCThread, h # k
          PROVE  Apart(ContextsOf(h), ContextsOf(k))'
      BY <1>6, <2>3, ZenonT(30) DEF PlacesInv, Apart
    <2>4. /\ \A y, z \in Txn : y # z => gc_set'[y] \intersect gc_set'[z] = {}
          /\ \A y \in Txn : gc_set'[y] \intersect (recycle_queue \union unused)' = {}
      BY <1>4, <1>6, <1>8, Zenon DEF PlacesInv, Free, txnVars
    <2> QED
      BY <2>1, <2>2, <2>3, <2>4, ZenonT(30) DEF PlacesInv
  <1>11. OwnerInv'
    <2>1. \A t \in Slot : version'[t].owner = "INITIAL" => version'[t].begin # MAX
      BY <1>3, Zenon DEF OwnerInv
    <2>2. \A t \in Slot, y \in Txn : version'[t] = version[t]
                                     \/ (version[t].owner # y /\ version'[t].owner # y)
      BY <1>3, <1>7, GarbageFacts, OwnerMarks, Zenon DEF Settled
    <2>3. \A y \in Txn : Installs(y)' /\ \A m \in Pending(y)' : Replaces(y, m)'
      BY <1>4, <2>2, OwnedKept, ZenonT(30) DEF txnVars
    <2> QED
      BY <2>1, <2>3, ZenonT(30) DEF OwnerInv
  <1>12. GarbageInv'
    <2>1. ASSUME NEW s \in Slot, s \notin slots
          PROVE  (Settled(s) <=> Settled(s)') /\ \A e : Dead(s, e) <=> Dead(s, e)'
      BY <1>3, <2>1, Zenon DEF Settled, Dead
    <2>2. \A x \in Txn : \A s \in gc_set'[x] : Settled(s)' /\ Dead(s, commit_eid[x])'
      BY <1>4, <1>8, <2>1, ZenonT(30) DEF GarbageInv, TypeOK, txnVars
    <2>3. \A h \in GCThread : \A c \in ContextsOf(h)' : \A s \in c.gc_set : s \in Slot \ slots
      BY <1>8, SMTT(30) DEF TypeOK, Context, ContextsOf
    <2>4. \A h \in GCThread : \A c \in (unlink_queue[h] \union local_unlink_queue[h])' :
            \A s \in c.gc_set :
              Settled(s)' /\ Dead(s, epoch)' /\ (SnapshotTxn = {} => Dead(s, c.eid)')
      BY <1>4, <2>1, <2>3, ZenonT(30) DEF GarbageInv, ContextsOf, epochVars
    <2>5. \A h \in GCThread : \A c \in garbages'[h] : \A s \in c.gc_set :
            Settled(s)' /\ Dead(s, epoch)' /\ (SnapshotTxn = {} => Dead(s, expired)')
      BY <1>4, <2>1, <2>3, ZenonT(30) DEF GarbageInv, ContextsOf, epochVars
    <2>6. \A h \in GCThread : \A c \in reclaim_map'[h] : \A s \in c.gc_set :
            Settled(s)' /\ Dead(s, c.eid)' /\ (SnapshotTxn = {} => Dead(s, expired)')
      BY <1>4, <1>5, <2>1, <2>3, Zenon DEF GarbageInv, ContextsOf, epochVars
    <2> QED
      BY <1>4, <2>2, <2>4, <2>5, <2>6, ZenonT(30) DEF GarbageInv, txnVars
  <1> QED
    BY <1>9, <1>10, <1>11, <1>12, Zenon

\* Unlink: contexts move between the queues of one thread.
LEMMA UnlinkKeeps ==
  ASSUME TableInv, TypeInv, TypeInv', NEW g \in GCThread, Unlink(g)
  PROVE  TableInv'
PROOF
  <1> USE DEF TypeInv, TableInv
  <1>1. PICK taken \in SUBSET unlink_queue[g] :
          LET seen == local_unlink_queue[g] \union taken
              ready == {c \in seen : CanUnlink(c, expired_eid[g])}
          IN  /\ unlink_queue' = [unlink_queue EXCEPT ![g] = @ \ taken]
              /\ garbages' = [garbages EXCEPT ![g] = ready]
              /\ local_unlink_queue' = [local_unlink_queue EXCEPT ![g] = Waiting(seen, ready)]
    BY Zenon DEF Unlink
  <1>2. PICK seen : seen = local_unlink_queue[g] \union taken
    BY Zenon
  <1>3. PICK ready : ready = {c \in seen : CanUnlink(c, expired_eid[g])}
    BY ZenonT(30)
  <1>4. /\ unlink_queue'[g] = unlink_queue[g] \ taken
        /\ garbages'[g] = ready /\ local_unlink_queue'[g] = seen \ ready
        /\ \A h \in GCThread \ {g} : /\ unlink_queue'[h] = unlink_queue[h]
                                     /\ garbages'[h] = garbages[h]
                                     /\ local_unlink_queue'[h] = local_unlink_queue[h]
    BY <1>1, <1>2, <1>3, Zenon DEF TypeOK, Waiting
  <1>5. UNCHANGED <<epochVars, tableVars, txnVars, reclaim_map, recycle_queue>>
    BY ZenonT(30) DEF Unlink
  <1>6. \A c \in ready : c \in seen /\ c.eid <= expired
    <2>1. \A c \in ready : c \in seen /\ c.eid <= expired_eid[g] /\ c.eid \in Nat
      <3>1. seen \subseteq Context
        BY <1>1, <1>2, Zenon DEF TypeOK
      <3> QED
        BY ONLY <1>3, <3>1, MaxFacts DEF CanUnlink, Context
    <2> QED
      BY <2>1, MaxFacts, SMTT(30) DEF EpochsOrdered, TypeOK
  <1>7. \A h \in GCThread : ContextsOf(h)' \subseteq ContextsOf(h)
    BY <1>2, <1>4, <1>5, <1>6, ZenonT(30) DEF ContextsOf
  <1>8. FreeIsEmpty'
    BY <1>5, FreeKept, Zenon DEF Free, tableVars
  <1>9. PlacesInv'
    <2>1. OnePlace(g)'
      <3>1. Separate(seen) /\ Apart(unlink_queue[g] \ taken, seen) /\ Apart(seen, reclaim_map[g])
        <4>1. OnePlace(g) /\ taken \subseteq unlink_queue[g]
          BY Zenon DEF PlacesInv
        <4> QED
          BY <1>2, <4>1, ZenonT(60) DEF OnePlace, Separate, Apart
      <3>2. ready \subseteq seen
        BY <1>6, ZenonT(30)
      <3>3. /\ Separate(unlink_queue[g] \ taken) /\ Separate(reclaim_map[g])
            /\ Apart(unlink_queue[g] \ taken, reclaim_map[g])
        BY Zenon DEF PlacesInv, OnePlace, Separate, Apart
      <3>4. /\ Separate(ready) /\ Separate(seen \ ready) /\ Apart(seen \ ready, ready)
            /\ Apart(unlink_queue[g] \ taken, ready)
            /\ Apart(unlink_queue[g] \ taken, seen \ ready)
            /\ Apart(ready, reclaim_map[g]) /\ Apart(seen \ ready, reclaim_map[g])
        BY <3>1, <3>2, ZenonT(30) DEF Separate, Apart
      <3> QED
        BY <1>4, <1>5, <3>3, <3>4, Zenon DEF OnePlace
    <2>2. ASSUME NEW h \in GCThread, h # g PROVE OnePlace(h)'
      BY <1>4, <1>5, <2>2, ZenonT(30) DEF PlacesInv, OnePlace
    <2>3. ASSUME NEW h \in GCThread, NEW d \in ContextsOf(h)'
          PROVE  /\ d.gc_set \intersect (recycle_queue \union unused)' = {}
                 /\ \A y \in Txn : d.gc_set \intersect gc_set'[y] = {}
      BY <1>5, <1>7, ZenonT(30) DEF PlacesInv, txnVars, tableVars
    <2>4. ASSUME NEW h \in GCThread, NEW k \in GCThread, h # k
          PROVE  Apart(ContextsOf(h), ContextsOf(k))'
      BY <1>7, <2>4, ZenonT(30) DEF PlacesInv, Apart
    <2> QED
      BY <1>5, <2>1, <2>2, <2>3, <2>4, ZenonT(30) DEF PlacesInv, txnVars, tableVars
  <1>10. OwnerInv'
    BY <1>5, OwnerKept, ZenonT(30) DEF tableVars, txnVars
  <1>11. GarbageInv'
    <2>1. UNCHANGED <<version, epoch, expired, gc_set, status, commit_eid, reclaim_map>>
      BY <1>5, ZenonT(30) DEF tableVars, epochVars, txnVars
    <2>2. \A c \in seen : \A s \in c.gc_set :
            Settled(s) /\ Dead(s, epoch) /\ (SnapshotTxn = {} => Dead(s, c.eid))
      BY <1>2, Zenon DEF GarbageInv
    <2>3. \A c \in ready : \A s \in c.gc_set :
            Settled(s) /\ Dead(s, epoch) /\ (SnapshotTxn = {} => Dead(s, expired))
      <3> SUFFICES ASSUME NEW c \in ready, NEW s \in c.gc_set
                   PROVE  Settled(s) /\ Dead(s, epoch) /\ (SnapshotTxn = {} => Dead(s, expired))
        BY ZenonT(30)
      <3>1. c \in Context /\ s \in Slot
        BY <1>2, <1>6 DEF TypeOK, Context
      <3>2. version[s].end \in Nat /\ c.eid \in Nat /\ expired \in Nat /\ c.eid <= expired
        BY <1>6, <3>1, MaxFacts DEF TypeOK, Versions, Context, EpochsOrdered
      <3> QED
        BY ONLY <1>6, <2>2, <3>2 DEF Dead
    <2>4. \A h \in GCThread : \A c \in (unlink_queue[h] \union local_unlink_queue[h])' :
            \A s \in c.gc_set :
              Settled(s) /\ Dead(s, epoch) /\ (SnapshotTxn = {} => Dead(s, c.eid))
      BY <1>4, <2>2, Zenon DEF GarbageInv
    <2>5. \A h \in GCThread : \A c \in garbages'[h] : \A s \in c.gc_set :
            Settled(s) /\ Dead(s, epoch) /\ (SnapshotTxn = {} => Dead(s, expired))
      BY <1>4, <2>3, ZenonT(30) DEF GarbageInv
    <2> QED
      BY <2>1, <2>4, <2>5, ZenonT(30) DEF GarbageInv, Settled, Dead
  <1> QED
    BY <1>8, <1>9, <1>10, <1>11, ZenonT(30)

\* Stamp: collected contexts move to the reclaim map with the current epoch.
LEMMA StampKeeps ==
  ASSUME TableInv, TypeInv, TypeInv', NEW g \in GCThread, Stamp(g)
  PROVE  TableInv'
PROOF
  <1> USE DEF TypeInv, TableInv
  <1> DEFINE new == Restamped(garbages[g], epoch)
  <1>1. /\ reclaim_map' = [reclaim_map EXCEPT ![g] = @ \union new]
        /\ garbages' = [garbages EXCEPT ![g] = {}]
        /\ UNCHANGED <<epochVars, tableVars, txnVars, unlink_queue, local_unlink_queue,
                       recycle_queue>>
    BY ZenonT(30) DEF Stamp, Restamped
  <1>2. \A d \in new : d.eid = epoch /\ \E c \in garbages[g] : d.gc_set = c.gc_set
    BY ONLY Stamped
  <1>3. \A d, f \in new : d # f => d.gc_set # f.gc_set
    BY ONLY Stamped
  <1> HIDE DEF new
  <1>4. /\ reclaim_map'[g] = reclaim_map[g] \union new /\ garbages'[g] = {}
        /\ \A h \in GCThread \ {g} : /\ reclaim_map'[h] = reclaim_map[h]
                                     /\ garbages'[h] = garbages[h]
        /\ unlink_queue' = unlink_queue /\ local_unlink_queue' = local_unlink_queue
    BY <1>1, ZenonT(30) DEF TypeOK
  <1>5. \A h \in GCThread : \A d \in ContextsOf(h)' :
          \E c \in ContextsOf(h) : d.gc_set = c.gc_set
    BY <1>2, <1>4, ZenonT(30) DEF ContextsOf
  <1>6. FreeIsEmpty'
    BY <1>1, FreeKept, Zenon DEF Free, tableVars
  <1>7. PlacesInv'
    <2>1. OnePlace(g)'
      <3>1. OnePlace(g)
        BY ZenonT(30) DEF PlacesInv
      <3>2. Separate(new)
        <4> SUFFICES ASSUME NEW d \in new, NEW f \in new, d # f
                     PROVE  d.gc_set \intersect f.gc_set = {}
          BY Zenon DEF Separate
        <4>1. PICK a \in garbages[g] : d.gc_set = a.gc_set
          BY <1>2, Zenon
        <4>2. PICK b \in garbages[g] : f.gc_set = b.gc_set
          BY <1>2, Zenon
        <4>3. a # b
          BY <1>3, <4>1, <4>2, Zenon
        <4> QED
          BY <3>1, <4>1, <4>2, <4>3, Zenon DEF OnePlace, Separate
      <3>3. Apart(new, reclaim_map[g]) /\ Apart(unlink_queue[g], new)
            /\ Apart(local_unlink_queue[g], new)
        BY <1>2, <3>1, Zenon DEF OnePlace, Apart
      <3> QED
        BY <1>4, <3>1, <3>2, <3>3, ZenonT(30) DEF OnePlace, Separate, Apart
    <2>2. ASSUME NEW h \in GCThread, h # g PROVE OnePlace(h)'
      BY <1>4, <2>2, ZenonT(30) DEF PlacesInv, OnePlace
    <2>3. ASSUME NEW h \in GCThread, NEW d \in ContextsOf(h)'
          PROVE  /\ d.gc_set \intersect (recycle_queue \union unused)' = {}
                 /\ \A y \in Txn : d.gc_set \intersect gc_set'[y] = {}
      BY <1>1, <1>5, ZenonT(30) DEF PlacesInv, txnVars, tableVars
    <2>4. ASSUME NEW h \in GCThread, NEW k \in GCThread, h # k
          PROVE  Apart(ContextsOf(h), ContextsOf(k))'
      <3> SUFFICES ASSUME NEW c \in ContextsOf(h)', NEW d \in ContextsOf(k)'
                   PROVE  c.gc_set \intersect d.gc_set = {}
        BY Zenon DEF Apart
      <3>1. PICK c0 \in ContextsOf(h) : c.gc_set = c0.gc_set
        BY <1>5, Zenon
      <3>2. PICK d0 \in ContextsOf(k) : d.gc_set = d0.gc_set
        BY <1>5, Zenon
      <3>3. Apart(ContextsOf(h), ContextsOf(k))
        BY <2>4, ZenonT(30) DEF PlacesInv
      <3> QED
        BY <3>1, <3>2, <3>3, Zenon DEF Apart
    <2>5. /\ \A y, z \in Txn : y # z => gc_set'[y] \intersect gc_set'[z] = {}
          /\ \A y \in Txn : gc_set'[y] \intersect (recycle_queue \union unused)' = {}
      BY <1>1, ZenonT(30) DEF PlacesInv, txnVars, tableVars
    <2> QED
      BY <2>1, <2>2, <2>3, <2>4, <2>5, ZenonT(30) DEF PlacesInv
  <1>8. OwnerInv'
    BY <1>1, OwnerKept, Zenon DEF tableVars, txnVars
  <1>9. GarbageInv'
    <2>1. UNCHANGED <<version, epoch, expired, gc_set, status, commit_eid>>
      BY <1>1, Zenon DEF tableVars, epochVars, txnVars
    <2>2. \A d \in new : \A s \in d.gc_set :
            Settled(s) /\ Dead(s, d.eid) /\ (SnapshotTxn = {} => Dead(s, expired))
      BY <1>2, ZenonT(30) DEF GarbageInv
    <2>3. \A h \in GCThread : \A c \in reclaim_map'[h] : \A s \in c.gc_set :
            Settled(s) /\ Dead(s, c.eid) /\ (SnapshotTxn = {} => Dead(s, expired))
      BY <1>4, <2>2, Zenon DEF GarbageInv
    <2> QED
      BY <1>4, <2>1, <2>3, ZenonT(30) DEF GarbageInv, Settled, Dead
  <1> QED
    BY <1>6, <1>7, <1>8, <1>9, Zenon

\* At first nothing is garbage and nothing is owned by a transaction.
LEMMA TableInit == Init => TableInv
PROOF
  <1> SUFFICES ASSUME Init PROVE TableInv
    BY Zenon
  <1>1. /\ unused = {s \in Slot : \A e \in Loaded : FirstSlot[e] # s}
        /\ gc_set = [x \in Txn |-> {}] /\ install = [x \in Txn |-> NULL]
        /\ unlink_queue = [g \in GCThread |-> {}]
        /\ local_unlink_queue = [g \in GCThread |-> {}]
        /\ reclaim_map = [g \in GCThread |-> {}] /\ recycle_queue = {}
        /\ garbages = [g \in GCThread |-> {}]
    BY Zenon DEF Init
  <1>2. ASSUME NEW s \in Slot
        PROVE  IF s \in unused
               THEN version[s] = EmptyVersion
               ELSE version[s].owner = "INITIAL" /\ version[s].begin = 0
    <2>1. version[s] = IF \E e \in Loaded : FirstSlot[e] = s
                       THEN [NewVersion(CHOOSE e \in Loaded : FirstSlot[e] = s, NULL,
                                        "INITIAL", FALSE) EXCEPT !.begin = 0]
                       ELSE EmptyVersion
      BY Zenon DEF Init
    <2> QED
      BY <1>1, <2>1, Zenon DEF NewVersion
  <1>3. \A s \in Slot, x \in Txn : version[s].owner # x
    <2>1. \A s \in Slot : version[s].owner = "INVALID" \/ version[s].owner = "INITIAL"
      BY <1>2, SMTT(30) DEF EmptyVersion, NewVersion
    <2> QED
      BY <2>1, OwnerMarks, Zenon
  <1>4. FreeIsEmpty
    BY <1>1, <1>2, SMTT(30) DEF FreeIsEmpty, EmptyVersion, NewVersion
  <1>5. PlacesInv
    BY <1>1, ZenonT(30) DEF PlacesInv, OnePlace, ContextsOf, Apart, Separate
  <1>6. OwnerInv
    <2>1. \A s \in Slot : version[s].owner = "INITIAL" => version[s].begin # MAX
      BY <1>2, MaxFacts, SMTT(30) DEF EmptyVersion, NewVersion
    <2> QED
      BY <1>1, <1>3, <2>1, Zenon DEF OwnerInv, Pending, Installs
  <1>7. GarbageInv
    BY <1>1, Zenon DEF GarbageInv
  <1> QED
    BY <1>4, <1>5, <1>6, <1>7, Zenon DEF TableInv

\* Every step keeps the table, its owners and its garbage consistent.
LEMMA TableStep ==
  ASSUME TypeInv, TypeInv', TableInv, [Next]_vars
  PROVE  TableInv'
PROOF
  <1> USE DEF TypeInv
  <1>1. ASSUME NEW x \in Txn, Begin(x) PROVE TableInv'
    <2>1. status[x] = "idle" /\ gc_set[x] = {} /\ install[x] = NULL
      BY <1>1, ZenonT(30) DEF Begin, TableInv, GarbageInv, TxnsOrdered
    <2>2. \A y \in Txn \ {x} : commit_eid'[y] = commit_eid[y] /\ status'[y] = status[y]
      BY <1>1, Zenon DEF Begin, TypeOK
    <2>3. \A y \in Txn : gc_set[y] # {} => commit_eid'[y] = commit_eid[y] /\ status'[y] # "idle"
      BY <2>1, <2>2, Zenon DEF TableInv, GarbageInv
    <2>4. \A y \in Txn : install[y] # NULL => commit_eid'[y] = commit_eid[y]
      BY <2>1, <2>2, Zenon
    <2>5. /\ UNCHANGED <<tableVars, install, queueVars, recycle_queue, gc_set>>
          /\ epoch <= epoch' /\ expired <= expired'
      BY <1>1 DEF Begin, Enter, EpochsOrdered, gcVars, queueVars
    <2> QED
      BY <2>3, <2>4, <2>5, TableKept, Zenon
  <1>2. ASSUME NEW x \in Txn, Lookup(x) PROVE TableInv'
    BY <1>2, TableQuiet, Zenon DEF Lookup, epochVars, gcVars, queueVars
  <1>3. ASSUME NEW x \in Txn, FollowNext(x) PROVE TableInv'
    BY <1>3, TableQuiet, ZenonT(30) DEF FollowNext, epochVars, gcVars, queueVars
  <1>4. ASSUME NEW x \in Txn, EndRequest(x) PROVE TableInv'
    <2>1. \A y \in Txn : status'[y] = "idle" => status[y] = "idle"
      BY <1>4, Zenon DEF EndRequest, TypeOK
    <2> QED
      BY <1>4, <2>1, TableQuiet, Zenon DEF EndRequest, epochVars, gcVars, queueVars
  <1>5. ASSUME NEW x \in Txn, ExitEpoch(x) PROVE TableInv'
    <2>1. \A y \in Txn : status'[y] = "idle" => status[y] = "idle"
      BY <1>5, Zenon DEF ExitEpoch, TypeOK
    <2> QED
      BY <1>5, <2>1, TableQuiet, ZenonT(30) DEF ExitEpoch, Exit, gcVars, queueVars
  <1>6. ASSUME NEW g \in GCThread, Sweep(g) PROVE TableInv'
    <2>1. epoch <= epoch' /\ expired <= expired'
      BY <1>6, MaxFacts, SMTT(30) DEF Sweep, Expire, EpochsOrdered, epochVars
    <2>2. \A x \in Txn : gc_set[x] # {} => status[x] # "idle"
      BY Zenon DEF TableInv, GarbageInv
    <2> QED
      BY <1>6, <2>1, <2>2, TableKept, Zenon DEF Sweep, txnVars, queueVars
  <1>7. CASE AdvanceEpoch
    <2>1. epoch <= epoch' /\ expired <= expired'
      BY <1>7, MaxFacts, SMTT(30) DEF AdvanceEpoch, Advance, EpochsOrdered
    <2>2. \A x \in Txn : gc_set[x] # {} => status[x] # "idle"
      BY ZenonT(30) DEF TableInv, GarbageInv
    <2> QED
      BY <1>7, <2>1, <2>2, TableKept, Zenon DEF AdvanceEpoch, txnVars, gcVars, queueVars
  <1>8. CASE UNCHANGED vars
    BY <1>8, TableQuiet, Zenon DEF vars, epochVars, txnVars, gcVars, queueVars
  <1>9. ASSUME NEW x \in Txn, TxnStep(x) PROVE TableInv'
    BY <1>1, <1>2, <1>3, <1>4, <1>5, <1>9, InsertKeeps, WriteKeeps, DeleteOwnKeeps, CommitKeeps,
       ReleaseKeeps, DiscardKeeps, AbortKeeps, RecycleKeeps, ZenonT(30) DEF TxnStep
  <1>10. ASSUME NEW g \in GCThread, GCStep(g) PROVE TableInv'
    BY <1>6, <1>10, ReclaimKeeps, UnlinkKeeps, StampKeeps, ZenonT(30) DEF GCStep
  <1> QED
    BY <1>7, <1>8, <1>9, <1>10, Zenon DEF Next

\* The inductive invariant of the table.
LEMMA TableIsConsistent == Spec => [](TypeInv /\ TableInv)
PROOF
  <1>1. TypeInv /\ TableInv /\ [Next]_vars => TypeInv' /\ TableInv'
    BY TypeStep, TableStep, Zenon
  <1> QED
    BY TypeInit, TableInit, <1>1, PTL DEF Spec

\* A slot is in one place of the collector at a time: no slot is recycled
\* twice, and none while it is in use, however many GC threads there are.
THEOREM NothingRecycledTwice == Spec => []RecycledOnce
PROOF
  <1>1. ASSUME PlacesInv, NEW c \in AllContexts, NEW d \in AllContexts, c # d
        PROVE  c.gc_set \intersect d.gc_set = {}
    <2>1. PICK g \in GCThread : c \in ContextsOf(g)
      BY Zenon DEF AllContexts
    <2>2. PICK h \in GCThread : d \in ContextsOf(h)
      BY Zenon DEF AllContexts
    <2>3. CASE g # h
      BY <1>1, <2>1, <2>2, <2>3, Zenon DEF PlacesInv, Apart
    <2>4. CASE g = h
      <3>1. OnePlace(g)
        BY <1>1, ZenonT(30) DEF PlacesInv
      <3> QED
        BY <1>1, <2>1, <2>2, <2>4, <3>1, ZenonT(30) DEF OnePlace, ContextsOf, Apart, Separate
    <2> QED
      BY <2>3, <2>4, Zenon
  <1>2. TypeInv /\ TableInv => RecycledOnce
    BY <1>1, ZenonT(30) DEF TableInv, PlacesInv, RecycledOnce, AllContexts
  <1> QED
    BY TableIsConsistent, <1>2, PTL

\* Whoever takes a free slot finds an empty header in it.
THEOREM FreeSlotsAreEmpty == Spec => []FreeIsEmpty
PROOF
  <1>1. TypeInv /\ TableInv => FreeIsEmpty
    BY Zenon DEF TableInv
  <1> QED
    BY TableIsConsistent, <1>1, PTL

\* A version that was dead in an expired epoch is seen by nobody who runs.
LEMMA DeadIsUnseen ==
  ASSUME NEW x \in Txn, NEW s, NEW e \in Nat, Dead(s, e), version[s].end \in Nat,
         running[x] \in 0 .. MaxEpoch, running[x] # 0 => e < running[x]
  PROVE  ~ MaySee(x, s)
PROOF
  <1>1. CASE version[s].empty
    BY <1>1, Zenon DEF MaySee
  <1>2. CASE version[s].begin = MAX
    BY <1>2, MaxFacts DEF MaySee
  <1>3. CASE version[s].end <= e
    BY <1>3, SMTT(30) DEF MaySee
  <1> QED
    BY <1>1, <1>2, <1>3, ZenonT(30) DEF Dead

\* No running transaction that the epoch manager's promise covers can see a
\* version that Reclaim is about to reset.  SNAPSHOT transactions may have ended
\* it, from whatever epoch they entered, expired ones included: their garbage is
\* stamped too early for Unlink, but Stamp dates it again, no earlier than their
\* commit.
THEOREM ReclaimIsSafe == Spec => []ReclaimedIsDead
PROOF
  <1>1. ASSUME TypeInv, TableInv, NEW g \in GCThread, NEW c \in ExpiredContexts(g),
               NEW x \in Guarded, NEW s \in c.gc_set
        PROVE  ~ MaySee(x, s)
    <2>1. c \in reclaim_map[g] /\ c.eid <= expired_eid[g] /\ Dead(s, c.eid)
      BY <1>1, Zenon DEF ExpiredContexts, TableInv, GarbageInv
    <2>2. s \in Slot /\ c.eid \in Nat /\ version[s].end \in Nat
      BY <1>1, <2>1, MaxFacts DEF TypeInv, TypeOK, Context, Versions
    <2>3. /\ running[x] \in 0 .. MaxEpoch
          /\ running[x] # 0 => expired < running[x]
          /\ expired_eid[g] <= expired /\ expired_eid[g] \in Nat /\ expired \in Nat
      <3>1. /\ running[x] \in 0 .. MaxEpoch
            /\ running[x] # 0 => expired < running[x]
            /\ expired_eid[g] <= expired /\ expired \in 0 .. MaxEpoch
            /\ expired_eid[g] \in 0 .. MaxEpoch
        BY <1>1, Zenon DEF TypeInv, TypeOK, EpochsOrdered, Guarded
      <3> QED
        BY ONLY <3>1, MaxFacts
    <2>4. running[x] # 0 => c.eid < running[x]
      BY ONLY <2>1, <2>2, <2>3, MaxFacts
    <2> QED
      BY <1>1, <2>1, <2>2, <2>3, <2>4, DeadIsUnseen, Zenon DEF Guarded
  <1>2. TypeInv /\ TableInv => ReclaimedIsDead
    BY <1>1, ZenonT(30) DEF ReclaimedIsDead
  <1> QED
    BY TableIsConsistent, <1>2, PTL

\* Without SNAPSHOT updaters the first wait is enough: no running transaction
\* that the promise covers can see what has been unlinked, though others enter
\* expired epochs and commit in them.
THEOREM UnlinkIsSafe ==
  ASSUME SnapshotTxn = {}
  PROVE  Spec => []UnlinkedIsDead
PROOF
  <1>1. ASSUME TypeInv, TableInv, NEW g \in GCThread, NEW c \in garbages[g] \union reclaim_map[g],
               NEW s \in c.gc_set, NEW x \in Guarded
        PROVE  ~ MaySee(x, s)
    <2>1. Dead(s, expired)
      BY <1>1, Zenon DEF TableInv, GarbageInv
    <2>2. s \in Slot /\ version[s].end \in Nat
      BY <1>1, MaxFacts DEF TypeInv, TypeOK, Context, Versions
    <2>3. /\ running[x] \in 0 .. MaxEpoch
          /\ running[x] # 0 => expired < running[x]
          /\ expired \in Nat
      <3>1. /\ running[x] \in 0 .. MaxEpoch
            /\ running[x] # 0 => expired < running[x]
            /\ expired \in 0 .. MaxEpoch
        BY <1>1, Zenon DEF TypeInv, EpochsOrdered, Guarded
      <3> QED
        BY ONLY <3>1, MaxFacts
    <2> QED
      BY <1>1, <2>1, <2>2, <2>3, DeadIsUnseen, Zenon DEF Guarded
  <1>2. TypeInv /\ TableInv => UnlinkedIsDead
    BY <1>1, ZenonT(30) DEF UnlinkedIsDead
  <1> QED
    BY TableIsConsistent, <1>2, PTL
=============================================================================
