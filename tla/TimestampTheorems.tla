------------------------- MODULE TimestampTheorems -------------------------
(***************************************************************************)
(* The theorems about TimestampOrdering: the steps that end a transaction  *)
(* and those that install or insert a version, the invariant put together, *)
(* and the properties that follow from it.                                 *)
(***************************************************************************)
EXTENDS TimestampStatementProofs, TimestampEndProofs

USE DEF INVALID_TXN_ID, INITIAL_TXN_ID, INVALID_CID, NULL, LoadCid, Slot
-----------------------------------------------------------------------------
(* Where a commit or an abort begins, and where a transaction ends.        *)

\* Commit and abort take over what the statements left in the read/write set.
LEMMA Ending ==
  ASSUME IInv, NEW x \in Txn, pc[x] = "ready", NEW L \in {"commit", "abort"},
         pc' = [pc EXCEPT ![x] = L], NEW T \in SUBSET Slot,
         T = Unfinished(x) \/ (T = {} /\ IsReadOnly(x)),
         exec' = [exec EXCEPT ![x].todo = T], UNCHANGED <<storeVars, txnVars, historyVars>>
  PROVE  Kept
  <1> TypeInv /\ exec[x] \in Execs
    BY ExecSame, Zenon DEF IInv
  <1>1. /\ UNCHANGED <<header, next_slot, index, head, read_id, result, rw_set, gc_set,
                       returned, absent>>
        /\ UNCHANGED storeVars
    BY Zenon DEF storeVars, txnVars, historyVars
  <1>2. PICK e : e = [exec[x] EXCEPT !.todo = T]
    BY Zenon
  <1>3. e \in Execs /\ e.todo = T
    BY <1>2, Zenon DEF Execs
  <1>4. exec' = [exec EXCEPT ![x] = e]
    BY <1>2, Zenon DEF TypeInv
  <1>5. TypeInv' /\ pc'[x] = L /\ exec'[x] = e
    <2>1. pc' \in [Txn -> Locations] /\ pc'[x] = L
      BY Zenon DEF TypeInv, TypeOK, Locations
    <2>2. exec' \in [Txn -> Execs] /\ exec'[x] = e
      BY <1>3, <1>4, Zenon DEF TypeInv
    <2> QED
      BY <1>1, <2>1, <2>2, Zenon DEF TypeInv, TypeOK
  <1>6. ControlStep(x)
    <2>1. \A y \in Txn \ {x} : pc'[y] = pc[y] /\ exec'[y] = exec[y]
      BY Zenon DEF TypeInv, TypeOK
    <2> QED
      BY <1>1, <1>5, <2>1, Zenon DEF ControlStep, Committing
  <1>7. \A t \in Slot : Pending(x, t)' <=> Pending(x, t)
    <2>1. pc[x] \notin Finishing /\ pc'[x] \in Finishing
      BY <1>5, Zenon DEF Finishing, Committing
    <2>2. CASE T = Unfinished(x)
      BY <1>1, <1>3, <1>5, <2>1, <2>2, Zenon DEF Pending, Unfinished
    <2>3. CASE T = {} /\ IsReadOnly(x)
      <3>1. \A t \in Slot : rw_set[x][t] \in {"NONE", "READ"}
        BY <2>3, Zenon DEF IsReadOnly, TimestampsReads, IInv, WriterOK
      <3> QED
        BY <1>1, <3>1, Zenon DEF Pending
    <2> QED
      BY <2>2, <2>3, Zenon
  <1>8. \A t \in Slot : /\ ~ Busy(x, t) /\ ~ Busy(x, t)' /\ ~ At(x, t, {"write"})
                        /\ ~ At(x, t, {"c_release", "a_release"})'
    BY <1>5, Zenon DEF Busy, At, Replacing
  <1>9. WriterOK(x)
    BY Zenon DEF IInv
  <1>10. WriterOK(x)'
    <2>1. \A t \in Slot : Pending(x, t)' => Written(x, t)'
      BY <1>1, <1>7, <1>8, WaitingKept, Zenon
    <2>2. \A t \in Slot : header'[t].txn = x => Accounted(x, t)'
      <3> SUFFICES ASSUME NEW t \in Slot, header[t].txn = x PROVE Accounted(x, t)'
        BY <1>1, Zenon
      <3>1. Accounted(x, t)
        BY <1>9, Zenon DEF WriterOK
      <3>2. CASE Pending(x, t)
        BY <1>7, <3>2, Zenon DEF Accounted
      <3>3. CASE ~ Pending(x, t)
        <4>1. PICK o \in Slot : /\ o = header[t].next /\ Pending(x, o) /\ Writes(x, o)
                                /\ header[o].prev = t
          BY <1>8, <3>1, <3>3, Zenon DEF Accounted
        <4>2. Pending(x, o)' /\ Writes(x, o)'
          BY <1>1, <1>7, <4>1, Zenon DEF Writes
        <4> QED
          BY <1>1, <1>8, <4>1, <4>2, Zenon DEF Accounted
      <3> QED
        BY <3>2, <3>3, Zenon
    <2>3. pc'[x] \notin Replacing \union {"write", "insert", "c_insert", "c_end", "ended"}
      BY <1>5, Zenon DEF Replacing
    <2>4. \A t \in Slot : /\ rw_set'[x][t] # "READ_OWN"
                          /\ rw_set'[x][t] = "READ" => header'[t].begin # MAX_CID
                          /\ TimestampsReads(x) \/ rw_set'[x][t] \in {"NONE", "READ"}
      BY <1>1, <1>9, Zenon DEF WriterOK
    <2> QED
      BY <2>1, <2>2, <2>3, <2>4, Zenon DEF WriterOK, TimestampsReads
  <1>11. ReaderOK(x)'
    <2>1. /\ pc[x] # "idle" /\ pc'[x] \in Finishing \union {"ready"}
          /\ pc'[x] \notin Replacing \union {"c_insert"}
      BY <1>5, Zenon DEF Finishing, Committing, Replacing
    <2>2. Step(x)
      BY <1>1, <1>6, IdleStep, Zenon
    <2> QED
      BY <1>1, <1>5, <2>1, <2>2, ReaderDone, Zenon
  <1> QED
    BY <1>1, <1>5, <1>6, <1>10, <1>11, StoreSame, Zenon

LEMMA CommitTransactionKeeps ==
  ASSUME IInv, NEW x \in Txn, CommitTransaction(x)
  PROVE  Kept
  <1>1. PICK T : T = IF IsReadOnly(x) THEN {} ELSE Unfinished(x)
    BY Zenon
  <1>2. T \in SUBSET Slot /\ (T = Unfinished(x) \/ (T = {} /\ IsReadOnly(x)))
    BY <1>1, Zenon DEF Unfinished
  <1>3. /\ pc[x] = "ready" /\ pc' = [pc EXCEPT ![x] = "commit"]
        /\ exec' = [exec EXCEPT ![x].todo = T]
        /\ UNCHANGED <<storeVars, txnVars, historyVars>>
    BY <1>1, Zenon DEF CommitTransaction, Goto
  <1> QED
    BY <1>2, <1>3, Ending, Zenon

LEMMA AbortTransactionKeeps ==
  ASSUME IInv, NEW x \in Txn, AbortTransaction(x)
  PROVE  Kept
  <1>1. PICK T : T = Unfinished(x)
    BY Zenon
  <1>2. T \in SUBSET Slot
    BY <1>1, Zenon DEF Unfinished
  <1>3. /\ pc[x] = "ready" /\ pc' = [pc EXCEPT ![x] = "abort"]
        /\ exec' = [exec EXCEPT ![x].todo = T]
        /\ UNCHANGED <<storeVars, txnVars, historyVars>>
    BY <1>1, Zenon DEF AbortTransaction, Goto
  <1> QED
    BY <1>1, <1>2, <1>3, Ending, Zenon

\* A transaction that has been through its read/write set owns nothing.
LEMMA EndTransactionKeeps ==
  ASSUME IInv, NEW x \in Txn, EndTransaction(x)
  PROVE  Kept
  <1> TypeInv
    BY Zenon DEF IInv
  <1>1. /\ pc[x] \in {"commit", "abort"} /\ exec[x].todo = {}
        /\ pc' = [pc EXCEPT ![x] = "ended"]
        /\ UNCHANGED <<header, next_slot, index, head, exec, read_id, rw_set, gc_set,
                       returned, absent>>
        /\ UNCHANGED storeVars
    BY Zenon DEF EndTransaction, Goto, storeVars, historyVars
  <1>2. result' \in [Txn -> {"SUCCESS", "FAILURE", "ABORTED"}]
    BY Zenon DEF EndTransaction, SetResult, TypeInv, TypeOK
  <1>3. pc' \in [Txn -> Locations] /\ pc'[x] = "ended"
        /\ \A y \in Txn \ {x} : pc'[y] = pc[y]
    BY <1>1, Zenon DEF TypeInv, TypeOK, Locations
  <1>4. TypeInv'
    BY <1>1, <1>2, <1>3, Zenon DEF TypeInv, TypeOK
  <1>5. ControlStep(x)
    BY <1>1, <1>3, Zenon DEF ControlStep
  <1>6. \A t \in Slot : ~ Pending(x, t) /\ ~ Pending(x, t)' /\ ~ At(x, t, {"write"})
    BY <1>1, <1>3, Zenon DEF Pending, At, Finishing, Committing
  <1>7. WriterOK(x)
    BY Zenon DEF IInv
  <1>8. \A t \in Slot : header'[t].txn # x
    BY <1>1, <1>6, <1>7, Zenon DEF WriterOK, Accounted
  <1>9. WriterOK(x)'
    <2>1. pc'[x] \notin Replacing \union {"write", "insert", "c_insert", "c_end"}
      BY <1>3, Zenon DEF Replacing
    <2>2. \A t \in Slot : /\ rw_set'[x][t] # "READ_OWN"
                          /\ rw_set'[x][t] = "READ" => header'[t].begin # MAX_CID
                          /\ TimestampsReads(x) \/ rw_set'[x][t] \in {"NONE", "READ"}
      BY <1>1, <1>7, ZenonT(30) DEF WriterOK
    <2> QED
      BY <1>1, <1>6, <1>8, <2>1, <2>2, Zenon DEF WriterOK, TimestampsReads
  <1>10. ReaderOK(x)'
    <2>1. /\ pc[x] # "idle" /\ pc'[x] \in Finishing \union {"ready"}
          /\ pc'[x] \notin Replacing \union {"c_insert"}
      BY <1>1, <1>3, Zenon DEF Finishing, Replacing
    <2>2. Step(x)
      BY <1>1, <1>5, IdleStep, Zenon
    <2> QED
      BY <1>1, <1>4, <2>1, <2>2, ReaderDone, ZenonT(30)
  <1> QED
    BY <1>1, <1>4, <1>5, <1>9, <1>10, StoreSame, Zenon
-----------------------------------------------------------------------------
(* Installing a new version of a tuple.                                    *)

LEMMA PerformUpdateKeeps ==
  ASSUME IInv, NEW x \in Txn, PerformUpdate(x)
  PROVE  Kept
  <1>1. pc[x] = "write" /\ TypeInv
    BY Zenon DEF PerformUpdate, IInv
  <1>2. PICK s \in Slot : s = exec[x].cur
    BY <1>1, Zenon DEF IInv, ReaderOK, StatementOK, OnSlot
  <1>3. PICK n \in Slot : n = next_slot
    BY <1>1 DEF PerformUpdate, TypeInv, TypeOK
  <1>4. rw_set' = [rw_set EXCEPT ![x][s] = "UPDATE"]
    <2>1. rw_set[x][s] \in {"NONE", "READ"}
      BY <1>1, <1>2, ToReplace, SMTT(40)
    <2> QED
      BY <1>2, <2>1, ZenonT(30) DEF PerformUpdate, Record, RecordUpdate
  <1>5. /\ header' = Linked(x, s, n, MAX_CID) /\ MoveHead(s, n) /\ next_slot' = n + 1
        /\ pc' = [pc EXCEPT ![x] = "rows"]
        /\ UNCHANGED <<index, exec, read_id, result, gc_set, historyVars>>
    BY <1>2, <1>3, Zenon DEF PerformUpdate, Goto
  <1>6. MAX_CID \in 0 .. MAX_CID
    BY TxnIds
  <1>7. MAX_CID = IF "UPDATE" = "DELETE" THEN INVALID_CID ELSE MAX_CID
    BY Zenon
  <1> HIDE DEF Slot
  <1> QED
    BY <1>1, <1>2, <1>3, <1>4, <1>5, <1>6, <1>7, Installed, Zenon

LEMMA PerformDeleteKeeps ==
  ASSUME IInv, NEW x \in Txn, PerformDelete(x)
  PROVE  Kept
  <1>1. pc[x] = "write" /\ TypeInv
    BY Zenon DEF PerformDelete, IInv
  <1>2. PICK s \in Slot : s = exec[x].cur
    BY <1>1, Zenon DEF IInv, ReaderOK, StatementOK, OnSlot
  <1>3. PICK n \in Slot : n = next_slot
    BY <1>1, SMTT(30) DEF PerformDelete, TypeInv, TypeOK
  <1>4. rw_set[x][s] \in {"NONE", "READ"} /\ exec[x].stmt # "update_key"
    BY <1>1, <1>2, ToReplace
  <1>5. rw_set' = [rw_set EXCEPT ![x][s] = "DELETE"]
    BY <1>2, <1>4, Zenon DEF PerformDelete, Record, RecordDelete
  <1>6. /\ header' = Linked(x, s, n, 0) /\ MoveHead(s, n) /\ next_slot' = n + 1
        /\ pc' = [pc EXCEPT ![x] = "rows"]
        /\ UNCHANGED <<index, exec, read_id, result, gc_set, historyVars>>
    BY <1>2, <1>3, <1>4 DEF PerformDelete, Goto
  <1>7. 0 \in 0 .. MAX_CID
    BY TxnIds
  <1>8. 0 = IF "DELETE" = "DELETE" THEN INVALID_CID ELSE MAX_CID
    OBVIOUS
  <1> HIDE DEF Slot
  <1> QED
    BY <1>1, <1>2, <1>3, <1>5, <1>6, <1>7, <1>8, Installed, Zenon

LEMMA InstallFailsKeeps ==
  ASSUME IInv, NEW x \in Txn, InstallFails(x)
  PROVE  Kept
  <1> TypeInv
    BY DEF IInv
  <1>1. pc[x] = "write"
    BY Zenon DEF InstallFails
  <1>2. PICK s \in Slot : s = exec[x].cur
    BY <1>1, Zenon DEF IInv, ReaderOK, StatementOK, OnSlot
  <1>3. /\ header[s].txn = x /\ header[s].begin # MAX_CID /\ header[s].end = MAX_CID
        /\ header[s].prev = NULL /\ head[header[s].entry] = s /\ ~ exec[x].mine
        /\ ~ Pending(x, s)
    BY <1>1, <1>2, ToReplace
  <1>4. header' = [header EXCEPT ![s].txn = INITIAL_TXN_ID]
    BY <1>2, <1>3, ZenonT(30) DEF InstallFails
  <1>5. /\ header' \in [Slot -> Headers] /\ OthersSame(s) /\ LinksKept(s)
        /\ header'[s].txn = INITIAL_TXN_ID /\ header'[s].reader = header[s].reader
        /\ header'[s].begin = header[s].begin /\ header'[s].end = header[s].end
        /\ header'[s].prev = header[s].prev
    BY <1>4, SetTxn, Zenon
  <1>6. /\ pc' = [pc EXCEPT ![x] = "ready"] /\ next_slot' = next_slot + 1
        /\ result' = [result EXCEPT ![x] = "FAILURE"]
        /\ UNCHANGED <<index, head, exec, read_id, rw_set, gc_set, historyVars>>
    BY DEF InstallFails, Fail, Goto, SetResult
  <1>7. pc'[x] = "ready" /\ pc' \in [Txn -> Locations]
    BY <1>6, Zenon DEF TypeInv, TypeOK, Locations
  <1>8. TypeInv'
    <2>3. next_slot <= MaxSlot /\ next_slot \in 1 .. (MaxSlot + 1) /\ MaxSlot \in Int
      BY SizeAssumption DEF InstallFails, TypeInv, TypeOK
    <2>1. next_slot' \in 1 .. (MaxSlot + 1)
      BY <1>6, <2>3
    <2>2. result' \in [Txn -> {"SUCCESS", "FAILURE", "ABORTED"}]
      BY <1>6, ZenonT(30) DEF TypeInv, TypeOK
    <2> QED
      BY <1>5, <1>6, <1>7, <2>1, <2>2, Zenon DEF TypeInv, TypeOK, historyVars
  <1>9. ControlStep(x)
    BY <1>1, <1>6, <1>7, Zenon DEF ControlStep, Committing, historyVars, TypeInv, TypeOK
  <1>10. \A t \in Slot : Pending(x, t)' <=> Pending(x, t)
    BY <1>1, <1>6, <1>7, Zenon DEF Pending, Finishing, Committing
  <1>11. \A t \in Slot \ {s} : ~ Busy(x, t) /\ ~ At(x, t, {"write"})
    BY <1>1, <1>2, Zenon DEF Busy, At, Replacing
  <1>12. /\ {} \in SUBSET Slot /\ gc_set'[x] = gc_set[x] \union {}
         /\ next_slot <= next_slot' /\ returned' = returned
    BY <1>6 DEF TypeInv, TypeOK, historyVars
  <1>13. header'[s].end # INVALID_CID
    <2>1. MAX_CID # 0
      BY TxnIds, SMTT(30)
    <2> QED
      BY <1>3, <1>5, <2>1, Zenon
  <1>14. /\ header[s].end \in {INVALID_CID, MAX_CID, x} /\ ~ Pending(x, s)'
         /\ \A t \in Slot \ {s} : Pending(x, t)' <=> Pending(x, t)
         /\ pc'[x] \in {"ready", "commit", "abort"} /\ pc[x] \notin {"idle", "a_unlink"}
         /\ UNCHANGED <<head, index, read_id, returned>> /\ rw_set'[x] = rw_set[x]
         /\ \A u \in {} : Garbage(x, u)' /\ \A y \in Txn \ {x} : ~ Garbage(y, u)
    BY <1>1, <1>3, <1>6, <1>7, <1>10, <1>12, Zenon
  <1> QED
    BY <1>3, <1>5, <1>8, <1>9, <1>11, <1>12, <1>13, <1>14, ReleaseStep, Zenon
-----------------------------------------------------------------------------
(* Inserting a tuple.                                                      *)

\* A slot is reserved, and put into the index if the key is not occupied.
LEMMA InsertTupleKeeps ==
  ASSUME IInv, TimestampedWriters, NEW x \in Txn, InsertTuple(x)
  PROVE  Kept
  <1> TypeInv /\ exec[x] \in Execs /\ WriterOK(x)
    BY ExecSame, Zenon DEF IInv
  <1>1. PICK n \in Slot : n = next_slot
    BY SizeAssumption DEF InsertTuple, TypeInv, TypeOK
  <1>2. n \in Int /\ n >= next_slot /\ n \in 0 .. MaxSlot
    BY <1>1
  <1>3. header[n] = EmptyHeader /\ n \notin index
    BY <1>2, ZenonT(30) DEF IInv, SlotOK
  <1>4. /\ pc[x] = "ready" /\ next_slot' = n + 1 /\ header' = header
        /\ UNCHANGED <<read_id, rw_set, gc_set, returned, absent>>
    BY <1>1, Zenon DEF InsertTuple, historyVars
  <1>5. TimestampsReads(x)
    BY Zenon DEF InsertTuple, TimestampedWriters
  <1>6. /\ exec'[x] \in Execs /\ exec'[x].cur = n
        /\ exec' = [exec EXCEPT ![x] = exec'[x]]
    <2>1. exec[x].count + 1 \in 0 .. MaxStatement
      BY SizeAssumption DEF InsertTuple, Execs
    <2>2. PICK c \in 0 .. MaxStatement : c = exec[x].count + 1
      BY <2>1, Zenon
    <2>3. exec' = [exec EXCEPT ![x] = [exec[x] EXCEPT !.count = c, !.cur = n]]
      BY <1>1, <2>2, Zenon DEF InsertTuple
    <2>4. [exec[x] EXCEPT !.count = c, !.cur = n] \in Execs
      BY <1>2, Zenon DEF Execs
    <2>5. exec'[x] = [exec[x] EXCEPT !.count = c, !.cur = n]
      BY <2>3, Zenon DEF TypeInv
    <2>6. [exec[x] EXCEPT !.count = c, !.cur = n].cur = n
      BY Zenon DEF Execs
    <2> QED
      BY <2>3, <2>4, <2>5, <2>6, Zenon
  <1>7. PICK L \in {"ready", "insert"} :
          /\ pc' = [pc EXCEPT ![x] = L]
          /\ result' \in [Txn -> {"SUCCESS", "FAILURE", "ABORTED"}]
          /\ \/ L = "ready" /\ UNCHANGED <<index, head>>
             \/ index' = index \union {n} /\ head' = [head EXCEPT ![n] = n]
    <2>1. CASE Fail(x) /\ UNCHANGED <<index, head>>
      BY <2>1, Zenon DEF Fail, Goto, SetResult, TypeInv, TypeOK
    <2>2. CASE /\ index' = IF HasIndex THEN index \union {n} ELSE index
               /\ head' = IF HasIndex THEN [head EXCEPT ![n] = n] ELSE head
               /\ (Goto(x, "insert") /\ UNCHANGED result) \/ Fail(x)
      <3>1. index' = index \union {n} /\ head' = [head EXCEPT ![n] = n]
        BY <2>2, Zenon DEF TimestampedWriters
      <3> QED
        BY <2>2, <3>1, Zenon DEF Fail, Goto, SetResult, TypeInv, TypeOK
    <2> QED
      BY <1>1, <2>1, <2>2, Zenon DEF InsertTuple
  <1>8. pc'[x] = L /\ pc' \in [Txn -> Locations]
    BY <1>7, Zenon DEF TypeInv, TypeOK, Locations
  <1>9. /\ index' \subseteq Slot /\ head' \in [Slot -> 0 .. MaxSlot]
        /\ index \subseteq index' /\ \A e \in index : head'[e] = head[e]
        /\ \A e \in index' : e \in index \/ (e = n /\ head'[n] = n)
        /\ L = "insert" => n \in index' /\ head'[n] = n
    <2>1. index \subseteq Slot /\ head \in [Slot -> 0 .. MaxSlot]
      BY Zenon DEF TypeInv, TypeOK
    <2>2. CASE L = "ready" /\ UNCHANGED <<index, head>>
      BY <2>1, <2>2, Zenon
    <2>3. CASE index' = index \union {n} /\ head' = [head EXCEPT ![n] = n]
      <3>1. index' = index \union {n} /\ head' = [head EXCEPT ![n] = n]
        BY <2>3, Zenon
      <3>2. head' \in [Slot -> 0 .. MaxSlot] /\ head'[n] = n
        BY <1>2, <2>1, <3>1, Zenon
      <3>3. \A e \in index : head'[e] = head[e]
        BY <1>3, <2>1, <3>1, Zenon
      <3> QED
        BY <2>1, <3>1, <3>2, <3>3, Zenon
    <2> QED
      BY <1>7, <2>2, <2>3, Zenon
  <1>10. TypeInv'
    <2>1. next_slot' \in 1 .. (MaxSlot + 1)
      BY <1>1, <1>4, SizeAssumption
    <2>2. exec' \in [Txn -> Execs]
      BY <1>6 DEF TypeInv
    <2> QED
      BY <1>4, <1>7, <1>8, <1>9, <2>1, <2>2, Zenon DEF TypeInv, TypeOK
  <1>11. Step(x)
    <2>1. ControlStep(x)
      BY <1>1, <1>2, <1>4, <1>6, <1>7, <1>8, Zenon
      DEF ControlStep, Committing, TypeInv, TypeOK
    <2>2. \A e \in index : head[e] \in Slot
      BY ZenonT(30) DEF IInv, SlotOK, TypeInv, TypeOK
    <2>3. \A e \in index' : head'[e] \in Slot /\ (e < next_slot' \/ e \in index)
      BY <1>2, <1>4, <1>9, <2>2
    <2>4. next_slot \in Int /\ next_slot' \in Int /\ next_slot <= next_slot'
      BY <1>1, <1>2, <1>4
    <2>5. StoreStep(x)
      BY <1>4, <1>9, <2>3, <2>4, Zenon DEF StoreStep
    <2> QED
      BY <2>1, <2>5, Zenon DEF Step
  <1>12. \A t \in Slot : /\ Pending(x, t)' <=> Pending(x, t)
                         /\ ~ Busy(x, t) /\ ~ Busy(x, t)'
                         /\ ~ At(x, t, {"write"})
                         /\ ~ At(x, t, {"c_release", "a_release"})'
                         /\ rw_set'[x][t] = rw_set[x][t]
    BY <1>4, <1>7, <1>8, Zenon DEF Pending, Busy, At, Replacing, Finishing, Committing
  <1>13. \A t \in Slot : Pending(x, t)' => Written(x, t)'
    <2> SUFFICES ASSUME NEW t \in Slot, Pending(x, t)
                 PROVE  Written(x, t)'
      BY <1>12, Zenon
    <2>1. header[t].entry \in index
      BY <1>12, Waiting, Zenon
    <2> QED
      BY <1>4, <1>9, <1>12, <2>1, WaitingKept, Zenon
  <1>14. \A t \in Slot : header'[t].txn = x => Accounted(x, t)'
    <2> SUFFICES ASSUME NEW t \in Slot, header[t].txn = x
                 PROVE  Accounted(x, t)'
      BY <1>4, Zenon
    <2>1. Accounted(x, t)
      BY Zenon DEF WriterOK
    <2> QED
      BY <1>4, <1>12, <2>1, Zenon DEF Accounted, Writes
  <1>15. WriterOK(x)'
    <2>1. L = "insert" => \A y \in Txn \ {x} : pc'[y] = "insert" => exec'[y].cur # n
      <3> SUFFICES ASSUME NEW y \in Txn \ {x}, pc'[y] = "insert"
                   PROVE  exec'[y].cur # n
        BY Zenon
      <3>1. pc'[y] = pc[y] /\ exec'[y] = exec[y]
        BY <1>6, <1>7, Zenon DEF TypeInv, TypeOK
      <3>2. pc[y] = "insert" => exec[y].cur \in index
        BY Zenon DEF IInv, WriterOK
      <3> QED
        BY <1>3, <3>1, <3>2, Zenon
    <2>2. \A t \in Slot :
            /\ rw_set'[x][t] # "READ_OWN"
            /\ rw_set'[x][t] = "READ" => header'[t].begin # MAX_CID
            /\ TimestampsReads(x) \/ rw_set'[x][t] \in {"NONE", "READ"}
      BY <1>4, ZenonT(30) DEF WriterOK
    <2>3. pc'[x] \notin Finishing \union {"write"}
      BY <1>8, Zenon DEF Finishing, Committing
    <2> QED
      BY <1>3, <1>4, <1>6, <1>8, <1>9, <1>13, <1>14, <2>1, <2>2, <2>3, Zenon
      DEF WriterOK, Finishing, Committing, Replacing, TimestampsReads
  <1>16. ReaderOK(x)'
    <2>1. StatementOK(x)' /\ Loads(x, exec[x].cur)' /\ pc'[x] \notin OnRows
      BY <1>5, <1>6, <1>8, Zenon DEF StatementOK, Loads, OnRows, OnSlot, Scanning, Replacing,
         TimestampsReads
    <2> QED
      BY <1>4, <1>10, <1>11, <2>1, ReaderStays, Zenon
  <1>17. \A t \in Slot : /\ header'[t] = header[t]
                         /\ header'[t].begin = header[t].begin
                         /\ header'[t].prev = header[t].prev
    BY <1>4
  <1>18. gc_set'[x] = gc_set[x] /\ pc[x] # "a_unlink"
    BY <1>4
  <1> QED
    BY <1>10, <1>11, <1>15, <1>16, <1>17, <1>18, ListSame, NoGarbage, StepKeeps, Zenon

\* The reserved slot becomes an uncommitted version of the inserter.
LEMMA PerformInsertKeeps ==
  ASSUME IInv, TimestampedWriters, NEW x \in Txn, PerformInsert(x)
  PROVE  Kept
  <1> TypeInv /\ WriterOK(x) /\ ReaderOK(x)
    BY DEF IInv
  <1>1. /\ pc[x] = "insert" /\ pc' = [pc EXCEPT ![x] = "ready"]
        /\ UNCHANGED <<next_slot, index, head, exec, read_id, result, gc_set>>
        /\ UNCHANGED <<returned, absent>>
    BY Zenon DEF PerformInsert, Goto, historyVars
  <1>2. PICK s \in Slot : s = exec[x].cur
    BY <1>1, Zenon DEF ReaderOK, StatementOK, OnSlot
  <1>3. s \in index /\ head[s] = s /\ header[s] = EmptyHeader /\ TimestampsReads(x)
    BY <1>1, <1>2, Zenon DEF WriterOK, ReaderOK, StatementOK
  <1>4. /\ x \in Int /\ 2 < x /\ x < MAX_CID /\ MAX_CID \in Int /\ s # 0
        /\ header[s].txn # x /\ header[s].begin = MAX_CID /\ s \in 0 .. MaxSlot
    BY <1>3, TxnIds, EmptyFields
  <1>5. /\ header' \in [Slot -> Headers] /\ OthersSame(s)
        /\ header'[s].txn = x /\ header'[s].reader = 0 /\ header'[s].entry = s
        /\ header'[s].begin = MAX_CID /\ header'[s].end = MAX_CID
        /\ header'[s].prev = NULL /\ header'[s].next = NULL
    <2>1. header \in [Slot -> Headers]
      BY Zenon DEF TypeInv, TypeOK
    <2>2. PICK h : h = [header[s] EXCEPT !.txn = x, !.reader = 0, !.entry = s]
      BY Zenon
    <2>3. header' = [header EXCEPT ![s] = h]
      BY <1>2, <2>1, <2>2, Zenon DEF PerformInsert, TimestampedWriters
    <2>4. header[s] \in Headers /\ 0 \in 0 .. MAX_CID
      BY <1>4, <2>1
    <2>5. /\ h \in Headers /\ h.txn = x /\ h.reader = 0 /\ h.entry = s
          /\ h.begin = header[s].begin /\ h.end = header[s].end
          /\ h.prev = header[s].prev /\ h.next = header[s].next
      BY <1>4, <2>2, <2>4, Zenon DEF Headers
    <2>6. header' \in [Slot -> Headers] /\ OthersSame(s) /\ header'[s] = h
      BY <2>3, <2>5, SetHeader, ZenonT(30)
    <2> QED
      BY <1>3, <2>5, <2>6, EmptyFields, Zenon
  <1>6. ~ Pending(x, s) /\ rw_set[x][s] = "NONE"
    <2>1. ~ Busy(x, s)
      BY <1>1, Zenon DEF Busy, At, Replacing
    <2>2. ~ Pending(x, s)
      BY <1>4, <2>1, Waiting, ZenonT(30)
    <2> QED
      BY <1>1, <1>4, <2>2, Zenon DEF Pending, Finishing, Committing, WriterOK
  <1>7. /\ rw_set' \in [Txn -> [Slot -> RWType]] /\ rw_set'[x][s] = "INSERT"
        /\ \A t \in Slot \ {s} : rw_set'[x][t] = rw_set[x][t]
        /\ \A y \in Txn \ {x} : rw_set'[y] = rw_set[y]
    <2>1. rw_set' = [rw_set EXCEPT ![x][s] = "INSERT"]
      BY <1>2, <1>6, Zenon DEF PerformInsert, Record, RecordInsert, TypeInv, TypeOK
    <2>2. rw_set \in [Txn -> [Slot -> RWType]] /\ "INSERT" \in RWType
      BY Zenon DEF TypeInv, TypeOK, RWType
    <2> QED
      BY <2>1, <2>2, Zenon
  <1>8. pc'[x] = "ready" /\ pc' \in [Txn -> Locations]
    BY <1>1, Zenon DEF TypeInv, TypeOK, Locations
  <1>9. TypeInv'
    BY <1>1, <1>5, <1>7, <1>8, Zenon DEF TypeInv, TypeOK
  <1>10. \A t \in Slot \ {s} : header'[t] = header[t]
    BY <1>5, Zenon DEF OthersSame
  <1>11. Step(x)
    <2>1. ControlStep(x)
      BY <1>1, <1>7, <1>8, Zenon DEF ControlStep, Committing, TypeInv, TypeOK
    <2>2. NewStep(x, s)
      BY <1>1, <1>2, <1>3, <1>5, Zenon DEF NewStep, At
    <2>3. \A e \in index : head[e] \in Slot /\ e < next_slot /\ next_slot \in Int
      <3>1. next_slot \in Int /\ index \subseteq Slot
        BY Counter, Zenon DEF TypeInv, TypeOK
      <3>2. \A e \in index : ~ (e >= next_slot)
        BY <3>1, Zenon DEF IInv, SlotOK
      <3>3. \A e \in index : e < next_slot
        BY ONLY <3>1, <3>2
      <3> QED
        BY <3>1, <3>3, Heads, Zenon
    <2>4. StoreStep(x)
      <3>1. \A t \in Slot : header'[t] = header[t] \/ NewStep(x, t)
        BY <1>10, <2>2, Zenon
      <3>2. next_slot \in Int /\ next_slot <= next_slot
        <4>1. next_slot \in Int
          BY Counter, Zenon
        <4> QED
          BY ONLY <4>1
      <3>3. head' = head /\ index' = index /\ next_slot' = next_slot
        BY <1>1, Zenon
      <3> QED
        BY <2>3, <3>1, <3>2, <3>3, Zenon DEF StoreStep
    <2> QED
      BY <2>1, <2>4, Zenon DEF Step
  <1>12. \A t \in Slot \ {s} : /\ Pending(x, t)' <=> Pending(x, t)
                               /\ ~ Busy(x, t) /\ ~ Busy(x, t)'
                               /\ ~ At(x, t, {"write"})
                               /\ ~ At(x, t, {"c_release", "a_release"})'
    BY <1>1, <1>7, <1>8, Zenon DEF Pending, Busy, At, Replacing, Finishing, Committing
  <1>13. \A t \in Slot : Pending(x, t)' => Written(x, t)'
    <2> SUFFICES ASSUME NEW t \in Slot, Pending(x, t)'
                 PROVE  Written(x, t)'
      BY Zenon
    <2>1. CASE t = s
      <3>1. Inserted(x, s)'
        BY <1>1, <1>3, <1>5, <1>7, <1>8, Zenon DEF Inserted, At
      <3> QED
        BY <1>7, <2>1, <3>1, Zenon DEF Written, Writes
    <2>2. CASE t # s
      <3>1. /\ t \in Slot \ {s} /\ Pending(x, t) /\ ~ Busy(x, t) /\ ~ Busy(x, t)'
            /\ rw_set'[x][t] = rw_set[x][t] /\ header'[t] = header[t]
        BY <1>7, <1>10, <1>12, <2>2, Zenon
      <3>2. Writes(x, t) => header[t].prev \in Slot /\ header[header[t].prev].txn = x
        BY <3>1, Waiting, Zenon
      <3>3. Writes(x, t) => header'[header[t].prev] = header[header[t].prev]
        BY <1>4, <1>10, <3>2, Zenon
      <3> QED
        BY <1>1, <3>1, <3>3, WaitingKept, Zenon
    <2> QED
      BY <2>1, <2>2, Zenon
  <1>14. \A t \in Slot : header'[t].txn = x => Accounted(x, t)'
    <2> SUFFICES ASSUME NEW t \in Slot, header'[t].txn = x
                 PROVE  Accounted(x, t)'
      BY Zenon
    <2>1. CASE t = s
      BY <1>7, <1>8, <2>1, Zenon DEF Accounted, Pending, Finishing, Committing
    <2>2. CASE t # s
      <3>1. Accounted(x, t) /\ header'[t] = header[t]
        BY <1>10, <2>2, Zenon DEF WriterOK
      <3> QED
        BY <1>6, <1>7, <1>10, <1>12, <2>2, <3>1, ZenonT(30) DEF Accounted, Writes
    <2> QED
      BY <2>1, <2>2, Zenon
  <1>15. WriterOK(x)'
    <2>1. \A t \in Slot :
            /\ rw_set'[x][t] # "READ_OWN"
            /\ rw_set'[x][t] = "READ" => header'[t].begin # MAX_CID
      BY <1>7, <1>10, Zenon DEF WriterOK
    <2> QED
      BY <1>3, <1>8, <1>13, <1>14, <2>1, Zenon DEF WriterOK, Replacing, TimestampsReads
  <1>16. ReaderOK(x)'
    <2>1. StatementOK(x)' /\ Loads(x, exec[x].cur)' /\ pc'[x] \notin OnRows
      BY <1>8, Zenon DEF StatementOK, Loads, OnRows, OnSlot, Scanning, Replacing
    <2> QED
      BY <1>1, <1>9, <1>11, <2>1, ReaderStays, Zenon
  <1>17. \A t \in Slot : /\ header'[t] = header[t] \/ SlotOK(t)'
                         /\ header'[t].begin = header[t].begin
                         /\ header'[t].prev = header[t].prev
    <2>1. s < next_slot
      BY <1>3 DEF IInv, SlotOK, TypeInv, TypeOK
    <2>2. SlotOK(s)'
      BY <1>1, <1>3, <1>4, <1>5, <2>1 DEF SlotOK, TypeInv, TypeOK
    <2> QED
      BY <1>3, <1>5, <1>10, <2>2, EmptyFields, Zenon
  <1>18. gc_set'[x] = gc_set[x] /\ pc[x] # "a_unlink"
    BY <1>1
  <1> QED
    BY <1>9, <1>11, <1>15, <1>16, <1>17, <1>18, ListSame, NoGarbage, StepKeeps, Zenon
-----------------------------------------------------------------------------
(* What the invariant says of the properties.                              *)

\* Who owns a slot, and how it got there.
LEMMA Owned ==
  ASSUME IInv, NEW y \in Txn, NEW s \in Slot, header[s].txn = y
  PROVE  /\ pc[y] \notin {"idle", "ended"}
         /\ header[s].reader \in {0, y}
  <1> TypeInv /\ WriterOK(y)
    BY Zenon DEF IInv
  <1>1. Accounted(y, s)
    BY ZenonT(30) DEF WriterOK
  <1>2. \A t \in Slot : Pending(y, t) => pc[y] \notin {"idle", "ended"}
    <2>1. ReadIdOK(y)
      BY ZenonT(30) DEF IInv, ReaderOK
    <2> QED
      BY <2>1, Zenon DEF WriterOK, Pending, ReadIdOK, Finishing
  <1>3. CASE Pending(y, s)
    <2>1. Written(y, s)
      BY <1>3, Zenon DEF WriterOK
    <2>2. Held(y, s) \/ Inserted(y, s)
      BY <2>1, Zenon DEF Written, Superseded, Newest, Replaced
    <2> QED
      BY <1>2, <1>3, <2>2, Zenon DEF Held, Inserted
  <1>4. CASE At(y, s, {"write"})
    <2>1. pc[y] = "write" /\ Newest(y, s)
      BY <1>4, Zenon DEF At, WriterOK
    <2> QED
      BY <2>1, Zenon DEF Newest, Held
  <1>5. CASE /\ header[s].next \in Slot /\ Pending(y, header[s].next)
             /\ Writes(y, header[s].next) /\ header[header[s].next].prev = s
             /\ ~ At(y, header[s].next, {"c_release", "a_release"})
    <2>1. PICK o \in Slot : /\ Pending(y, o) /\ Writes(y, o) /\ header[o].prev = s
                            /\ ~ At(y, o, {"c_release", "a_release"})
      BY <1>5, Zenon
    <2>2. Written(y, o) /\ ~ At(y, o, {"c_release"}) /\ ~ At(y, o, {"a_release"})
      BY <2>1, ZenonT(30) DEF WriterOK, At
    <2>3. Replaced(y, o)
      BY <2>1, <2>2, Zenon DEF Written
    <2>4. header[s].reader = 0
      BY <2>1, <2>3, Zenon DEF Replaced
    <2> QED
      BY <1>2, <2>1, <2>4, Zenon
  <1> QED
    BY <1>1, <1>3, <1>4, <1>5, ZenonT(30) DEF Accounted

LEMMA OwnersAliveInv == IInv => OwnersAlive
  BY Owned, Zenon DEF OwnersAlive

LEMMA OwnerIsLastReaderInv == IInv => OwnerIsLastReader
  <1> SUFFICES ASSUME IInv, NEW x \in Txn
               PROVE  /\ /\ pc[x] = "read" /\ TimestampsReads(x)
                         /\ header[exec[x].cur].txn = x
                         => header[exec[x].cur].reader \in {0, x}
                      /\ pc[x] = "write" /\ exec[x].stmt = "delete" =>
                           header[exec[x].cur].reader = x
    BY Zenon DEF OwnerIsLastReader
  <1>1. pc[x] = "read" => exec[x].cur \in Slot
    BY Zenon DEF IInv, ReaderOK, StatementOK, OnSlot, Scanning
  <1>2. pc[x] = "write" => header[exec[x].cur].reader = x
    BY ZenonT(30) DEF IInv, WriterOK, Newest, Held
  <1> QED
    BY <1>1, <1>2, Owned, Zenon

LEMMA OwnerAfterReadersInv == IInv => OwnerAfterReaders
  <1> SUFFICES ASSUME IInv, NEW s \in Slot, NEW x \in Txn, NEW y \in Txn,
                      header[s].txn = y, s \in returned[x], TimestampsReads(x)
               PROVE  x <= y
    BY DEF OwnerAfterReaders
  <1>1. header[s].reader \in {0, y}
    BY Owned, Zenon
  <1>2. header[s].reader >= x
    BY ZenonT(30) DEF IInv, ReaderOK, Seen
  <1> QED
    BY <1>1, <1>2, TxnIds

LEMMA CommitsNewestInv == IInv => CommitsNewest
  <1> SUFFICES ASSUME IInv, NEW x \in Txn, pc[x] = "commit", NEW s \in exec[x].todo,
                      Writes(x, s)
               PROVE  header[s].end > x /\ header[s].prev # NULL
    BY Zenon DEF CommitsNewest
  <1>1. s \in Slot
    BY ExecSame, Zenon DEF IInv, Execs
  <1>2. Pending(x, s) /\ ~ Busy(x, s)
    BY Zenon DEF Pending, Writes, Busy, At, Replacing
  <1>3. header[s].end = MAX_CID /\ header[s].prev \in Slot
    BY <1>1, <1>2, Waiting, Zenon
  <1> QED
    BY <1>3, TxnIds

\* Where a settled version ends is where the list says.
LEMMA SettledEnds ==
  ASSUME IInv, NEW s \in Slot, Settled(s)
  PROVE  header[s].end = EndOf(s)
  <1>1. SlotOK(s)
    BY Zenon DEF IInv
  <1>2. CASE header[s].prev = NULL
    BY <1>1, <1>2 DEF Settled, SlotOK, EndOf, Linking
  <1>3. CASE header[s].prev # NULL
    BY <1>1, <1>3, Zenon DEF Settled, SlotOK, EndOf, Linking
  <1> QED
    BY <1>2, <1>3, Zenon

LEMMA VersionsDisjointInv == IInv => VersionsDisjoint
  <1> SUFFICES ASSUME IInv, NEW s \in Slot, NEW t \in Slot, s # t, Settled(s),
                      Settled(t), header[s].entry = header[t].entry
               PROVE  header[s].end <= header[t].begin \/ header[t].end <= header[s].begin
    BY DEF VersionsDisjoint
  <1>1. ListOK(s, t)
    BY Zenon DEF IInv
  <1>2. EndOf(s) <= header[t].begin \/ EndOf(t) <= header[s].begin
    BY <1>1, ZenonT(30) DEF ListOK, Settled
  <1> QED
    BY <1>2, SettledEnds

LEMMA ChainIntactInv == IInv => ChainIntact
  <1> SUFFICES ASSUME IInv, \A x \in Txn : pc[x] \in {"idle", "ended"},
                      NEW s \in Slot, Stored(s)
               PROVE  IF header[s].prev = NULL
                      THEN /\ header[s].end = MAX_CID
                           /\ HasIndex => head[header[s].entry] = s
                      ELSE /\ Settled(header[s].prev)
                           /\ header[header[s].prev].next = s
                           /\ header[header[s].prev].begin = header[s].end
    BY Zenon DEF ChainIntact
  <1> TypeInv /\ SlotOK(s)
    BY Zenon DEF IInv
  <1>1. CASE header[s].prev = NULL
    BY <1>1 DEF Stored, SlotOK, Linking
  <1>2. CASE header[s].prev # NULL
    <2>1. /\ Linking(s) /\ header[header[s].prev].begin = header[s].end
          /\ header[s].end # MAX_CID
      BY <1>2, Zenon DEF Stored, SlotOK
    <2>2. PICK n \in Slot : n = header[s].prev /\ header[n].next = s
      BY <2>1, Zenon DEF Linking
    <2>3. header[n].txn \notin Txn
      BY Owned, Zenon
    <2>4. header[n].txn \in {INITIAL_TXN_ID, INVALID_TXN_ID}
      BY <2>3, Fields, Zenon
    <2> QED
      BY <1>2, <2>1, <2>2, <2>4, Zenon DEF Settled
  <1> QED
    BY <1>1, <1>2, ZenonT(30)

LEMMA GarbageIsDeadInv == IInv => GarbageIsDead
  <1> SUFFICES ASSUME IInv, NEW x \in Txn, pc[x] = "ended", NEW s \in gc_set[x]
               PROVE  /\ header[s].txn = INVALID_TXN_ID \/ header[s].end <= x
                      /\ \A y \in Txn \ {x} : pc[y] = "ended" => s \notin gc_set[y]
    BY Zenon DEF GarbageIsDead
  <1>1. GarbageOK(x)
    BY Zenon DEF IInv
  <1>2. Garbage(x, s) /\ \A y \in Txn \ {x} : s \notin gc_set[y]
    BY <1>1, Zenon DEF GarbageOK
  <1>3. header[s].txn = INVALID_TXN_ID \/ header[s].end = x
    BY <1>2, Zenon DEF Garbage
  <1> QED
    BY <1>2, <1>3, TxnIds

LEMMA ReadsCommittedInv == IInv => ReadsCommitted
  BY ZenonT(30) DEF IInv, ReaderOK, Seen, ReadsCommitted

LEMMA SnapshotConsistentInv == IInv => SnapshotConsistent
  <1> SUFFICES ASSUME IInv, NEW x \in Txn, IsolationOf[x] \in {"SNAPSHOT", "READ_ONLY"},
                      NEW s \in returned[x]
               PROVE  header[s].begin <= read_id[x] /\ read_id[x] < header[s].end
    BY Zenon DEF SnapshotConsistent
  <1>1. Seen(x, s)
    BY Zenon DEF IInv, ReaderOK
  <1>2. ~ TimestampsReads(x)
    BY Zenon DEF TimestampsReads
  <1> QED
    BY <1>1, <1>2, Zenon DEF Seen
-----------------------------------------------------------------------------
(* The invariant holds initially and every step keeps it.                  *)

LEMMA InitInv ==
  ASSUME TimestampedWriters, Init
  PROVE  IInv
  <1>1. 2 < MAX_CID /\ MAX_CID \in Int /\ 1 \in Slot /\ 1 \in 0 .. MaxSlot
        /\ \A x \in Txn : x \in Int /\ 2 < x /\ x < MAX_CID
    BY CidAssumption, SizeAssumption
  <1>2. EmptyHeader \in Headers
    BY <1>1, SizeAssumption DEF EmptyHeader, Headers
  <1>3. PICK h : h = [EmptyHeader EXCEPT !.txn = INITIAL_TXN_ID, !.begin = LoadCid,
                                         !.entry = 1]
    BY Zenon
  <1>4. /\ h \in Headers /\ h.txn = INITIAL_TXN_ID /\ h.begin = LoadCid /\ h.entry = 1
        /\ h.end = MAX_CID /\ h.prev = NULL /\ h.next = NULL
    <2>1. LoadCid \in 0 .. MAX_CID
      BY <1>1
    <2>2. h \in Headers
      BY <1>1, <1>2, <1>3, <2>1, ZenonT(30) DEF Headers
    <2> QED
      BY <1>3, <2>2, Zenon DEF EmptyHeader
  <1>5. /\ header = [s \in Slot |-> IF s = 1 /\ Loaded THEN h ELSE EmptyHeader]
        /\ index = IF Loaded THEN {1} ELSE {}
    BY <1>3, Zenon DEF Init, TimestampedWriters
  <1>6. \A s \in Slot : \/ header[s] = EmptyHeader /\ s \notin index
                        \/ header[s] = h /\ s = 1 /\ s \in index /\ head[s] = s
    BY <1>5, Zenon DEF Init
  <1>7. TypeInv
    <2>1. header \in [Slot -> Headers] /\ index \subseteq Slot
      BY <1>1, <1>2, <1>4, <1>5, Zenon
    <2>2. head \in [Slot -> 0 .. MaxSlot] /\ next_slot \in 1 .. (MaxSlot + 1)
      BY SizeAssumption DEF Init
    <2>3. NoExec \in Execs
      BY <1>1, SizeAssumption DEF NoExec, Execs, Statement
    <2>4. exec \in [Txn -> Execs]
      BY <2>3, Zenon DEF Init
    <2>5. /\ pc \in [Txn -> Locations] /\ read_id \in [Txn -> 0 .. MAX_CID]
          /\ result \in [Txn -> {"SUCCESS", "FAILURE", "ABORTED"}]
      BY <1>1 DEF Init, Locations
    <2>6. /\ rw_set \in [Txn -> [Slot -> RWType]] /\ gc_set \in [Txn -> SUBSET Slot]
          /\ returned \in [Txn -> SUBSET Slot] /\ absent \in [Txn -> SUBSET Slot]
      BY Zenon DEF Init, RWType
    <2> QED
      BY <2>1, <2>2, <2>4, <2>5, <2>6, ZenonT(30) DEF TypeInv, TypeOK
  <1>8. \A x \in Txn : /\ pc[x] = "idle" /\ gc_set[x] = {} /\ returned[x] = {}
                       /\ \A s \in Slot : rw_set[x][s] = "NONE"
    BY Zenon DEF Init
  <1>9. \A x \in Txn : \A s \in Slot : header[s].txn # x
    BY <1>1, <1>4, <1>6, EmptyFields, SMTT(30)
  <1>10. \A x \in Txn : WriterOK(x)
    BY <1>8, <1>9, Zenon DEF WriterOK, Pending, Replacing
  <1>11. \A x \in Txn : ReaderOK(x)
    BY <1>8, ZenonT(30) DEF ReaderOK, StatementOK, ReadIdOK, Loads, OnRows, OnSlot, Scanning, Replacing
  <1>12. \A x \in Txn : GarbageOK(x)
    BY <1>8, Zenon DEF GarbageOK
  <1>13. \A s \in Slot : SlotOK(s)
    <2>1. next_slot = 2
      BY Zenon DEF Init
    <2>2. ASSUME NEW s \in Slot, header[s] = EmptyHeader, s \notin index
          PROVE  SlotOK(s)
      BY <1>1, <2>1, <2>2, EmptyFields, SMTT(30) DEF SlotOK
    <2>3. ASSUME NEW s \in Slot, header[s] = h, s = 1, s \in index, head[s] = s
          PROVE  SlotOK(s)
      BY <1>1, <1>4, <2>1, <2>3 DEF SlotOK
    <2> QED
      BY <1>6, <2>2, <2>3, Zenon
  <1>14. \A s, t \in Slot : ListOK(s, t)
    BY <1>6, EmptyFields, Zenon DEF ListOK
  <1> QED
    BY <1>7, <1>10, <1>11, <1>12, <1>13, <1>14, Zenon DEF IInv

\* A step that changes nothing.
LEMMA Stutter ==
  ASSUME IInv, UNCHANGED vars
  PROVE  Kept
  <1>0. /\ header' = header /\ next_slot' = next_slot /\ index' = index /\ head' = head
        /\ pc' = pc /\ exec' = exec /\ read_id' = read_id /\ result' = result
        /\ rw_set' = rw_set /\ gc_set' = gc_set /\ returned' = returned /\ absent' = absent
    BY Zenon DEF vars
  <1>1. TypeInv'
    BY <1>0, ZenonT(30) DEF IInv, TypeInv, TypeOK
  <1>2. ASSUME NEW x \in Txn PROVE WriterOK(x)'
    <2>1. \A s : (Pending(x, s)' <=> Pending(x, s)) /\ (Writes(x, s)' <=> Writes(x, s))
      BY <1>0, Zenon DEF Pending, Writes
    <2>2. \A s, L : At(x, s, L)' <=> At(x, s, L)
      BY <1>0, ZenonT(30) DEF At
    <2>3. \A s \in Slot : Written(x, s)' <=> Written(x, s)
      <3> SUFFICES ASSUME NEW s \in Slot PROVE Written(x, s)' <=> Written(x, s)
        BY Zenon
      <3>1. (Held(x, s)' <=> Held(x, s)) /\ (Linking(s)' <=> Linking(s))
        BY ONLY <1>0 DEF Held, Linking
      <3>2. Newest(x, s)' <=> Newest(x, s)
        BY ONLY <1>0, <3>1 DEF Newest
      <3>3. Superseded(x, s)' <=> Superseded(x, s)
        BY ONLY <1>0, <3>1 DEF Superseded
      <3>4. Replaced(x, s)' <=> Replaced(x, s)
        BY ONLY <1>0, <2>2, <3>1 DEF Replaced
      <3>5. Inserted(x, s)' <=> Inserted(x, s)
        BY ONLY <1>0, <2>2 DEF Inserted
      <3> QED
        BY ONLY <2>1, <2>2, <3>2, <3>3, <3>4, <3>5 DEF Written
    <2>4. \A s \in Slot : Accounted(x, s)' <=> Accounted(x, s)
      BY <1>0, <2>1, <2>2, Zenon DEF Accounted
    <2>5. WriterOK(x)
      BY Zenon DEF IInv
    <2>6. Newest(x, exec[x].cur)' <=> Newest(x, exec[x].cur)
      BY ONLY <1>0 DEF Newest, Held
    <2>7. (\A s \in Slot : Pending(x, s) => Written(x, s))'
      BY <2>1, <2>3, <2>5, ZenonT(30) DEF WriterOK
    <2>8. (\A s \in Slot : header[s].txn = x => Accounted(x, s))'
      BY <1>0, <2>4, <2>5, ZenonT(30) DEF WriterOK
    <2> QED
      BY <1>0, <2>1, <2>5, <2>6, <2>7, <2>8, ZenonT(30) DEF WriterOK, TimestampsReads
  <1>3. ASSUME NEW x \in Txn PROVE ReaderOK(x)'
    <2>1. ReaderOK(x)
      BY Zenon DEF IInv
    <2>2. StatementOK(x)' <=> StatementOK(x)
      BY ONLY <1>0 DEF StatementOK, TimestampsReads
    <2>3. ReadIdOK(x)' <=> ReadIdOK(x)
      BY ONLY <1>0 DEF ReadIdOK, TimestampsReads
    <2>4. \A s : (Row(x, s)' <=> Row(x, s)) /\ (Seen(x, s)' <=> Seen(x, s))
      BY ONLY <1>0 DEF Row, Seen, TimestampsReads
    <2>5. Loads(x, exec[x].cur)' <=> Loads(x, exec[x].cur)
      BY ONLY <1>0, <2>4 DEF Loads, TimestampsReads
    <2> QED
      BY ONLY <1>0, <2>1, <2>2, <2>3, <2>4, <2>5 DEF ReaderOK, TimestampsReads
  <1>4. ASSUME NEW x \in Txn PROVE GarbageOK(x)'
    BY <1>0, Zenon DEF IInv, GarbageOK, Garbage
  <1>5. ASSUME NEW s \in Slot PROVE SlotOK(s)'
    BY <1>0, Zenon DEF IInv, SlotOK, Linking
  <1>6. ASSUME NEW s \in Slot, NEW t \in Slot PROVE ListOK(s, t)'
    BY <1>0, Zenon DEF IInv, ListOK, EndOf
  <1>7. HistoryKept
    BY <1>0, Zenon DEF HistoryKept
  <1> QED
    BY <1>1, <1>2, <1>3, <1>4, <1>5, <1>6, <1>7, Zenon DEF Kept, IInv

\* Without select for update nobody owns a version just to read it.
LEMMA NoReadOwn ==
  ASSUME IInv, NEW x \in Txn
  PROVE  ~ CheckOwnable(x) /\ ~ ReadOwn(x) /\ ~ YieldOwnership(x)
  <1> WriterOK(x) /\ StatementOK(x)
    BY Zenon DEF IInv, ReaderOK
  <1>1. ~ CheckOwnable(x)
    BY Zenon DEF CheckOwnable, StatementOK, OnRows, Scanning
  <1>2. ~ ReadOwn(x)
    BY Zenon DEF ReadOwn, StatementOK
  <1>3. ~ YieldOwnership(x)
    <2>1. exec[x].todo \subseteq Slot
      BY ExecSame, Zenon DEF IInv, Execs
    <2> QED
      BY <2>1, Zenon DEF YieldOwnership, WriterOK
  <1> QED
    BY <1>1, <1>2, <1>3, Zenon

LEMMA WorkKeeps ==
  ASSUME IInv, TimestampedWriters, NEW x \in Txn, Work(x)
  PROVE  Kept
  <1>1. CASE \/ NextTuple(x) \/ LoadTxnId(x) \/ LoadBegin(x) \/ LoadEnd(x)
             \/ WireTxnId(x) \/ WireBack(x) \/ FollowNext(x) \/ PerformRead(x)
             \/ EndStatement(x)
    BY <1>1, NextTupleKeeps, LoadTxnIdKeeps, LoadBeginKeeps, LoadEndKeeps,
       WireTxnIdKeeps, WireBackKeeps, FollowNextKeeps, PerformReadKeeps,
       EndStatementKeeps, Zenon
  <1>2. CASE \/ StartWrite(x) \/ AcquireOwnership(x) \/ PerformUpdate(x)
             \/ InstallFails(x) \/ PerformDelete(x) \/ PerformInsert(x)
    BY <1>2, StartWriteKeeps, AcquireOwnershipKeeps, PerformUpdateKeeps,
       InstallFailsKeeps, PerformDeleteKeeps, PerformInsertKeeps, Zenon
  <1>3. CASE \/ CommitBegin(x) \/ CommitEnd(x) \/ CommitOld(x) \/ CommitNew(x)
             \/ CommitRelease(x) \/ CommitInsertBegin(x) \/ CommitInsert(x)
    BY <1>3, CommitBeginKeeps, CommitEndKeeps, CommitOldKeeps, CommitNewKeeps,
       CommitReleaseKeeps, CommitInsertBeginKeeps, CommitInsertKeeps, Zenon
  <1>4. CASE \/ DiscardInsert(x) \/ AbortHead(x) \/ AbortUnlink(x)
             \/ AbortRelease(x) \/ EndTransaction(x)
    BY <1>4, DiscardInsertKeeps, AbortHeadKeeps, UnlinkKeeps, AbortReleaseKeeps,
       EndTransactionKeeps, Zenon
  <1> QED
    BY <1>1, <1>2, <1>3, <1>4, NoReadOwn, Zenon DEF Work

LEMMA RequestKeeps ==
  ASSUME IInv, TimestampedWriters, NEW x \in Txn, Request(x)
  PROVE  Kept
  BY BeginKeeps, StartScanKeeps, InsertTupleKeeps, CommitTransactionKeeps,
     AbortTransactionKeeps, ZenonT(30) DEF Request

\* Every step keeps the invariant and the committed history.
LEMMA NextKeeps ==
  ASSUME TimestampedWriters
  PROVE  IInv /\ [Next]_vars => Kept
  <1> SUFFICES ASSUME IInv, [Next]_vars PROVE Kept
    BY Zenon
  <1>1. CASE UNCHANGED vars
    BY <1>1, Stutter, Zenon
  <1>2. CASE Next
    BY <1>1, <1>2, WorkKeeps, RequestKeeps, Zenon DEF Next, AllEnded
  <1> QED
    BY <1>1, <1>2, Zenon

LEMMA Invariance ==
  ASSUME TimestampedWriters
  PROVE  Spec => []IInv
  <1>1. Init => IInv
    BY InitInv, Zenon
  <1>2. IInv /\ [Next]_vars => IInv'
    BY NextKeeps, Zenon DEF Kept
  <1> QED
    BY <1>1, <1>2, PTL DEF Spec
-----------------------------------------------------------------------------
(* The theorems.                                                           *)

\* Every variable of the store and of the transactions keeps its type.
THEOREM TransactionsTyped == ASSUME TimestampedWriters PROVE Spec => []TypeOK
  <1>1. IInv => TypeOK
    BY Zenon DEF IInv, TypeInv
  <1> QED
    BY <1>1, Invariance, PTL

\* CommitTransaction writes the fields of a version one by one, and still "at
\* any time point, only one version is visible": the lifetimes of the settled
\* versions of a tuple never overlap.
THEOREM LifetimesDisjoint == ASSUME TimestampedWriters PROVE Spec => []VersionsDisjoint
  BY VersionsDisjointInv, Invariance, PTL

\* PerformRead returns no version of another transaction that is not
\* committed, and no tombstone, although IsVisible loads three fields one by
\* one while a commit stores them.
THEOREM NothingDirtyIsRead == ASSUME TimestampedWriters PROVE Spec => []ReadsCommitted
  BY ReadsCommittedInv, Invariance, PTL

\* What a snapshot reader is given was current at its read id and stays so,
\* whatever commits later.
THEOREM SnapshotsAreConsistent ==
  ASSUME TimestampedWriters PROVE Spec => []SnapshotConsistent
  BY SnapshotConsistentInv, Invariance, PTL

\* AcquireOwnership and SetLastReaderCommitId order a writer after everybody
\* who has read the version it replaces.
THEOREM WritersFollowReaders == ASSUME TimestampedWriters PROVE Spec => []OwnerAfterReaders
  BY OwnerAfterReadersInv, Invariance, PTL

\* Every path out of a statement, a commit or an abort gives the ownership
\* back: no version belongs to a transaction that has ended.
THEOREM OwnershipIsReturned == ASSUME TimestampedWriters PROVE Spec => []OwnersAlive
  BY OwnersAliveInv, Invariance, PTL

\* The assertions of PerformRead and PerformDelete on the last reader of a
\* version its owner comes back to.
THEOREM OwnersAreLastReaders == ASSUME TimestampedWriters PROVE Spec => []OwnerIsLastReader
  BY OwnerIsLastReaderInv, Invariance, PTL

\* The assertion of CommitTransaction on the end of the version it replaces:
\* nobody has replaced it before.
THEOREM CommitsReplaceNewest == ASSUME TimestampedWriters PROVE Spec => []CommitsNewest
  BY CommitsNewestInv, Invariance, PTL

\* Once no transaction is running, every version list is whole: commit and
\* abort leave no dangling pointer and no gap between two lifetimes.
THEOREM ListsStayWhole == ASSUME TimestampedWriters PROVE Spec => []ChainIntact
  BY ChainIntactInv, Invariance, PTL

\* The garbage a transaction hands over when it ends is dead, and is handed
\* over once.
THEOREM GarbageStaysDead == ASSUME TimestampedWriters PROVE Spec => []GarbageIsDead
  BY GarbageIsDeadInv, Invariance, PTL

\* No step, of whichever transaction, changes the lifetime of a version that
\* has been superseded.
THEOREM HistoryNeverChanges == ASSUME TimestampedWriters PROVE Spec => HistoryImmutable
  <1>1. IInv /\ [Next]_vars =>
          [\A s \in Slot : Settled(s) /\ header[s].end # MAX_CID =>
             header'[s].begin = header[s].begin /\ header'[s].end = header[s].end]_vars
    BY NextKeeps, Zenon DEF Kept, HistoryKept
  <1> QED
    BY <1>1, Invariance, PTL DEF Spec, HistoryImmutable
=============================================================================
