---------------------- MODULE TimestampStatementProofs ----------------------
(***************************************************************************)
(* The steps of TimestampOrdering that begin a transaction and run its     *)
(* statements keep the invariant.                                          *)
(***************************************************************************)
EXTENDS TimestampInvariant

USE DEF INVALID_TXN_ID, INITIAL_TXN_ID, INVALID_CID, NULL, LoadCid, Slot
-----------------------------------------------------------------------------
(* Scans.                                                                  *)

Running == Locations \ (Finishing \union {"write", "insert"})

\* A writer that leaves the slots it owns alone.
LEMMA WriterStays ==
  ASSUME IInv, NEW x \in Txn, pc[x] \in Running, pc'[x] \in Running,
         UNCHANGED <<head, index>>,
         \A t \in Slot : /\ header[t].txn = x => header'[t] = header[t]
                         /\ header'[t].txn = x => header[t].txn = x
                         /\ header[t].begin # MAX_CID => header'[t].begin # MAX_CID,
         \A t \in Slot : \/ rw_set'[x][t] = rw_set[x][t]
                         \/ /\ rw_set[x][t] = "NONE" /\ rw_set'[x][t] = "READ"
                            /\ header'[t].begin # MAX_CID
  PROVE  WriterOK(x)'
  <1>1. pc[x] \notin Finishing \union {"write", "insert"}
        /\ pc'[x] \notin Finishing \union {"write", "insert"}
    BY Zenon DEF Running
  <1>2. \A s \in Slot : (Pending(x, s) <=> Pending(x, s)')
                        /\ (Pending(x, s) => rw_set'[x][s] = rw_set[x][s])
    BY <1>1, Zenon DEF Pending
  <1>3. \A s : \A L \in {{"write"}, {"c_release", "a_release"},
                    {"c_release"}, {"a_release"}, {"c_end", "c_old", "c_new"},
                    {"c_old", "c_new", "a_unlink"}, {"c_new"}, {"a_unlink"},
                    {"c_insert"}} : ~ At(x, s, L) /\ ~ At(x, s, L)'
    BY <1>1, Zenon DEF At, Finishing, Committing
  <1>4. WriterOK(x)
    BY Zenon DEF IInv
  <1>5. \A s \in Slot : Pending(x, s) => Written(x, s)'
    <2> SUFFICES ASSUME NEW s \in Slot, Pending(x, s)
                 PROVE  Written(x, s)'
      BY Zenon
    <2>1. Written(x, s) /\ rw_set'[x][s] = rw_set[x][s]
      BY <1>2, <1>4, Zenon DEF WriterOK
    <2>2. CASE Writes(x, s)
      <3>1. Replaced(x, s)
        BY <1>3, <2>1, <2>2, Zenon DEF Written
      <3>2. PICK n \in Slot : n = header[s].prev /\ header[n].txn = x
        BY <3>1, Zenon DEF Replaced, Linking
      <3>3. header'[s] = header[s] /\ header'[n] = header[n]
        BY <3>1, <3>2, Zenon DEF Replaced, Held
      <3>4. Replaced(x, s)'
        BY <1>3, <2>1, <3>1, <3>2, <3>3 DEF Replaced, Held, Linking
      <3> QED
        BY <1>3, <2>1, <2>2, <3>4, Zenon DEF Written, Writes
    <2>3. CASE ~ Writes(x, s)
      <3>1. Inserted(x, s)
        BY <2>1, <2>3, Zenon DEF Written
      <3>2. header'[s] = header[s]
        BY <3>1, Zenon DEF Inserted
      <3>3. Inserted(x, s)'
        BY <1>3, <2>1, <3>1, <3>2 DEF Inserted
      <3> QED
        BY <2>1, <2>3, <3>3, Zenon DEF Written, Writes
    <2> QED
      BY <2>2, <2>3, Zenon
  <1>6. \A s \in Slot : header'[s].txn = x => Accounted(x, s)'
    <2> SUFFICES ASSUME NEW s \in Slot, header'[s].txn = x
                 PROVE  Accounted(x, s)'
      BY Zenon
    <2>1. header[s].txn = x /\ header'[s] = header[s] /\ Accounted(x, s)
      BY <1>4 DEF WriterOK
    <2>2. CASE Pending(x, s)
      BY <1>2, <2>2, Zenon DEF Accounted
    <2>3. CASE ~ Pending(x, s)
      <3>1. PICK o \in Slot : /\ o = header[s].next /\ Pending(x, o) /\ Writes(x, o)
                              /\ header[o].prev = s
        BY <1>3, <2>1, <2>3 DEF Accounted
      <3>2. Replaced(x, o)
        BY <1>3, <1>4, <3>1, Zenon DEF WriterOK, Written
      <3>3. header'[o] = header[o] /\ Pending(x, o)' /\ Writes(x, o)'
        BY <1>2, <3>1, <3>2, Zenon DEF Replaced, Held, Writes
      <3> QED
        BY <1>3, <2>1, <3>1, <3>3 DEF Accounted
    <2> QED
      BY <2>2, <2>3, Zenon
  <1>7. (\A s \in Slot : /\ rw_set[x][s] # "READ_OWN"
                         /\ rw_set[x][s] = "READ" => header[s].begin # MAX_CID
                         /\ TimestampsReads(x) \/ rw_set[x][s] \in {"NONE", "READ"})'
    BY <1>4 DEF WriterOK
  <1> QED
    BY <1>1, <1>2, <1>5, <1>6, <1>7, Zenon DEF WriterOK, Replacing, Finishing, Committing

LEMMA WriterSame ==
  ASSUME IInv, NEW x \in Txn, UNCHANGED storeVars, rw_set'[x] = rw_set[x],
         pc[x] \in Running, pc'[x] \in Running
  PROVE  WriterOK(x)'
  BY WriterStays, Zenon DEF storeVars

LEMMA ScanStep ==
  ASSUME IInv, TypeInv', NEW x \in Txn, ControlStep(x),
         UNCHANGED <<storeVars, read_id, rw_set, gc_set, returned>>,
         pc[x] \in Running \ {"idle"}, pc'[x] \in Running,
         StatementOK(x)', Loads(x, exec[x].cur)',
         \/ pc'[x] \notin OnRows \/ exec'[x].rows = {}
         \/ pc[x] \in OnRows /\ exec'[x].rows \subseteq exec[x].rows
  PROVE  Kept
  <1>0. /\ header' = header /\ read_id' = read_id /\ returned' = returned
        /\ rw_set' = rw_set /\ gc_set' = gc_set /\ UNCHANGED storeVars
    BY Zenon DEF storeVars
  <1>1. ReaderOK(x) /\ ReadIdOK(x)
    BY Zenon DEF IInv, ReaderOK
  <1>2. ReadIdOK(x)'
    BY <1>0, <1>1, Zenon DEF ReadIdOK, ControlStep
  <1>3. (pc[x] \in OnRows /\ TimestampsReads(x) => \A s \in exec[x].rows : Row(x, s))'
    BY <1>0, <1>1, Zenon DEF ReaderOK, Row
  <1>4. (\A s \in returned[x] : Seen(x, s))'
    BY <1>0, <1>1, Zenon DEF ReaderOK, Seen
  <1>5. ReaderOK(x)'
    BY <1>2, <1>3, <1>4, Zenon DEF ReaderOK
  <1>6. WriterOK(x)'
    BY <1>0, WriterSame, Zenon
  <1>7. pc[x] # "a_unlink"
    BY Zenon DEF Running, Finishing
  <1> QED
    BY <1>0, <1>5, <1>6, <1>7, StoreSame, Zenon

LEMMA BeginKeeps ==
  ASSUME IInv, TimestampedWriters, NEW x \in Txn, Begin(x)
  PROVE  Kept
  <1> USE DEF Begin, Goto, historyVars
  <1>1. TypeInv'
    BY CidAssumption DEF IInv, TypeInv, TypeOK, Locations, storeVars
  <1>2. ControlStep(x)
    BY Zenon DEF ControlStep, IInv, TypeInv, TypeOK, Committing
  <1>3. pc[x] \in Running /\ pc'[x] \in Running /\ pc'[x] = "ready"
    BY DEF IInv, TypeInv, TypeOK, Running, Finishing, Committing, Locations
  <1>4. WriterOK(x)'
    BY <1>3, WriterSame, Zenon
  <1>5. ReaderOK(x)'
    <2>1. StatementOK(x)' /\ Loads(x, exec[x].cur)'
      BY <1>3, ZenonT(30) DEF StatementOK, Loads, OnRows, Scanning, OnSlot, Replacing
    <2>2. returned'[x] = {}
      BY ZenonT(30) DEF IInv, ReaderOK, ReadIdOK
    <2>3. PICK r \in 3 .. (MAX_CID - 1) :
            /\ IF IsolationOf[x] \in {"SNAPSHOT", "READ_ONLY"}
               THEN r \notin Txn /\ \A y \in Txn : y < r => pc[y] = "ended"
               ELSE r = x
            /\ read_id'[x] = r
      BY DEF IInv, TypeInv, TypeOK
    <2>4. TimestampsReads(x) => IsolationOf[x] \notin {"SNAPSHOT", "READ_ONLY"}
      BY Zenon DEF TimestampsReads
    <2>5. ~ TimestampsReads(x) => IsolationOf[x] \in {"SNAPSHOT", "READ_ONLY"}
      BY Zenon DEF TimestampedWriters
    <2>6. \A y \in Txn : pc[y] = "ended" => pc'[y] = "ended"
      BY Zenon DEF IInv, TypeInv, TypeOK
    <2>7. ReadIdOK(x)'
      BY <1>3, <2>2, <2>3, <2>4, <2>5, <2>6, CidAssumption DEF ReadIdOK
    <2> QED
      BY <1>3, <2>1, <2>2, <2>7, Zenon DEF ReaderOK, OnRows, Scanning
  <1> QED
    BY <1>1, <1>2, <1>4, <1>5, StoreSame, Zenon

LEMMA StartScanKeeps ==
  ASSUME IInv, TimestampedWriters, NEW x \in Txn, StartScan(x)
  PROVE  Kept
  <1> USE DEF StartScan, Goto, historyVars, txnVars
  <1> TypeInv
    BY Zenon DEF IInv
  <1>0. PICK st \in StatementsOf[x] \ {"insert"}, scan \in Scans :
          exec' = [exec EXCEPT ![x] =
            [NoExec EXCEPT !.stmt = st, !.scan = scan, !.count = exec[x].count + 1,
                           !.todo = IF scan = "index" THEN index
                                    ELSE 1 .. (next_slot - 1)]]
    BY Zenon
  <1>1. /\ st \in Statement /\ scan \in {"index", "seq"}
        /\ st \in {"select", "update", "delete"}
        /\ TimestampsReads(x) \/ st = "select"
    BY CidAssumption, Zenon DEF TimestampedWriters
  <1>2. /\ exec'[x].stmt = st /\ exec'[x].rows = {}
        /\ exec'[x].scan = "index" => exec'[x].todo = index
    BY <1>0, Zenon DEF NoExec, TypeInv
  <1>3. exec[x].count + 1 \in 0 .. MaxStatement
    BY SizeAssumption DEF TypeInv, Execs
  <1>4. (IF scan = "index" THEN index ELSE 1 .. (next_slot - 1)) \in SUBSET Slot
    BY SizeAssumption DEF TypeInv, TypeOK
  <1>5. [NoExec EXCEPT !.stmt = st, !.scan = scan, !.count = exec[x].count + 1,
                       !.todo = IF scan = "index" THEN index
                                ELSE 1 .. (next_slot - 1)] \in Execs
    <2>1. NoExec \in Execs
      BY CidAssumption, SizeAssumption DEF NoExec, Execs, Statement
    <2>2. PICK T \in SUBSET Slot : T = IF scan = "index" THEN index
                                      ELSE 1 .. (next_slot - 1)
      BY <1>4, Zenon
    <2>3. PICK c \in 0 .. MaxStatement : c = exec[x].count + 1
      BY <1>3, Zenon
    <2>4. [NoExec EXCEPT !.stmt = st, !.scan = scan, !.count = c, !.todo = T] \in Execs
      BY <1>1, <2>1, Zenon DEF Execs
    <2> QED
      BY <2>2, <2>3, <2>4, Zenon
  <1>6. TypeInv'
    BY <1>0, <1>5, Zenon DEF TypeInv, TypeOK, Locations, storeVars
  <1>7. ControlStep(x)
    BY <1>0 DEF ControlStep, TypeInv, TypeOK, Committing
  <1>8. pc[x] \in Running \ {"idle"} /\ pc'[x] \in Running /\ pc'[x] = "next"
    BY Zenon DEF TypeInv, TypeOK, Running, Finishing, Committing, Locations
  <1>9. StatementOK(x)'
    BY <1>1, <1>2, <1>8, Zenon DEF StatementOK, OnSlot, Scanning, Replacing, storeVars
  <1>10. Loads(x, exec[x].cur)'
    BY <1>8, ZenonT(30) DEF Loads
  <1> QED
    BY <1>2, <1>6, <1>7, <1>8, <1>9, <1>10, ScanStep, Zenon

\* A step of a scan that only loads: the statement and the rows of the
\* executor stay.
LEMMA LoadStep ==
  ASSUME IInv, NEW x \in Txn, NEW L \in OnRows \ {"own", "write"}, pc[x] \in Scanning,
         pc' = [pc EXCEPT ![x] = L], UNCHANGED <<storeVars, txnVars, historyVars>>,
         NEW e \in Execs, exec' = [exec EXCEPT ![x] = e],
         e.stmt = exec[x].stmt, e.scan = exec[x].scan, e.todo \subseteq exec[x].todo,
         e.rows = exec[x].rows, L \in OnSlot => e.cur \in Slot,
         Loads(x, exec[x].cur)'
  PROVE  Kept
  <1> USE DEF historyVars, txnVars
  <1> TypeInv /\ StatementOK(x)
    BY Zenon DEF IInv, ReaderOK
  <1>1. exec'[x] = e /\ pc'[x] = L
    BY Zenon DEF TypeInv, TypeOK
  <1>2. TypeInv'
    BY ZenonT(30) DEF TypeInv, TypeOK, OnRows, Scanning, Locations, storeVars
  <1>3. ControlStep(x)
    BY <1>1, Zenon DEF ControlStep, TypeInv, TypeOK, OnRows, Scanning, Committing
  <1>4. pc[x] \in Running \ {"idle"} /\ pc'[x] \in Running
    BY <1>1 DEF OnRows, Scanning, Running, Finishing, Committing, Locations
  <1>5. StatementOK(x)'
    <2>1. UNCHANGED index /\ pc[x] \in OnRows
      BY Zenon DEF storeVars, OnRows
    <2>2. L \notin {"own", "write", "insert", "read_own"}
      BY Zenon DEF OnRows, Scanning
    <2>3. L \in OnSlot => e.cur \in Slot
      BY Zenon
    <2> QED
      BY <1>1, <2>1, <2>2, <2>3, Zenon DEF StatementOK
  <1>6. pc[x] \in OnRows /\ exec'[x].rows \subseteq exec[x].rows
    BY <1>1, Zenon DEF OnRows
  <1> QED
    BY <1>2, <1>3, <1>4, <1>5, <1>6, ScanStep, Zenon

LEMMA NextTupleKeeps ==
  ASSUME IInv, NEW x \in Txn, NextTuple(x)
  PROVE  Kept
  <1> USE DEF NextTuple, Goto
  <1> TypeInv /\ StatementOK(x)
    BY Zenon DEF IInv, ReaderOK
  <1>0. pc[x] \in Scanning /\ exec[x] \in Execs
    BY ExecSame, Zenon DEF Scanning
  <1>1. CASE exec[x].todo = {} /\ Goto(x, "rows") /\ UNCHANGED exec
    <2>1. pc'[x] = "rows" /\ "rows" \in OnRows \ {"own", "write"} /\ "rows" \notin OnSlot
      BY <1>1, Zenon DEF TypeInv, TypeOK, OnRows, OnSlot, Scanning, Replacing
    <2>2. Loads(x, exec[x].cur)'
      BY <2>1, Zenon DEF Loads
    <2>3. exec' = [exec EXCEPT ![x] = exec[x]]
      BY <1>1, ExecSame, Zenon
    <2> QED
      BY <1>0, <1>1, <2>1, <2>2, <2>3, LoadStep, Zenon
  <1>2. CASE Goto(x, "vis_txn")
    <2>1. PICK t \in exec[x].todo :
            exec' = [exec EXCEPT
              ![x].cur = IF exec[x].scan = "seq" THEN t ELSE head[t],
              ![x].todo = @ \ {t}, ![x].hops = 1]
      BY <1>2, Zenon DEF TypeInv, TypeOK
    <2>2. PICK c \in Slot : c = IF exec[x].scan = "seq" THEN t ELSE head[t]
      <3>1. t \in Slot /\ exec[x].scan \in {"index", "seq"}
        BY <1>0, Zenon DEF Execs
      <3>2. exec[x].scan = "index" => t \in index
        BY Zenon DEF StatementOK, Scanning
      <3> QED
        BY <3>1, <3>2, Zenon DEF IInv, SlotOK
    <2> PICK T \in SUBSET exec[x].todo : T = exec[x].todo \ {t}
      BY Zenon
    <2>3. PICK e : e = [exec[x] EXCEPT !.cur = c, !.todo = T, !.hops = 1]
      BY Zenon
    <2>4. /\ e \in Execs /\ e.cur = c /\ e.todo = T
          /\ e.stmt = exec[x].stmt /\ e.scan = exec[x].scan /\ e.rows = exec[x].rows
      <3>0. exec[x].todo \in SUBSET Slot
        BY <1>0, Zenon DEF Execs
      <3> HIDE DEF NextTuple, Goto
      <3>1. T \in SUBSET Slot
        BY <3>0, Zenon
      <3>a. c \in 0 .. MaxSlot
        BY SizeAssumption
      <3>2. /\ e.cur = c /\ e.todo = T /\ e.hops = 1 /\ e.stmt = exec[x].stmt
            /\ e.scan = exec[x].scan /\ e.rows = exec[x].rows
        BY <1>0, <2>3, Zenon DEF Execs
      <3>3. e \in Execs
        BY <1>0, <2>3, <3>1, <3>a, Zenon DEF Execs
      <3> QED
        BY <3>2, <3>3, Zenon
    <2>5. exec' = [exec EXCEPT ![x] = e]
      BY <2>1, <2>2, <2>3, ZenonT(30)
    <2>6. pc'[x] = "vis_txn" /\ "vis_txn" \in OnRows \ {"own", "write"}
      BY <1>2, Zenon DEF TypeInv, TypeOK, OnRows, Scanning
    <2>7. Loads(x, exec[x].cur)'
      BY <2>6, Zenon DEF Loads
    <2> QED
      BY <1>0, <1>2, <2>4, <2>5, <2>6, <2>7, LoadStep, Zenon
  <1> QED
    BY <1>1, <1>2, Zenon

LEMMA LoadTxnIdKeeps ==
  ASSUME IInv, NEW x \in Txn, LoadTxnId(x)
  PROVE  Kept
  <1> USE DEF LoadTxnId, Goto
  <1> TypeInv /\ StatementOK(x) /\ exec[x] \in Execs
    BY ExecSame, Zenon DEF IInv, ReaderOK
  <1>1. PICK s \in Slot : s = exec[x].cur
    BY Zenon DEF StatementOK, OnSlot, Scanning
  <1>2. PICK v \in Txn \union {0, 1} : v = header[s].txn
    BY Fields, Zenon
  <1>3. PICK e : e = [exec[x] EXCEPT !.txn = v]
    BY Zenon
  <1>4. /\ e \in Execs /\ e.cur = s /\ e.todo = exec[x].todo /\ e.stmt = exec[x].stmt
        /\ e.scan = exec[x].scan /\ e.rows = exec[x].rows /\ e.txn = v
    BY <1>1, <1>3, Zenon DEF Execs
  <1>5. exec' = [exec EXCEPT ![x] = e]
    BY <1>1, <1>2, <1>3, Zenon
  <1>6. pc'[x] = "vis_begin" /\ "vis_begin" \in OnRows \ {"own", "write"} /\ exec'[x] = e
    BY <1>5, Zenon DEF TypeInv, TypeOK, OnRows, Scanning
  <1>7. header' = header
    BY Zenon DEF storeVars
  <1>8. Loads(x, s)'
    BY <1>2, <1>4, <1>6, <1>7, Zenon DEF Loads
  <1>9. Loads(x, exec[x].cur)'
    BY <1>4, <1>6, <1>8, Zenon
  <1>10. pc[x] \in Scanning
    BY Zenon DEF Scanning
  <1> QED
    BY <1>4, <1>5, <1>6, <1>9, <1>10, LoadStep, Zenon

LEMMA LoadBeginKeeps ==
  ASSUME IInv, NEW x \in Txn, LoadBegin(x)
  PROVE  Kept
  <1> USE DEF LoadBegin, Goto
  <1> TypeInv /\ StatementOK(x) /\ exec[x] \in Execs
    BY ExecSame, Zenon DEF IInv, ReaderOK
  <1>1. PICK s \in Slot : s = exec[x].cur
    BY Zenon DEF StatementOK, OnSlot, Scanning
  <1>2. PICK v \in 0 .. MAX_CID : v = header[s].begin
    BY Fields, CidAssumption
  <1>3. PICK e : e = [exec[x] EXCEPT !.cid = v]
    BY Zenon
  <1>4. /\ e \in Execs /\ e.cur = s /\ e.todo = exec[x].todo /\ e.stmt = exec[x].stmt
        /\ e.scan = exec[x].scan /\ e.rows = exec[x].rows /\ e.cid = v
        /\ e.txn = exec[x].txn
    BY <1>1, <1>3, Zenon DEF Execs
  <1>5. exec' = [exec EXCEPT ![x] = e]
    BY <1>1, <1>2, <1>3, Zenon
  <1>6. pc'[x] = "vis_end" /\ "vis_end" \in OnRows \ {"own", "write"} /\ exec'[x] = e
    BY <1>5, Zenon DEF TypeInv, TypeOK, OnRows, Scanning
  <1>7. header' = header /\ read_id' = read_id
    BY Zenon DEF storeVars, txnVars
  <1>8. Loads(x, s)'
    <2>1. Loads(x, s)
      BY <1>1, Zenon DEF IInv, ReaderOK
    <2> QED
      BY <1>2, <1>4, <1>6, <1>7, <2>1, Zenon DEF Loads
  <1>9. Loads(x, exec[x].cur)'
    BY <1>4, <1>6, <1>8, Zenon
  <1>10. pc[x] \in Scanning
    BY Zenon DEF Scanning
  <1> QED
    BY <1>4, <1>5, <1>6, <1>9, <1>10, LoadStep, Zenon

LEMMA LoadEndKeeps ==
  ASSUME IInv, TimestampedWriters, NEW x \in Txn, LoadEnd(x)
  PROVE  Kept
  <1> USE DEF Goto
  <1> TypeInv /\ StatementOK(x) /\ exec[x] \in Execs /\ pc[x] = "vis_end"
    BY ExecSame, Zenon DEF IInv, ReaderOK, LoadEnd
  <1>1. PICK s \in Slot : s = exec[x].cur
    BY Zenon DEF StatementOK, OnSlot, Scanning
  <1>2. PICK v : v = IsVisible(x, read_id[x], s, exec[x].txn, exec[x].cid, header[s].end)
    BY Zenon
  <1>3. PICK L \in {"read", "wire_txn", "next"} :
          pc' = [pc EXCEPT ![x] = L] /\ (L = "read" => v = "OK")
    BY <1>1, <1>2, Zenon DEF LoadEnd
  <1>4. /\ header' = header /\ read_id' = read_id /\ exec' = exec
        /\ UNCHANGED <<storeVars, txnVars, historyVars>>
    BY Zenon DEF storeVars, txnVars, LoadEnd
  <1>5. pc'[x] = L /\ L \in OnRows \ {"own", "write"} /\ pc[x] \in Scanning
    BY <1>3, Zenon DEF TypeInv, TypeOK, OnRows, Scanning
  <1>6. ASSUME v = "OK"
        PROVE  IF header[s].txn = x
               THEN header[s].begin = MAX_CID /\ header[s].end # INVALID_CID
               ELSE /\ header[s].begin <= read_id[x]
                    /\ \/ TimestampsReads(x)
                       \/ header[s].txn # INVALID_TXN_ID /\ read_id[x] < header[s].end
    <2>1. /\ exec[x].txn = x <=> header[s].txn = x
          /\ \/ TimestampsReads(x) \/ exec[x].txn = INVALID_TXN_ID
             \/ header[s].begin > read_id[x] \/ header[s].txn # INVALID_TXN_ID
          /\ exec[x].cid = header[s].begin \/ (exec[x].cid = MAX_CID /\ exec[x].txn # x)
      BY <1>1, Zenon DEF IInv, ReaderOK, Loads
    <2>2. rw_set[x][s] # "READ_OWN"
      BY Zenon DEF IInv, WriterOK
    <2>3. /\ read_id[x] \in Int /\ header[s].begin \in Int /\ header[s].end \in Int
          /\ x \in Int /\ 2 < x /\ x < MAX_CID /\ MAX_CID \in Int /\ read_id[x] < MAX_CID
      BY Fields, ReadIds, TxnIds, ZenonT(30) DEF IInv, ReaderOK, ReadIdOK
    <2>4. exec[x].txn # 0
      BY <1>2, <1>6, <2>3 DEF IsVisible
    <2>5. CASE exec[x].txn = x
      BY <1>2, <1>6, <2>1, <2>2, <2>3, <2>5, Zenon DEF IsVisible
    <2>6. CASE exec[x].txn # x
      <3>1. read_id[x] >= exec[x].cid /\ ~ (read_id[x] >= header[s].end)
        BY <1>2, <1>6, <2>4, <2>6, Zenon DEF IsVisible
      <3>2. exec[x].cid = header[s].begin
        BY <2>1, <2>3, <3>1, SMTT(30)
      <3> QED
        BY <2>1, <2>3, <2>4, <2>6, <3>1, <3>2
    <2> QED
      BY <2>5, <2>6, Zenon
  <1>7. Loads(x, exec[x].cur)'
    BY <1>1, <1>3, <1>4, <1>5, <1>6, ZenonT(30) DEF Loads
  <1>8. exec' = [exec EXCEPT ![x] = exec[x]]
    BY <1>4, ExecSame, Zenon
  <1>9. exec[x].cur \in Slot
    BY <1>1, Zenon
  <1> QED
    BY <1>3, <1>4, <1>5, <1>7, <1>8, <1>9, LoadStep, ZenonT(30)

LEMMA WireTxnIdKeeps ==
  ASSUME IInv, NEW x \in Txn, WireTxnId(x)
  PROVE  Kept
  <1> USE DEF Goto
  <1> TypeInv /\ StatementOK(x) /\ exec[x] \in Execs /\ pc[x] = "wire_txn"
    BY ExecSame, Zenon DEF IInv, ReaderOK, WireTxnId
  <1>1. PICK s \in Slot : s = exec[x].cur
    BY Zenon DEF StatementOK, OnSlot, Scanning
  <1>2. PICK L \in {"wire_end", "follow"} :
          pc' = [pc EXCEPT ![x] = L] /\ (L = "wire_end" => header[s].txn = 1)
    BY <1>1, Zenon DEF WireTxnId
  <1>3. /\ header' = header /\ index' = index /\ exec' = exec
        /\ UNCHANGED <<storeVars, txnVars, historyVars>>
    BY Zenon DEF storeVars, txnVars, WireTxnId
  <1>4. pc'[x] = L /\ L \in OnRows \ {"own", "write"} /\ pc[x] \in Scanning
    BY <1>2, Zenon DEF TypeInv, TypeOK, OnRows, Scanning
  <1>5. header[s].txn = 1 => header[s].entry \in index
    BY EmptyFields, Zenon DEF IInv, SlotOK
  <1>6. Loads(x, exec[x].cur)'
    BY <1>1, <1>2, <1>3, <1>4, <1>5, ZenonT(30) DEF Loads
  <1>7. exec' = [exec EXCEPT ![x] = exec[x]] /\ exec[x].cur \in Slot
    BY <1>1, <1>3, ExecSame, Zenon
  <1> QED
    BY <1>2, <1>3, <1>4, <1>6, <1>7, LoadStep, ZenonT(30)

\* A scan moves to another version of the list.
LEMMA MoveStep ==
  ASSUME IInv, NEW x \in Txn, pc[x] \in Scanning, NEW c \in Slot, NEW h \in {1, 2},
         exec' = [exec EXCEPT ![x].cur = c, ![x].hops = h],
         pc' = [pc EXCEPT ![x] = "vis_txn"],
         UNCHANGED <<storeVars, txnVars, historyVars>>
  PROVE  Kept
  <1> TypeInv /\ exec[x] \in Execs
    BY ExecSame, Zenon DEF IInv
  <1>1. PICK e : e = [exec[x] EXCEPT !.cur = c, !.hops = h]
    BY Zenon
  <1>2. c \in 0 .. MaxSlot
    BY SizeAssumption
  <1>3. /\ e \in Execs /\ e.cur = c /\ e.todo = exec[x].todo /\ e.stmt = exec[x].stmt
        /\ e.scan = exec[x].scan /\ e.rows = exec[x].rows
    BY <1>1, <1>2, Zenon DEF Execs
  <1>4. exec' = [exec EXCEPT ![x] = e]
    BY <1>1, Zenon
  <1>5. pc'[x] = "vis_txn" /\ "vis_txn" \in OnRows \ {"own", "write"}
    BY Zenon DEF TypeInv, TypeOK, OnRows, Scanning
  <1>6. Loads(x, exec[x].cur)'
    BY <1>5, ZenonT(30) DEF Loads
  <1> QED
    BY <1>3, <1>4, <1>5, <1>6, LoadStep, Zenon

LEMMA WireBackKeeps ==
  ASSUME IInv, NEW x \in Txn, WireBack(x)
  PROVE  Kept
  <1> USE DEF Goto
  <1> TypeInv /\ StatementOK(x) /\ exec[x] \in Execs
    BY ExecSame, Zenon DEF IInv, ReaderOK
  <1>0. /\ pc[x] = "wire_end" /\ UNCHANGED <<storeVars, txnVars, historyVars>>
        /\ pc[x] \in Scanning
    BY Zenon DEF WireBack, Scanning
  <1>1. PICK s \in Slot : s = exec[x].cur
    BY <1>0, Zenon DEF StatementOK, OnSlot, Scanning
  <1>2. header[s].entry \in index
    BY <1>0, <1>1, ZenonT(30) DEF IInv, ReaderOK, Loads
  <1>3. CASE header[s].end <= read_id[x]
    <2>1. PICK c \in Slot : c = head[header[s].entry]
      BY <1>2, Zenon DEF IInv, SlotOK, TypeInv, TypeOK
    <2>2. exec' = [exec EXCEPT ![x].cur = c, ![x].hops = 1] /\ 1 \in {1, 2}
          /\ pc' = [pc EXCEPT ![x] = "vis_txn"]
      BY <1>1, <1>3, <2>1, ZenonT(30) DEF WireBack
    <2> QED
      BY <1>0, <2>2, MoveStep, Zenon
  <1>4. CASE ~ (header[s].end <= read_id[x])
    <2>1. pc' = [pc EXCEPT ![x] = "follow"] /\ exec' = exec
      BY <1>1, <1>4, Zenon DEF WireBack
    <2>2. pc'[x] = "follow" /\ "follow" \in OnRows \ {"own", "write"}
      BY <2>1, Zenon DEF TypeInv, TypeOK, OnRows, Scanning
    <2>3. Loads(x, exec[x].cur)'
      BY <2>2, ZenonT(30) DEF Loads
    <2>4. exec' = [exec EXCEPT ![x] = exec[x]] /\ exec[x].cur \in Slot
      BY <1>1, <2>1, ExecSame, Zenon
    <2> QED
      BY <1>0, <2>1, <2>2, <2>3, <2>4, LoadStep, Zenon
  <1> QED
    BY <1>3, <1>4, Zenon

\* An executor gives up, or comes to its end, with nothing in its hands.
LEMMA ReadyStep ==
  ASSUME IInv, NEW x \in Txn, pc[x] \in OnRows \ {"write"},
         pc' = [pc EXCEPT ![x] = "ready"],
         UNCHANGED <<storeVars, exec, read_id, rw_set, gc_set, historyVars>>,
         result' \in [Txn -> {"SUCCESS", "FAILURE", "ABORTED"}]
  PROVE  Kept
  <1> TypeInv
    BY Zenon DEF IInv
  <1>0. pc'[x] = "ready" /\ UNCHANGED <<storeVars, read_id, rw_set, gc_set, returned>>
    BY Zenon DEF historyVars, TypeInv, TypeOK
  <1>1. TypeInv'
    BY Zenon DEF TypeInv, TypeOK, Locations, storeVars, historyVars
  <1>2. ControlStep(x)
    BY <1>0, Zenon DEF ControlStep, TypeInv, TypeOK, OnRows, Scanning, Committing, historyVars
  <1>3. pc[x] \in Running \ {"idle"} /\ pc'[x] \in Running
    BY <1>0, Zenon DEF OnRows, Scanning, Running, Finishing, Committing, Locations
  <1>4. StatementOK(x)' /\ Loads(x, exec[x].cur)' /\ pc'[x] \notin OnRows
    BY <1>0, ZenonT(30) DEF StatementOK, Loads, OnRows, OnSlot, Scanning, Replacing
  <1> QED
    BY <1>0, <1>1, <1>2, <1>3, <1>4, ScanStep, ZenonT(30)

LEMMA FollowNextKeeps ==
  ASSUME IInv, NEW x \in Txn, FollowNext(x)
  PROVE  Kept
  <1> USE DEF Goto
  <1> TypeInv /\ StatementOK(x) /\ exec[x] \in Execs
    BY ExecSame, Zenon DEF IInv, ReaderOK
  <1>0. /\ pc[x] = "follow" /\ UNCHANGED <<storeVars, read_id, rw_set, gc_set, returned>>
        /\ pc[x] \in Scanning /\ pc[x] \in OnRows \ {"write"}
    BY Zenon DEF FollowNext, Scanning, OnRows
  <1>1. PICK s \in Slot : s = exec[x].cur
    BY <1>0, Zenon DEF StatementOK, OnSlot, Scanning
  <1>2. CASE header[s].next # 0
    <2>1. PICK c \in Slot : c = header[s].next
      BY <1>2, Fields, SizeAssumption
    <2>2. /\ exec' = [exec EXCEPT ![x].cur = c, ![x].hops = 2] /\ 2 \in {1, 2}
          /\ pc' = [pc EXCEPT ![x] = "vis_txn"] /\ UNCHANGED <<txnVars, historyVars>>
      BY <1>0, <1>1, <1>2, <2>1, Zenon DEF FollowNext, txnVars, historyVars
    <2> QED
      BY <1>0, <2>2, MoveStep, Zenon
  <1>3. CASE header[s].next = 0 /\ pc' = [pc EXCEPT ![x] = "next"] /\ exec' = exec
    <2>1. /\ absent' = [absent EXCEPT ![x] = @ \union {s}] /\ result' = result
      BY <1>1, <1>3, <1>0, Zenon DEF FollowNext, Fail, TypeInv, TypeOK
    <2>2. pc'[x] = "next"
      BY <1>3, Zenon DEF TypeInv, TypeOK
    <2>3. TypeInv'
      BY <1>0, <1>3, <2>1 DEF TypeInv, TypeOK, Locations, storeVars
    <2>4. ControlStep(x)
      BY <1>0, <1>3, <2>2, Zenon DEF ControlStep, TypeInv, TypeOK, Committing
    <2>5. pc[x] \in Running \ {"idle"} /\ pc'[x] \in Running
      BY <1>0, <2>2, Zenon DEF Running, Finishing, Committing, Locations
    <2>6. StatementOK(x)' /\ Loads(x, exec[x].cur)'
      BY <1>0, <1>3, <2>2, ZenonT(30)
      DEF StatementOK, Loads, OnRows, OnSlot, Scanning, Replacing, storeVars
    <2> QED
      BY <1>0, <1>3, <2>3, <2>4, <2>5, <2>6, ScanStep, Zenon
  <1>4. CASE header[s].next = 0 /\ Fail(x)
    <2>1. UNCHANGED <<storeVars, exec, read_id, rw_set, gc_set, historyVars>>
      BY <1>0, <1>1, <1>4, Zenon DEF FollowNext, Fail, historyVars, TypeInv, TypeOK
    <2>2. result' \in [Txn -> {"SUCCESS", "FAILURE", "ABORTED"}]
      BY <1>4, Zenon DEF Fail, SetResult, TypeInv, TypeOK
    <2> QED
      BY <1>0, <1>4, <2>1, <2>2, ReadyStep, Zenon DEF Fail
  <1> QED
    BY <1>1, <1>2, <1>3, <1>4, Zenon DEF FollowNext

LEMMA EndStatementKeeps ==
  ASSUME IInv, NEW x \in Txn, EndStatement(x)
  PROVE  Kept
  <1>1. pc[x] \in OnRows \ {"write"}
    BY Zenon DEF EndStatement, OnRows
  <1>2. result' \in [Txn -> {"SUCCESS", "FAILURE", "ABORTED"}]
    BY ZenonT(30) DEF EndStatement, txnVars, IInv, TypeInv, TypeOK
  <1>3. /\ pc' = [pc EXCEPT ![x] = "ready"]
        /\ UNCHANGED <<storeVars, exec, read_id, rw_set, gc_set, historyVars>>
    BY Zenon DEF EndStatement, txnVars, Goto
  <1> QED
    BY <1>1, <1>2, <1>3, ReadyStep, Zenon

\* A scan returns the version s: it has set the last reader of s, unless it
\* reads a snapshot or its own version.
LEMMA RowReturned ==
  ASSUME IInv, NEW x \in Txn, pc[x] = "read", NEW s \in Slot, s = exec[x].cur,
         \/ header' = header
         \/ IsFree(s) /\ SetLastReader(x, s),
         UNCHANGED <<next_slot, index, head, read_id, gc_set>>,
         \/ rw_set' = rw_set
         \/ Record(x, s, RecordRead) /\ header[s].begin # MAX_CID,
         ReturnRow(x), header[s].txn = x \/ Seen(x, s)',
         TimestampsReads(x) => Row(x, s)'
  PROVE  Kept
  <1> USE DEF ReturnRow, Goto
  <1> TypeInv /\ exec[x] \in Execs /\ StatementOK(x) /\ ReaderOK(x)
    BY ExecSame, Zenon DEF IInv, ReaderOK
  <1>1. /\ header' \in [Slot -> Headers] /\ OthersSame(s) /\ LinksKept(s)
        /\ header'[s].txn = header[s].txn /\ header'[s].reader >= header[s].reader
        /\ header'[s].begin = header[s].begin /\ header'[s].end = header[s].end
        /\ header'[s].prev = header[s].prev
        /\ header'[s] = header[s] \/ header[s].txn = 1
    <2>1. CASE header' = header
      BY <2>1, Fields DEF TypeInv, TypeOK, OthersSame, LinksKept
    <2>2. CASE IsFree(s) /\ SetLastReader(x, s)
      <3>1. PICK r \in 0 .. MAX_CID : /\ r >= header[s].reader
                                      /\ r = IF header[s].reader < x THEN x ELSE header[s].reader
        BY Fields, TxnIds
      <3>2. header' = [header EXCEPT ![s].reader = r]
        BY <2>2, <3>1, ZenonT(30) DEF SetLastReader, TypeInv, TypeOK
      <3> QED
        <4>1. /\ header' \in [Slot -> Headers] /\ OthersSame(s) /\ LinksKept(s)
              /\ header'[s].txn = header[s].txn /\ header'[s].reader = r
              /\ header'[s].begin = header[s].begin /\ header'[s].end = header[s].end
              /\ header'[s].prev = header[s].prev
          BY <3>2, SetReader, Zenon
        <4> QED
          BY <2>2, <3>1, <4>1, ZenonT(30) DEF IsFree
    <2> QED
      BY <2>1, <2>2, ZenonT(30)
  <1>2. /\ rw_set' \in [Txn -> [Slot -> RWType]]
        /\ \A y \in Txn \ {x} : rw_set'[y] = rw_set[y]
        /\ \A t \in Slot : \/ rw_set'[x][t] = rw_set[x][t]
                           \/ /\ rw_set[x][t] = "NONE" /\ rw_set'[x][t] = "READ" /\ t = s
                              /\ header[s].begin # MAX_CID
    <2>1. CASE rw_set' = rw_set
      BY <2>1, Zenon DEF TypeInv, TypeOK
    <2>2. CASE Record(x, s, RecordRead) /\ header[s].begin # MAX_CID
      <3>1. PICK v \in RWType : v = RecordRead(rw_set[x][s])
        BY Zenon DEF TypeInv, TypeOK, RecordRead, RWType
      <3>2. rw_set' = [rw_set EXCEPT ![x][s] = v]
        BY <2>2, <3>1, ZenonT(30) DEF Record
      <3>3. v = rw_set[x][s] \/ (rw_set[x][s] = "NONE" /\ v = "READ")
        BY <3>1, Zenon DEF RecordRead
      <3> QED
        BY <2>2, <3>2, <3>3, ZenonT(30) DEF TypeInv, TypeOK
    <2> QED
      BY <2>1, <2>2, ZenonT(30)
  <1>3. /\ exec' \in [Txn -> Execs] /\ exec'[x].rows = exec[x].rows \union {s}
        /\ exec'[x].stmt = exec[x].stmt /\ exec'[x].scan = exec[x].scan
        /\ exec'[x].todo = exec[x].todo /\ exec'[x].mine = exec[x].mine
        /\ \A y \in Txn \ {x} : exec'[y] = exec[y]
    <2>1. PICK R \in SUBSET Slot : R = exec[x].rows \union {s}
      BY Zenon DEF Execs
    <2>2. exec' = [exec EXCEPT ![x].rows = R]
      BY <2>1, Zenon
    <2> QED
      BY <2>1, <2>2 DEF TypeInv, Execs
  <1>4. /\ returned' \in [Txn -> SUBSET Slot]
        /\ \A y \in Txn \ {x} : returned'[y] = returned[y]
        /\ \A t \in returned'[x] : t \in returned[x] \/ (t = s /\ header[s].txn # x)
    BY DEF TypeInv, TypeOK, IsOwner
  <1>5. pc'[x] = "next" /\ \A y \in Txn \ {x} : pc'[y] = pc[y]
    BY Zenon DEF TypeInv, TypeOK
  <1>6. TypeInv'
    BY <1>1, <1>2, <1>3, <1>4, Zenon DEF TypeInv, TypeOK, Locations
  <1>7. ControlStep(x)
    BY <1>2, <1>3, <1>4, <1>5, Zenon DEF ControlStep, Committing
  <1>8. StoreStep(x)
    <2>1. \A t \in Slot : header'[t] = header[t] \/ FreeStep(x, t)
      BY <1>1, ZenonT(30) DEF OthersSame, FreeStep
    <2>2. \A e \in index : head[e] \in Slot
      BY ZenonT(30) DEF IInv, SlotOK, TypeInv, TypeOK
    <2> QED
      BY <2>1, <2>2 DEF StoreStep, TypeInv, TypeOK
  <1>9. Step(x)
    BY <1>7, <1>8, Zenon DEF Step
  <1>10. WriterOK(x)'
    <2>1. pc[x] \in Running /\ pc'[x] \in Running
      BY <1>5 DEF Running, Finishing, Committing, Locations
    <2>2. \A t \in Slot : /\ header[t].txn = x => header'[t] = header[t]
                          /\ header'[t].txn = x => header[t].txn = x
                          /\ header'[t].begin = header[t].begin
      BY <1>1, TxnIds DEF OthersSame
    <2> QED
      <3>1. \A t \in Slot : \/ rw_set'[x][t] = rw_set[x][t]
                             \/ /\ rw_set[x][t] = "NONE" /\ rw_set'[x][t] = "READ"
                                /\ header'[t].begin # MAX_CID
        BY <1>2, <2>2
      <3> QED
        BY <2>1, <2>2, <3>1, WriterStays, Zenon
  <1>11. ReaderOK(x)'
    <2>1. StatementOK(x)' /\ Loads(x, exec[x].cur)'
      BY <1>3, <1>5, ZenonT(30) DEF StatementOK, Loads, OnSlot, OnRows, Scanning, Replacing
    <2>2. ReadIdOK(x)'
      <3>1. ReadIdOK(x) /\ \A y \in Txn : pc[y] = "ended" => pc'[y] = "ended"
        BY <1>5, Zenon DEF ReaderOK
      <3> QED
        BY <1>5, <3>1 DEF ReadIdOK
    <2>3. ASSUME TimestampsReads(x), NEW r \in exec'[x].rows
          PROVE  Row(x, r)'
      <3>1. CASE r = s
        BY <2>3, <3>1, Zenon
      <3>2. CASE r # s
        <4>1. r \in exec[x].rows /\ r \in Slot /\ pc[x] \in OnRows
          BY <1>3, <2>3, <3>2, Zenon DEF Execs, OnRows, Scanning
        <4> QED
          BY <1>1, <2>3, <3>2, <4>1, Zenon DEF ReaderOK, Row, OthersSame
      <3> QED
        BY <3>1, <3>2
    <2>4. ASSUME NEW t \in returned'[x]
          PROVE  Seen(x, t)'
      <3>1. CASE t = s /\ header[s].txn # x
        BY <3>1
      <3>2. CASE t \in returned[x]
        <4>1. t \in Slot /\ Seen(x, t) /\ pc[x] # "idle" /\ read_id'[x] = read_id[x]
          BY <3>2 DEF ReaderOK, TypeInv, TypeOK
        <4> QED
          BY <1>6, <1>9, <4>1, SeenKept
      <3> QED
        BY <1>4, <3>1, <3>2
    <2> QED
      BY <2>1, <2>2, <2>3, <2>4, Zenon DEF ReaderOK
  <1>12. \A t \in Slot : header'[t] = header[t] \/ SlotOK(t)'
    <2>1. ASSUME header'[s] # header[s]
          PROVE  SlotOK(s)'
      <3>1. header[s].txn = 1 /\ header[s] # EmptyHeader /\ SlotOK(s)
        <4>1. SlotOK(s) /\ (header[s] = EmptyHeader => header[s].txn = 0)
          BY EmptyFields, Zenon DEF IInv
        <4>2. header[s].txn = 1
          BY <1>1, <2>1, Zenon
        <4> QED
          BY ONLY <4>1, <4>2
      <3>2. header[s].txn = INITIAL_TXN_ID =>
              /\ header[s].begin # MAX_CID /\ header[s].end # INVALID_CID
              /\ header[s].end = MAX_CID =>
                   header[s].prev = NULL /\ head[header[s].entry] = s
        BY <3>1, ZenonT(30) DEF SlotOK
      <3> QED
        BY <1>1, <1>6, <1>9, <3>1, <3>2, SlotChanges, TxnIds
    <2> QED
      BY <1>1, <2>1, Zenon DEF OthersSame
  <1>13. (\A t, u \in Slot : ListOK(t, u))'
    <2>1. \A t \in Slot : /\ header'[t].begin = header[t].begin
                          /\ header'[t].prev = header[t].prev
      BY <1>1, ZenonT(30) DEF OthersSame
    <2> QED
      BY <1>9, <2>1, ListSame, Zenon
  <1>14. \A y \in Txn : GarbageOK(y)'
    BY <1>9, NoGarbage, Zenon
  <1> QED
    BY <1>6, <1>9, <1>10, <1>11, <1>12, <1>13, <1>14, StepKeeps, Zenon

LEMMA PerformReadKeeps ==
  ASSUME IInv, TimestampedWriters, NEW x \in Txn, PerformRead(x)
  PROVE  Kept
  <1> TypeInv /\ exec[x] \in Execs /\ StatementOK(x) /\ ReaderOK(x)
    BY ExecSame, Zenon DEF IInv, ReaderOK
  <1>0. pc[x] = "read" /\ UNCHANGED <<next_slot, index, head, read_id, gc_set>>
    BY ZenonT(30) DEF PerformRead
  <1>1. PICK s \in Slot : s = exec[x].cur
    BY <1>0, Zenon DEF StatementOK, OnSlot, Scanning
  <1>2. /\ header[s].begin \in Int /\ header[s].reader \in Int /\ x \in Int /\ 2 < x
        /\ x < MAX_CID /\ MAX_CID \in Int /\ read_id[x] \in Int /\ read_id[x] < MAX_CID
    BY <1>0, Fields, TxnIds, ReadIds, ZenonT(30) DEF ReaderOK, ReadIdOK
  <1>3. IF header[s].txn = x
        THEN header[s].begin = MAX_CID /\ header[s].end # INVALID_CID
        ELSE /\ header[s].begin <= read_id[x]
             /\ \/ TimestampsReads(x)
                \/ header[s].txn # INVALID_TXN_ID /\ read_id[x] < header[s].end
    BY <1>0, <1>1, Zenon DEF ReaderOK, Loads
  <1>4. CASE ~ TimestampsReads(x)
    <2>1. header[s].txn # x /\ IsolationOf[x] \in {"SNAPSHOT", "READ_ONLY"}
      BY <1>4, SnapshotOwnsNothing, Zenon DEF TimestampedWriters
    <2>2. /\ header' = header /\ ReturnRow(x)
          /\ rw_set' = rw_set \/ Record(x, s, RecordRead)
      BY <1>1, <1>4, <2>1, ZenonT(30) DEF PerformRead, IsOwner, IsReadOnly
    <2>3. Seen(x, s)' /\ header[s].begin # MAX_CID
      BY <1>0, <1>2, <1>3, <1>4, <2>1, <2>2, SMTT(30) DEF Seen
    <2> QED
      BY <1>0, <1>1, <1>4, <2>2, <2>3, RowReturned, Zenon
  <1>5. CASE TimestampsReads(x) /\ header[s].txn = x
    <2>1. header' = header /\ ReturnRow(x) /\ rw_set' = rw_set
      BY <1>1, <1>5, ZenonT(30) DEF PerformRead, IsOwner, IsReadOnly, TimestampsReads
    <2>2. Row(x, s)'
      BY <1>3, <1>5, <2>1, Zenon DEF Row
    <2> QED
      BY <1>0, <1>1, <1>5, <2>1, <2>2, RowReturned, ZenonT(30)
  <1>6. CASE TimestampsReads(x) /\ header[s].txn # x /\ IsFree(s)
    <2>1. SetLastReader(x, s) /\ ReturnRow(x) /\ Record(x, s, RecordRead)
      BY <1>1, <1>6, Zenon DEF PerformRead, IsOwner, IsReadOnly, TimestampsReads
    <2>2. read_id[x] = x /\ read_id'[x] = x
      BY <1>0, <1>6, ZenonT(30) DEF ReaderOK, ReadIdOK
    <2>3. header[s].begin # MAX_CID /\ header[s].begin <= x
      BY <1>2, <1>3, <1>6, <2>2, SMTT(30)
    <2>4. header[s].begin # x
      BY <1>0, <1>2 DEF IInv, SlotOK, Committing
    <2>5. /\ header'[s].begin = header[s].begin /\ header'[s].txn = header[s].txn
          /\ header'[s].reader >= x
      BY <1>2, <2>1 DEF SetLastReader, TypeInv, TypeOK, Headers
    <2>6. Row(x, s)' /\ Seen(x, s)'
      BY <1>2, <1>6, <2>2, <2>3, <2>4, <2>5 DEF Row, Seen, IsFree
    <2> QED
      BY <1>0, <1>1, <1>6, <2>1, <2>3, <2>6, RowReturned, Zenon
  <1>7. CASE TimestampsReads(x) /\ header[s].txn # x /\ ~ IsFree(s)
    <2>1. FailRead(x)
      BY <1>1, <1>7, ZenonT(30) DEF PerformRead, IsOwner, IsReadOnly, TimestampsReads
    <2>2. /\ pc' = [pc EXCEPT ![x] = "ready"] /\ pc[x] \in OnRows \ {"write"}
          /\ UNCHANGED <<storeVars, exec, read_id, rw_set, gc_set, historyVars>>
      BY <1>0, <2>1 DEF FailRead, Fail, Goto, storeVars, OnRows, Scanning
    <2>3. result' \in [Txn -> {"SUCCESS", "FAILURE", "ABORTED"}]
      BY <2>1, Zenon DEF FailRead, Fail, SetResult, TypeInv, TypeOK
    <2> QED
      BY <2>2, <2>3, ReadyStep, ZenonT(30)
  <1> QED
    BY <1>4, <1>5, <1>6, <1>7, Zenon
-----------------------------------------------------------------------------
(* Updates and deletes.                                                    *)

\* The slot for which x owns the new version s: itself if x inserted it, the
\* version it replaces otherwise.
LEMMA OwnVersion ==
  ASSUME IInv, NEW x \in Txn, pc[x] \in Running, NEW s \in Slot, header[s].txn = x,
         header[s].begin = MAX_CID
  PROVE  /\ TimestampsReads(x) /\ header[s] # EmptyHeader
         /\ header[s].next = NULL =>
              Pending(x, s) /\ ~ Writes(x, s) /\ Inserted(x, s)
         /\ header[s].next # NULL =>
              /\ header[s].next \in Slot \ {s} /\ ~ Pending(x, s)
              /\ Pending(x, header[s].next) /\ Writes(x, header[s].next)
              /\ Replaced(x, header[s].next) /\ header[header[s].next].prev = s
  <1>1. TimestampsReads(x) /\ header[s] # EmptyHeader
    BY SnapshotOwnsNothing, EmptyFields, TxnIds
  <1>2. \A t \in Slot, L \in SUBSET (Finishing \union {"write"}) : ~ At(x, t, L)
    BY Zenon DEF At, Running
  <1>3. \A t \in Slot : ~ Busy(x, t)
    BY <1>2, Zenon DEF Busy, Finishing, Committing, Replacing
  <1>4. Accounted(x, s) /\ ~ At(x, s, {"write"})
    BY <1>2, Zenon DEF IInv, WriterOK
  <1>5. CASE Pending(x, s)
    <2>1. ~ Writes(x, s) /\ Inserted(x, s) /\ header[s].next = NULL
      BY <1>3, <1>5, Waiting, Zenon
    <2> QED
      BY <1>1, <1>5, <2>1, Zenon
  <1>6. CASE ~ Pending(x, s)
    <2>1. PICK o \in Slot : /\ o = header[s].next /\ Pending(x, o) /\ Writes(x, o)
                            /\ header[o].prev = s
      BY <1>4, <1>6, Zenon DEF Accounted
    <2>2. Replaced(x, o) /\ o # s /\ o # 0
      BY <1>3, <1>6, <2>1, Waiting
    <2> QED
      BY <1>1, <1>6, <2>1, <2>2, Zenon
  <1> QED
    BY <1>5, <1>6, ZenonT(30)

\* A delete of a version of x's own: it will be a tombstone, or is undone.
LEMMA DeleteInPlace ==
  ASSUME IInv, NEW x \in Txn, pc[x] = "rows", NEW s \in exec[x].rows,
         header[s].txn = x, exec[x].stmt = "delete", WriteInPlace(x, s),
         exec' = [exec EXCEPT ![x].rows = @ \ {s}],
         UNCHANGED <<pc, result, next_slot, index, head, read_id, gc_set, historyVars>>
  PROVE  Kept
  <1> TypeInv /\ exec[x] \in Execs /\ WriterOK(x) /\ ReaderOK(x) /\ s \in Slot
    BY ExecSame DEF IInv, Execs
  <1>1. header[s].begin = MAX_CID /\ header[s].end # INVALID_CID
        /\ TimestampsReads(x) /\ pc[x] \in Running /\ pc'[x] = "rows"
    <2>1. TimestampsReads(x)
      BY DEF ReaderOK, StatementOK, OnRows
    <2>2. Row(x, s)
      BY <2>1, Zenon DEF ReaderOK, OnRows
    <2> QED
      BY <2>1, <2>2 DEF Row, Running, Locations, Finishing, Committing
  <1>2. PICK k : k = IF header[s].next = NULL THEN s ELSE header[s].next
    OBVIOUS
  <1>3. /\ k \in Slot /\ Pending(x, k) /\ header[s] # EmptyHeader
        /\ k = s => ~ Writes(x, s) /\ Inserted(x, s)
        /\ k # s => /\ header[s].next = k /\ ~ Pending(x, s) /\ Writes(x, k)
                    /\ Replaced(x, k) /\ header[k].prev = s
    BY <1>1, <1>2, OwnVersion
  <1>4. \A t \in Slot : ~ Busy(x, t) /\ ~ Busy(x, t)' /\ ~ At(x, t, {"write"})
                        /\ ~ At(x, t, {"write"})'
    BY DEF Busy, At, Replacing
  <1>5. \A L \in {{"c_release"}, {"a_release"}, {"c_end", "c_old", "c_new"},
                  {"c_old", "c_new", "a_unlink"}, {"c_new"}, {"a_unlink"},
                  {"c_insert"}} : ~ At(x, k, L) /\ ~ At(x, k, L)'
    BY DEF At
  <1>6. /\ header[s].end = MAX_CID
        /\ rw_set[x][k] = IF k = s THEN "INSERT" ELSE "UPDATE"
    <2>1. CASE k = s
      BY <1>1, <1>3, <2>1, Zenon DEF Inserted
    <2>2. CASE k # s
      BY <1>1, <1>3, <1>5, <2>2, Zenon DEF Replaced, Writes
    <2> QED
      BY <2>1, <2>2, Zenon
  <1>7. /\ header' = [header EXCEPT ![s].end = 0]
        /\ rw_set' = [rw_set EXCEPT ![x][k] = IF k = s THEN "INS_DEL" ELSE "DELETE"]
    BY <1>2, <1>3, <1>6 DEF WriteInPlace, Record, RecordDelete, TypeInv, TypeOK
  <1>8. /\ header' \in [Slot -> Headers] /\ OthersSame(s) /\ LinksKept(s)
        /\ header'[s].txn = x /\ header'[s].reader = header[s].reader
        /\ header'[s].begin = MAX_CID /\ header'[s].end = 0
        /\ header'[s].prev = header[s].prev
    <2>1. 0 \in 0 .. MAX_CID
      BY TxnIds
    <2> QED
      BY <1>1, <1>7, <2>1, SetEnd, Zenon
  <1>9. /\ \A y \in Txn \ {x} : rw_set'[y] = rw_set[y]
        /\ \A t \in Slot \ {k} : rw_set'[x][t] = rw_set[x][t]
        /\ rw_set'[x][k] = IF k = s THEN "INS_DEL" ELSE "DELETE"
        /\ rw_set' \in [Txn -> [Slot -> RWType]]
    BY <1>3, <1>7, Zenon DEF TypeInv, TypeOK, RWType
  <1>10. PICK e : e = [exec[x] EXCEPT !.rows = @ \ {s}]
    BY Zenon
  <1>11. /\ e \in Execs /\ e.rows = exec[x].rows \ {s} /\ e.cur = exec[x].cur
         /\ e.stmt = exec[x].stmt /\ e.scan = exec[x].scan /\ e.todo = exec[x].todo
    BY <1>10 DEF Execs
  <1>12. exec' = [exec EXCEPT ![x] = e] /\ exec'[x] = e
    BY <1>10, Zenon DEF TypeInv
  <1>13. TypeInv'
    BY <1>8, <1>9, <1>11, <1>12, ZenonT(30) DEF TypeInv, TypeOK, historyVars
  <1>14. ControlStep(x)
    BY <1>9, <1>12, Zenon DEF ControlStep, Committing, historyVars, TypeInv
  <1>15. OwnStep(x, s)
    BY <1>1, <1>6, <1>8, TxnIds DEF OwnStep
  <1>16. Step(x)
    BY <1>8, <1>14, <1>15 DEF Step, StoreStep, OthersSame, TypeInv, TypeOK, IInv, SlotOK
  <1>17. \A t \in Slot : Pending(x, t)' <=> Pending(x, t)
    BY <1>3, <1>9 DEF Pending, Finishing, Committing
  <1>18. Written(x, k)'
    <2>1. CASE k = s
      <3>1. Inserted(x, s)'
        BY <1>3, <1>5, <1>8, <1>9, <2>1, Zenon DEF Inserted, LinksKept
      <3> QED
        BY <1>9, <2>1, <3>1, Zenon DEF Written, Writes
    <2>2. CASE k # s
      <3>1. header'[k] = header[k] /\ k \in Slot
        BY <1>3, <1>8, <2>2, Zenon DEF OthersSame
      <3>2. Replaced(x, k)'
        BY <1>3, <1>5, <1>8, <1>9, <2>2, <3>1, ZenonT(30)
           DEF Replaced, Held, Linking, LinksKept
      <3> QED
        BY <1>5, <1>9, <2>2, <3>2, Zenon DEF Written, Writes
    <2> QED
      BY <2>1, <2>2, Zenon
  <1>19. \A t \in Slot \ {k} : Pending(x, t) => Written(x, t)'
    <2>1. header[k].begin # MAX_CID \/ header[k].next = NULL
      BY <1>2, <1>3, <1>4, Waiting
    <2>2. \A u \in Slot \ {k} : \/ header'[u] = header[u]
                                \/ header[u].next = k /\ header[u].begin \in {x, MAX_CID}
      BY <1>1, <1>3, <1>8 DEF OthersSame
    <2> QED
      BY <1>3, <1>4, <1>9, <2>1, <2>2, WaitersKept, Zenon
  <1>20. \A u \in Slot : header'[u].txn = x => Accounted(x, u)'
    <2> SUFFICES ASSUME NEW u \in Slot, header'[u].txn = x PROVE Accounted(x, u)'
      BY Zenon
    <2>1. /\ header[u].txn = x /\ header'[u].next = header[u].next
          /\ \A t \in Slot : header'[t].prev = header[t].prev
      BY <1>8 DEF OthersSame, LinksKept
    <2>2. Accounted(x, u)
      BY <2>1 DEF WriterOK
    <2>3. CASE u = k
      BY <1>3, <1>17, <2>3, Zenon DEF Accounted
    <2>4. CASE u # k /\ header[u].next # k
      BY <1>3, <1>4, <1>9, <1>17, <2>1, <2>2, <2>4, AccountedKept, Zenon
    <2>5. CASE u # k /\ header[u].next = k
      <3>1. Pending(x, k)'
        BY <1>3, <1>17, Zenon
      <3>2. CASE Pending(x, u)
        BY <1>17, <3>2, Zenon DEF Accounted
      <3>3. CASE ~ Pending(x, u)
        <4>1. header[k].prev = u /\ Writes(x, k) /\ k # s
          BY <1>3, <1>4, <2>2, <2>5, <3>3, Zenon DEF Accounted
        <4>2. Writes(x, k)' /\ ~ At(x, k, {"c_release", "a_release"})'
          BY <1>9, <4>1, Zenon DEF Writes, At
        <4> QED
          BY <1>3, <2>1, <2>5, <3>1, <4>1, <4>2, Zenon DEF Accounted
      <3> QED
        BY <3>2, <3>3, Zenon
    <2> QED
      BY <2>3, <2>4, <2>5, Zenon
  <1>21. \A t \in Slot : /\ rw_set'[x][t] # "READ_OWN"
                         /\ rw_set'[x][t] = "READ" => header'[t].begin # MAX_CID
                         /\ TimestampsReads(x) \/ rw_set'[x][t] \in {"NONE", "READ"}
    BY <1>1, <1>3, <1>8, <1>9, ZenonT(30) DEF WriterOK, OthersSame
  <1>22. WriterOK(x)'
    BY <1>1, <1>17, <1>18, <1>19, <1>20, <1>21, Zenon
       DEF WriterOK, Replacing, TimestampsReads
  <1>23. ReaderOK(x)'
    <2>1. StatementOK(x)'
      BY <1>1, <1>11, <1>12, Zenon
         DEF ReaderOK, StatementOK, OnRows, OnSlot, Scanning, Replacing, TimestampsReads
    <2>2. ReadIdOK(x)'
      BY <1>1, Zenon DEF ReaderOK, ReadIdOK, historyVars, TimestampsReads
    <2>3. Loads(x, exec[x].cur)'
      BY <1>1, Zenon DEF Loads
    <2>4. \A t \in exec'[x].rows : Row(x, t)'
      BY <1>1, <1>8, <1>11, <1>12 DEF ReaderOK, OnRows, Row, OthersSame, Execs
    <2>5. \A t \in returned[x] : Seen(x, t)'
      <3>1. \A t \in returned[x] : Seen(x, t) /\ t \in Slot
        BY Zenon DEF ReaderOK, TypeInv, TypeOK
      <3> QED
        BY <1>13, <1>16, <3>1, SeenKept, Zenon
    <2> QED
      BY <2>1, <2>2, <2>3, <2>4, <2>5, Zenon DEF ReaderOK, historyVars
  <1>24. SlotOK(s)'
    <2>1. /\ header'[s].begin = header[s].begin /\ header'[s].end = INVALID_CID
          /\ header'[s].txn # INITIAL_TXN_ID /\ header'[s].txn # INVALID_TXN_ID
      BY <1>1, <1>8, TxnIds
    <2> QED
      BY <1>3, <1>8, <1>13, <1>16, <2>1, SlotChanges, Zenon
  <1>25. (\A t, u \in Slot : ListOK(t, u))'
    BY <1>1, <1>8, <1>16, ListSame, Zenon DEF OthersSame
  <1>26. \A y \in Txn : GarbageOK(y)'
    BY <1>16, NoGarbage, Zenon
  <1>27. \A t \in Slot : header'[t] = header[t] \/ SlotOK(t)'
    BY <1>8, <1>24, Zenon DEF OthersSame
  <1> QED
    BY <1>13, <1>16, <1>22, <1>23, <1>25, <1>26, <1>27, StepKeeps, Zenon

\* A step of a write from one row to the next, or on to the ownership of one.
LEMMA RowStep ==
  ASSUME IInv, NEW x \in Txn, pc[x] = "rows", NEW s \in exec[x].rows,
         UNCHANGED <<storeVars, read_id, rw_set, gc_set, result, historyVars>>,
         NEW L \in {"rows", "own"}, pc' = [pc EXCEPT ![x] = L],
         NEW e \in Execs, exec' = [exec EXCEPT ![x] = e], e.rows = exec[x].rows \ {s},
         e.stmt = exec[x].stmt,
         L = "own" => /\ e.cur = s /\ ~ e.mine /\ exec[x].stmt # "select"
                      /\ TimestampsReads(x) /\ header[s].txn # x
                      /\ header[s].end = MAX_CID
  PROVE  Kept
  <1> TypeInv /\ exec[x] \in Execs /\ WriterOK(x) /\ ReaderOK(x) /\ s \in Slot
    BY ExecSame, Zenon DEF IInv, Execs
  <1>3. exec'[x] = e
    BY Zenon DEF TypeInv
  <1>4. pc'[x] = L /\ pc' \in [Txn -> Locations]
    BY Zenon DEF TypeInv, TypeOK, Locations
  <1>5. TypeInv'
    BY <1>3, <1>4, Zenon DEF TypeInv, TypeOK, storeVars, historyVars
  <1>6. ControlStep(x)
    BY <1>3, <1>4, ZenonT(30) DEF ControlStep, Committing, historyVars, TypeInv, TypeOK
  <1>7. StatementOK(x)'
    BY <1>3, <1>4, ZenonT(30)
       DEF ReaderOK, StatementOK, OnRows, OnSlot, Scanning, Replacing, TimestampsReads
  <1>8. Loads(x, exec[x].cur)'
    <2>1. CASE L = "rows"
      BY <1>4, <2>1, Zenon DEF Loads
    <2>2. CASE L = "own"
      <3>1. Row(x, s)
        BY <2>2, Zenon DEF ReaderOK, OnRows
      <3>2. Row(x, s)'
        BY <3>1, Zenon DEF Row, storeVars
      <3> QED
        BY <1>3, <1>4, <2>2, <3>2, Zenon DEF Loads, storeVars
    <2> QED
      BY <2>1, <2>2, ZenonT(30)
  <1>9. /\ pc[x] \in Running \ {"idle"} /\ pc'[x] \in Running /\ pc[x] \in OnRows
        /\ exec'[x].rows \subseteq exec[x].rows /\ UNCHANGED returned
    BY <1>3, <1>4, Zenon DEF Running, Locations, Finishing, Committing, OnRows, historyVars
  <1> QED
    BY <1>5, <1>6, <1>7, <1>8, <1>9, ScanStep, Zenon

LEMMA RowsStep ==
  ASSUME IInv, NEW x \in Txn, pc[x] = "rows", NEW s \in exec[x].rows,
         UNCHANGED <<storeVars, read_id, rw_set, gc_set, result, historyVars, pc>>,
         exec' = [exec EXCEPT ![x].rows = @ \ {s}]
  PROVE  Kept
  <1>1. TypeInv /\ exec[x] \in Execs
    BY ExecSame DEF IInv
  <1>2. PICK e : e = [exec[x] EXCEPT !.rows = @ \ {s}]
    BY Zenon
  <1>3. e \in Execs /\ e.rows = exec[x].rows \ {s} /\ e.stmt = exec[x].stmt
    BY <1>1, <1>2 DEF Execs
  <1>4. exec' = [exec EXCEPT ![x] = e] /\ pc' = [pc EXCEPT ![x] = "rows"]
    BY <1>1, <1>2 DEF TypeInv, TypeOK
  <1> QED
    BY <1>3, <1>4, RowStep, Zenon

LEMMA StartWriteKeeps ==
  ASSUME IInv, TimestampedWriters, NEW x \in Txn, StartWrite(x)
  PROVE  Kept
  <1> TypeInv /\ exec[x] \in Execs /\ WriterOK(x) /\ ReaderOK(x)
    BY ExecSame, Zenon DEF IInv
  <1>1. /\ pc[x] = "rows" /\ exec[x].stmt \in {"update", "delete"} /\ TimestampsReads(x)
        /\ UNCHANGED <<next_slot, index, head, read_id, gc_set, historyVars>>
        /\ IsolationOf[x] # "SNAPSHOT" /\ pc = [pc EXCEPT ![x] = "rows"]
    BY ZenonT(30) DEF StartWrite, ReaderOK, StatementOK, OnRows, TimestampsReads, TypeInv, TypeOK
  <1>2. PICK s \in exec[x].rows :
          \/ /\ header[s].txn = x /\ header[s].begin = MAX_CID /\ WriteInPlace(x, s)
             /\ exec' = [exec EXCEPT ![x].rows = @ \ {s}]
             /\ UNCHANGED <<pc, result>>
          \/ /\ ~ (header[s].txn = x /\ header[s].begin = MAX_CID)
             /\ header[s].txn = x \/ IsOwnable(s)
             /\ exec' = [exec EXCEPT ![x].rows = @ \ {s}, ![x].cur = s,
                                     ![x].mine = (header[s].txn = x)]
             /\ Goto(x, IF header[s].txn = x THEN "write" ELSE "own")
             /\ UNCHANGED <<header, result, rw_set>>
          \/ Fail(x) /\ UNCHANGED <<header, exec, rw_set>>
    BY <1>1, ZenonT(30) DEF StartWrite, LatestOf, IsOwner, IsWritten
  <1>3. s \in Slot /\ Row(x, s)
    BY <1>1, ZenonT(30) DEF ReaderOK, OnRows, Execs
  <1>4. CASE /\ header[s].txn = x /\ header[s].begin = MAX_CID /\ WriteInPlace(x, s)
             /\ exec' = [exec EXCEPT ![x].rows = @ \ {s}]
             /\ UNCHANGED <<pc, result>>
    <2>1. CASE exec[x].stmt = "delete"
      BY <1>1, <1>4, <2>1, DeleteInPlace, ZenonT(30)
    <2>2. CASE exec[x].stmt = "update"
      <3>1. header' = header
        BY <1>3, <1>4, <2>2, Zenon DEF WriteInPlace, TypeInv, TypeOK, Headers
      <3>2. CASE header[s].next = NULL
        <4>1. rw_set' = rw_set
          BY <1>4, <2>2, <3>2, Zenon DEF WriteInPlace
        <4> QED
          BY <1>1, <1>4, <3>1, <4>1, RowsStep, Zenon DEF storeVars
      <3>3. CASE header[s].next # NULL
        <4>1. PICK o \in Slot : o = header[s].next /\ Writes(x, o)
          BY <1>1, <1>3, <1>4, <3>3, OwnVersion, Zenon DEF Running, Locations, Finishing, Committing
        <4>2. rw_set' = [rw_set EXCEPT ![x][o] = RecordUpdate(@)]
          BY <1>4, <2>2, <3>3, <4>1, Zenon DEF WriteInPlace, Record
        <4>3. rw_set' = rw_set
          BY <4>1, <4>2, ZenonT(30) DEF RecordUpdate, Writes, TypeInv, TypeOK
        <4> QED
          BY <1>1, <1>4, <3>1, <4>3, RowsStep, Zenon DEF storeVars
      <3> QED
        BY <3>2, <3>3, Zenon
    <2> QED
      BY <1>1, <2>1, <2>2, Zenon
  <1>5. CASE /\ ~ (header[s].txn = x /\ header[s].begin = MAX_CID)
             /\ header[s].txn = x \/ IsOwnable(s)
             /\ exec' = [exec EXCEPT ![x].rows = @ \ {s}, ![x].cur = s,
                                     ![x].mine = (header[s].txn = x)]
             /\ Goto(x, IF header[s].txn = x THEN "write" ELSE "own")
             /\ UNCHANGED <<header, result, rw_set>>
    <2>1. header[s].txn # x /\ header[s].end = MAX_CID
      BY <1>3, <1>5, Zenon DEF Row, IsOwnable
    <2>2. PICK e : e = [exec[x] EXCEPT !.rows = @ \ {s}, !.cur = s, !.mine = FALSE]
      BY Zenon
    <2>3. exec' = [exec EXCEPT ![x] = e] /\ pc' = [pc EXCEPT ![x] = "own"]
      BY <1>5, <2>1, <2>2, Zenon DEF Goto
    <2>4. UNCHANGED <<storeVars, read_id, rw_set, gc_set, result, historyVars>>
      BY <1>1, <1>5, Zenon DEF storeVars
    <2>5. e.rows = exec[x].rows \ {s} /\ e.cur = s /\ ~ e.mine /\ e.stmt = exec[x].stmt
      BY <2>2, Zenon DEF Execs
    <2>7. e \in Execs
      <3>1. s \in 0 .. MaxSlot /\ FALSE \in BOOLEAN /\ exec[x].rows \ {s} \in SUBSET Slot
        BY <1>3 DEF Execs
      <3> QED
        BY <2>2, <3>1, Zenon DEF Execs
    <2>6. exec[x].stmt # "select" /\ "own" \in {"rows", "own"} /\ s \in exec[x].rows
      BY <1>1, Zenon
    <2> QED
      BY <1>1, <2>1, <2>3, <2>4, <2>5, <2>6, <2>7, RowStep, Zenon
  <1>6. CASE Fail(x) /\ UNCHANGED <<header, exec, rw_set>>
    <2>1. /\ pc' = [pc EXCEPT ![x] = "ready"] /\ pc[x] \in OnRows \ {"write"}
          /\ UNCHANGED <<storeVars, exec, read_id, rw_set, gc_set, historyVars>>
      BY <1>1, <1>6, Zenon DEF Fail, Goto, storeVars, OnRows
    <2>2. result' \in [Txn -> {"SUCCESS", "FAILURE", "ABORTED"}]
      BY <1>6, ZenonT(30) DEF Fail, SetResult, TypeInv, TypeOK
    <2> QED
      BY <2>1, <2>2, ReadyStep, ZenonT(30)
  <1> QED
    BY <1>2, <1>4, <1>5, <1>6, Zenon

\* The version acquired is the newest of its list, and nobody after x read it.
LEMMA OwnershipAcquired ==
  ASSUME IInv, NEW x \in Txn, pc[x] = "own", NEW s \in Slot, s = exec[x].cur,
         CanAcquire(x, s), header' = [header EXCEPT ![s].txn = x],
         pc' = [pc EXCEPT ![x] = "write"],
         UNCHANGED <<next_slot, index, head, exec, read_id, result, rw_set, gc_set,
                     historyVars>>
  PROVE  Kept
  <1> TypeInv /\ exec[x] \in Execs /\ WriterOK(x) /\ ReaderOK(x)
    BY ExecSame, Zenon DEF IInv
  <1>1. /\ header[s].txn = INITIAL_TXN_ID /\ header[s].reader = x /\ header[s].begin < x
        /\ header[s].begin # MAX_CID /\ header[s].end = MAX_CID
        /\ TimestampsReads(x) /\ s \notin exec[x].rows /\ header[s].txn # x
    <2>1. /\ header[s].txn = INITIAL_TXN_ID /\ header[s].reader <= x /\ 2 < x
          /\ x \in Int /\ header[s].reader \in Int /\ header[s].begin \in Int
          /\ x < MAX_CID /\ MAX_CID \in Int
      BY Fields, TxnIds, Zenon DEF CanAcquire, IsFree
    <2>2. /\ header[s].end = MAX_CID \/ header[s].reader > x
          /\ s \notin exec[x].rows
      BY Zenon DEF ReaderOK, Loads
    <2>3. TimestampsReads(x)
      BY Zenon DEF ReaderOK, StatementOK
    <2>4. Row(x, s)
      BY Zenon DEF ReaderOK, Loads
    <2>5. header[s].begin < x /\ header[s].reader >= x
      BY <2>1, <2>4 DEF Row
    <2> QED
      BY <2>1, <2>2, <2>3, <2>5
  <1>2. /\ header[s].prev = NULL /\ head[header[s].entry] = s
        /\ header[s].entry \in index /\ header[s] # EmptyHeader
    BY <1>1, EmptyFields, ZenonT(30) DEF IInv, SlotOK
  <1>3. /\ header' \in [Slot -> Headers] /\ OthersSame(s) /\ LinksKept(s)
        /\ header'[s].txn = x /\ header'[s].reader = header[s].reader
        /\ header'[s].begin = header[s].begin /\ header'[s].end = header[s].end
        /\ header'[s].prev = header[s].prev
    BY SetTxn, Zenon
  <1>4. pc'[x] = "write" /\ pc' \in [Txn -> Locations]
    BY Zenon DEF TypeInv, TypeOK, Locations
  <1>5. TypeInv'
    BY <1>3, <1>4, Zenon DEF TypeInv, TypeOK, historyVars
  <1>6. ControlStep(x)
    BY <1>4, Zenon DEF ControlStep, Committing, historyVars, TypeInv, TypeOK
  <1>7. FreeStep(x, s)
    BY <1>1, <1>3, Fields DEF FreeStep
  <1>8. Step(x)
    BY <1>3, <1>6, <1>7 DEF Step, StoreStep, OthersSame, TypeInv, TypeOK, IInv, SlotOK
  <1>9. \A t \in Slot : /\ ~ Busy(x, t) /\ ~ Busy(x, t)' /\ ~ At(x, t, {"write"})
                        /\ At(x, t, {"write"})' <=> t = s
    BY <1>4, Zenon DEF Busy, At, Replacing
  <1>10. \A t \in Slot : Pending(x, t)' <=> Pending(x, t)
    BY <1>4, Zenon DEF Pending, Finishing, Committing
  <1>11. ~ Pending(x, s)
    BY <1>1, <1>9, Waiting, Zenon
  <1>12. \A t \in Slot : Pending(x, t) => Written(x, t)'
    <2>1. \A u \in Slot \ {s} : header'[u] = header[u]
      BY <1>3, Zenon DEF OthersSame
    <2> QED
      BY <1>1, <1>9, <1>11, <2>1, WaitersKept, Zenon
  <1>13. \A u \in Slot : header'[u].txn = x => Accounted(x, u)'
    <2> SUFFICES ASSUME NEW u \in Slot, header'[u].txn = x PROVE Accounted(x, u)'
      BY Zenon
    <2>1. CASE u = s
      BY <1>9, <2>1, ZenonT(30) DEF Accounted
    <2>2. CASE u # s
      <3>1. /\ header[u].txn = x /\ header'[u].next = header[u].next
            /\ \A t \in Slot : header'[t].prev = header[t].prev
        BY <1>3, <2>2, ZenonT(30) DEF OthersSame
      <3>2. Accounted(x, u)
        BY <3>1, Zenon DEF WriterOK
      <3>3. CASE Pending(x, u)
        BY <1>10, <3>3, Zenon DEF Accounted
      <3>4. CASE ~ Pending(x, u)
        <4>1. header[u].next # s
          BY <1>9, <1>11, <3>2, <3>4, Zenon DEF Accounted
        <4> QED
          BY <1>9, <1>10, <2>2, <3>1, <3>2, <4>1, AccountedKept, SMTT(30)
      <3> QED
        BY <3>3, <3>4, Zenon
    <2> QED
      BY <2>1, <2>2, Zenon
  <1>14. Newest(x, s)'
    BY <1>1, <1>2, <1>3 DEF Newest, Held, LinksKept
  <1>15. WriterOK(x)'
    <2>1. \A t \in Slot : header'[t].begin = header[t].begin
      BY <1>3, ZenonT(30) DEF OthersSame
    <2> QED
      BY <1>4, <1>10, <1>12, <1>13, <1>14, <2>1, Zenon
         DEF WriterOK, Replacing, TimestampsReads
  <1>16. ReaderOK(x)'
    <2>1. StatementOK(x)'
      BY <1>1, <1>4, ZenonT(30)
         DEF ReaderOK, StatementOK, OnRows, OnSlot, Scanning, Replacing, TimestampsReads
    <2>2. ReadIdOK(x)'
      BY <1>1, <1>4, Zenon DEF ReaderOK, ReadIdOK, historyVars, TimestampsReads
    <2>3. Loads(x, exec[x].cur)'
      BY <1>4, Zenon DEF Loads
    <2>4. \A t \in exec'[x].rows : Row(x, t)'
      BY <1>1, <1>3 DEF ReaderOK, OnRows, Row, OthersSame, Execs
    <2>5. \A t \in returned[x] : Seen(x, t)'
      <3>1. \A t \in returned[x] : Seen(x, t) /\ t \in Slot
        BY Zenon DEF ReaderOK, TypeInv, TypeOK
      <3> QED
        BY <1>5, <1>8, <3>1, SeenKept, Zenon
    <2> QED
      BY <2>1, <2>2, <2>3, <2>4, <2>5, Zenon DEF ReaderOK, historyVars
  <1>17. SlotOK(s)'
    <2>1. /\ header'[s].txn # INITIAL_TXN_ID /\ header'[s].txn # INVALID_TXN_ID
          /\ header'[s].end = MAX_CID
      BY ONLY <1>1, <1>3, TxnIds
    <2> QED
      BY <1>2, <1>3, <1>5, <1>8, <2>1, SlotChanges, ZenonT(30)
  <1>18. (\A t, u \in Slot : ListOK(t, u))'
    BY <1>3, <1>8, ListSame, ZenonT(30) DEF OthersSame
  <1>19. \A y \in Txn : GarbageOK(y)'
    BY <1>8, NoGarbage, Zenon
  <1>20. \A t \in Slot : header'[t] = header[t] \/ SlotOK(t)'
    BY <1>3, <1>17, ZenonT(30) DEF OthersSame
  <1> QED
    BY <1>5, <1>8, <1>15, <1>16, <1>18, <1>19, <1>20, StepKeeps, Zenon

LEMMA AcquireOwnershipKeeps ==
  ASSUME IInv, NEW x \in Txn, AcquireOwnership(x)
  PROVE  Kept
  <1>1. PICK s \in Slot : s = exec[x].cur
    BY ZenonT(30) DEF IInv, ReaderOK, StatementOK, AcquireOwnership, OnSlot
  <1>2. CASE CanAcquire(x, s)
    BY <1>1, <1>2, OwnershipAcquired, Zenon DEF AcquireOwnership, Goto
  <1>3. CASE ~ CanAcquire(x, s)
    <2>1. /\ pc' = [pc EXCEPT ![x] = "ready"] /\ pc[x] \in OnRows \ {"write"}
          /\ UNCHANGED <<storeVars, exec, read_id, rw_set, gc_set, historyVars>>
      BY <1>1, <1>3, Zenon DEF AcquireOwnership, Fail, Goto, storeVars, OnRows
    <2>2. result' \in [Txn -> {"SUCCESS", "FAILURE", "ABORTED"}]
      BY <1>1, <1>3, Zenon DEF AcquireOwnership, Fail, SetResult, IInv, TypeInv, TypeOK
    <2> QED
      BY <2>1, <2>2, ReadyStep, Zenon
  <1> QED
    BY <1>2, <1>3, Zenon

\* The fields of a new version n and of the newest version s it goes in front of.
LEMMA LinkedFields ==
  ASSUME TypeInv, NEW x \in Txn, NEW s \in Slot, NEW n \in Slot \ {s},
         NEW v \in 0 .. MAX_CID, header[s].prev = NULL,
         header' = Linked(x, s, n, v)
  PROVE  /\ header' \in [Slot -> Headers] /\ LinksKept(s)
         /\ \A t \in Slot \ {s, n} : header'[t] = header[t]
         /\ header'[s].txn = header[s].txn /\ header'[s].reader = header[s].reader
         /\ header'[s].begin = header[s].begin /\ header'[s].end = header[s].end
         /\ header'[s].prev = n
         /\ header'[n].txn = x /\ header'[n].reader = 0
         /\ header'[n].begin = MAX_CID /\ header'[n].end = v
         /\ header'[n].prev = NULL /\ header'[n].next = s
         /\ header'[n].entry = header[s].entry
  <1>1. PICK h : h = [EmptyHeader EXCEPT !.txn = x, !.end = v, !.prev = NULL, !.next = s,
                        !.entry = header[s].entry]
    BY Zenon
  <1>2. PICK g : g = [header[s] EXCEPT !.prev = n]
    BY Zenon
  <1>3. header' = [t \in Slot |-> IF t = s THEN g ELSE IF t = n THEN h ELSE header[t]]
    BY <1>1, <1>2 DEF Linked
  <1>4. /\ h \in Headers /\ h.txn = x /\ h.reader = 0 /\ h.begin = MAX_CID /\ h.end = v
        /\ h.prev = NULL /\ h.next = s /\ h.entry = header[s].entry
    <2>1. /\ header[s].entry \in 0 .. MaxSlot /\ MAX_CID \in 0 .. MAX_CID
          /\ 0 \in 0 .. MAX_CID /\ s \in 0 .. MaxSlot /\ 0 \in 0 .. MaxSlot
      BY Fields, TxnIds, SizeAssumption
    <2>2. h = [txn |-> x, begin |-> MAX_CID, end |-> v, prev |-> 0, next |-> s,
               reader |-> 0, entry |-> header[s].entry]
      BY <1>1, Zenon DEF EmptyHeader
    <2> QED
      BY <2>1, <2>2, Zenon DEF Headers
  <1>5. /\ g \in Headers /\ g.txn = header[s].txn /\ g.reader = header[s].reader
        /\ g.begin = header[s].begin /\ g.end = header[s].end /\ g.prev = n
        /\ g.next = header[s].next /\ g.entry = header[s].entry
    <2>1. header[s] \in Headers
      BY Zenon DEF TypeInv, TypeOK
    <2>4. n \in 0 .. MaxSlot
      OBVIOUS
    <2>2. g \in Headers
      BY <1>2, <2>1, <2>4, Zenon DEF Headers
    <2>3. /\ g.txn = header[s].txn /\ g.reader = header[s].reader
          /\ g.begin = header[s].begin /\ g.end = header[s].end /\ g.prev = n
          /\ g.next = header[s].next /\ g.entry = header[s].entry
      BY <1>2, <2>1, Zenon DEF Headers
    <2> QED
      BY <2>2, <2>3, ZenonT(30)
  <1>6. header' \in [Slot -> Headers]
    BY <1>3, <1>4, <1>5, SMTT(30) DEF TypeInv, TypeOK
  <1> QED
    BY <1>3, <1>4, <1>5, <1>6, ZenonT(30) DEF LinksKept

\* What is known of the version an executor is about to replace.
LEMMA ToReplace ==
  ASSUME IInv, NEW x \in Txn, pc[x] = "write", NEW s \in Slot, s = exec[x].cur
  PROVE  /\ Newest(x, s) /\ header[s].txn = x /\ header[s].reader = x
         /\ header[s].begin < x /\ header[s].begin # MAX_CID /\ header[s].end = MAX_CID
         /\ header[s].prev = NULL /\ header[s].entry \in index
         /\ header[s].entry \in Slot /\ head[header[s].entry] = s
         /\ header[s] # EmptyHeader /\ TimestampsReads(x) /\ ~ exec[x].mine
         /\ exec[x].stmt \in {"update", "delete"} /\ s \notin exec[x].rows
         /\ ~ Pending(x, s) /\ rw_set[x][s] \in {"NONE", "READ"}
  <1> TypeInv /\ exec[x] \in Execs /\ WriterOK(x) /\ ReaderOK(x)
    BY ExecSame, Zenon DEF IInv
  <1>1. /\ x \in Int /\ 2 < x /\ x < MAX_CID /\ MAX_CID \in Int
        /\ header[s].begin \in Int
    BY Fields, TxnIds, ZenonT(30)
  <1>2. Newest(x, s)
    BY Zenon DEF WriterOK
  <1>3. /\ header[s].txn = x /\ header[s].reader = x /\ header[s].begin < x
        /\ header[s].end = MAX_CID /\ header[s].prev = NULL
        /\ header[s].entry \in index /\ head[header[s].entry] = s
    BY <1>2, Zenon DEF Newest, Held
  <1>4. /\ header[s].begin # MAX_CID /\ header[s] # EmptyHeader
        /\ header[s].entry \in Slot
    <2>1. header[s].entry \in Slot
      BY <1>3, Zenon DEF TypeInv, TypeOK
    <2>2. header[s].begin # MAX_CID
      BY ONLY <1>1, <1>3
    <2> QED
      BY <2>1, <2>2, EmptyFields, Zenon
  <1>5. TimestampsReads(x) /\ ~ exec[x].mine /\ exec[x].stmt \in {"update", "delete"}
    BY ZenonT(30) DEF ReaderOK, StatementOK, OnRows
  <1>6. s \notin exec[x].rows
    BY <1>3, <1>4, <1>5, ZenonT(30) DEF ReaderOK, Row, OnRows
  <1>7. ~ Pending(x, s)
    BY <1>3, <1>4, Waiting, SMTT(40) DEF Busy, At, Replacing
  <1>8. rw_set[x][s] \in {"NONE", "READ"}
    BY <1>7, Zenon DEF Pending, Finishing, Committing
  <1> QED
    BY <1>2, <1>3, <1>4, <1>5, <1>6, <1>7, <1>8, Zenon

\* An executor links the replacement n of the version s it owns.
LEMMA Installed ==
  ASSUME IInv, NEW x \in Txn, pc[x] = "write", NEW s \in Slot, s = exec[x].cur,
         NEW n \in Slot, n = next_slot, NEW w \in {"UPDATE", "DELETE"},
         NEW v \in 0 .. MAX_CID, v = IF w = "DELETE" THEN INVALID_CID ELSE MAX_CID,
         header' = Linked(x, s, n, v), MoveHead(s, n), next_slot' = n + 1,
         rw_set' = [rw_set EXCEPT ![x][s] = w], pc' = [pc EXCEPT ![x] = "rows"],
         UNCHANGED <<index, exec, read_id, result, gc_set, historyVars>>
  PROVE  Kept
  <1> TypeInv /\ exec[x] \in Execs /\ WriterOK(x) /\ ReaderOK(x)
    BY ExecSame, Zenon DEF IInv
  <1>1. /\ Newest(x, s) /\ header[s].txn = x /\ header[s].reader = x
        /\ header[s].begin < x /\ header[s].begin # MAX_CID /\ header[s].end = MAX_CID
        /\ header[s].prev = NULL /\ header[s].entry \in index
        /\ header[s].entry \in Slot /\ head[header[s].entry] = s
        /\ header[s] # EmptyHeader /\ TimestampsReads(x) /\ ~ exec[x].mine
        /\ exec[x].stmt \in {"update", "delete"} /\ s \notin exec[x].rows
        /\ ~ Pending(x, s) /\ rw_set[x][s] \in {"NONE", "READ"}
    BY ToReplace
  <1>2. n \in Int /\ n >= next_slot
    BY SlotNext, Zenon
  <1>3. /\ header[n] = EmptyHeader /\ n \notin index /\ n # s /\ header[n].txn # x
        /\ header[n].begin = MAX_CID
    <2>1. header[n] = EmptyHeader /\ n \notin index
      <3>1. SlotOK(n)
        BY Zenon DEF IInv
      <3> QED
        BY <1>2, <3>1, Zenon DEF SlotOK
    <2>2. header[n].txn = INVALID_TXN_ID /\ header[n].begin = MAX_CID
      BY <2>1, EmptyFields, Zenon
    <2> QED
      BY <1>1, <2>1, <2>2, TxnNot, Zenon
  <1>0. n \in Slot \ {s} /\ header[s].prev = NULL
    BY <1>1, <1>3, Zenon
  <1>4. /\ header' \in [Slot -> Headers] /\ LinksKept(s)
        /\ \A t \in Slot \ {s, n} : header'[t] = header[t]
        /\ header'[s].txn = header[s].txn /\ header'[s].reader = header[s].reader
        /\ header'[s].begin = header[s].begin /\ header'[s].end = header[s].end
        /\ header'[s].prev = n
    BY <1>0, LinkedFields
  <1>5. /\ header'[n].txn = x /\ header'[n].reader = 0
        /\ header'[n].begin = MAX_CID /\ header'[n].end = v
        /\ header'[n].prev = NULL /\ header'[n].next = s
        /\ header'[n].entry = header[s].entry
    BY <1>0, LinkedFields, SMTT(30)
  <1>6. head' = [head EXCEPT ![header[s].entry] = n]
    BY <1>1, SlotNot, Zenon DEF MoveHead
  <1>7. /\ head'[header[s].entry] = n /\ head' \in [Slot -> 0 .. MaxSlot]
        /\ \A e \in index :
             e \in Slot /\ (head'[e] = head[e] \/ (head[e] = s /\ head'[e] = n))
    <2>1. index \subseteq Slot /\ head \in [Slot -> 0 .. MaxSlot]
      BY Zenon DEF TypeInv, TypeOK
    <2>2. /\ head'[header[s].entry] = n /\ head' \in [Slot -> 0 .. MaxSlot]
          /\ \A u \in Slot : u # header[s].entry => head'[u] = head[u]
      <3>1. PICK e \in Slot : e = header[s].entry
        BY <1>1, Zenon
      <3>2. head' = [head EXCEPT ![e] = n]
        BY <1>6, <3>1, Zenon
      <3> QED
        BY ONLY <2>1, <3>1, <3>2, HeadMoved
    <2> QED
      BY <1>1, <2>1, <2>2, Zenon
  <1>8. /\ rw_set'[x][s] = w /\ rw_set' \in [Txn -> [Slot -> RWType]]
        /\ \A y \in Txn \ {x} : rw_set'[y] = rw_set[y]
        /\ \A t \in Slot \ {s} : rw_set'[x][t] = rw_set[x][t]
    BY Zenon DEF TypeInv, TypeOK, RWType
  <1>9. pc'[x] = "rows" /\ pc' \in [Txn -> Locations]
    BY ZenonT(30) DEF TypeInv, TypeOK, Locations
  <1>10. TypeInv'
    <2>1. next_slot' \in 1 .. (MaxSlot + 1)
      BY SizeAssumption
    <2> QED
      BY <1>4, <1>7, <1>8, <1>9, <2>1, Zenon DEF TypeInv, TypeOK, historyVars
  <1>11. ControlStep(x)
    BY <1>8, <1>9, Zenon DEF ControlStep, Committing, historyVars, TypeInv, TypeOK
  <1>12. OwnStep(x, s)
    <2>1. /\ header[s].txn = x /\ TimestampsReads(x) /\ LinksKept(s)
          /\ header'[s].reader = header[s].reader /\ header'[s].begin = header[s].begin
          /\ header[s].end = MAX_CID /\ header'[s].end = header[s].end
          /\ header'[s].txn = x
      BY <1>1, <1>4, Zenon
    <2>2. x # INVALID_TXN_ID
      BY TxnNot, Zenon
    <2> QED
      BY <2>1, <2>2, Zenon DEF OwnStep
  <1>13. NewStep(x, n)
    BY <1>2, <1>3, <1>5, Zenon DEF NewStep
  <1>14. Step(x)
    <2>1. \A e \in index : head'[e] \in Slot
      BY <1>7, Heads, Zenon
    <2>2. \A e \in index : \/ head'[e] = head[e]
                           \/ head[e] \in Slot /\ header[head[e]].txn = x
      BY <1>1, <1>7, Zenon
    <2>3. next_slot \in Int /\ next_slot' \in Int /\ next_slot <= next_slot'
      BY SlotNext, Zenon
    <2>4. \A t \in Slot : header'[t] = header[t] \/ OwnStep(x, t) \/ NewStep(x, t)
      BY <1>4, <1>12, <1>13, Zenon
    <2> QED
      BY <1>11, <2>1, <2>2, <2>3, <2>4, Zenon DEF Step, StoreStep
  <1>15. \A t \in Slot : /\ ~ Busy(x, t) /\ ~ Busy(x, t)' /\ ~ At(x, t, {"write"})'
                         /\ At(x, t, {"write"}) => t = s
    BY <1>9, ZenonT(30) DEF Busy, At, Replacing
  <1>16. /\ Pending(x, s)'
         /\ \A t \in Slot \ {s} : Pending(x, t)' <=> Pending(x, t)
    BY <1>8, <1>9, Zenon DEF Pending, Finishing, Committing
  <1>17. \A t \in Slot \ {s} : Pending(x, t) => Written(x, t)'
    <2>1. header[s].begin # MAX_CID /\ index \subseteq index'
      BY <1>1, Zenon
    <2>2. \A u \in Slot \ {s} : header'[u] = header[u] \/ header[u].txn # x
      BY <1>3, <1>4, Zenon
    <2>3. \A e \in index : head'[e] = head[e] \/ head[e] = s
      BY <1>7, Zenon
    <2> QED
      BY <1>8, <1>15, <2>1, <2>2, <2>3, WaitersKept, ZenonT(30)
  <1>18. Written(x, s)'
    <2>1. \A L \in {{"c_release"}, {"a_release"}, {"c_end", "c_old", "c_new"},
                    {"c_old", "c_new", "a_unlink"}, {"c_new"}, {"a_unlink"}} :
            ~ At(x, s, L)'
      BY <1>9, Zenon DEF At
    <2>2. Held(x, s)' /\ header'[s].entry = header[s].entry
      BY <1>1, <1>4, Zenon DEF Held, LinksKept
    <2>3. Linking(s)'
      BY <1>4, <1>5, Zenon DEF Linking
    <2>4. header'[n].end = IF rw_set'[x][s] = "DELETE" THEN INVALID_CID ELSE MAX_CID
      BY <1>5, <1>8, Zenon
    <2>5. Replaced(x, s)'
      <3>1. /\ header'[s].prev = n /\ header'[s].end = MAX_CID
            /\ header'[n].entry = header'[s].entry /\ head'[header'[s].entry] = n
        BY <1>1, <1>4, <1>5, <1>7, <2>2, ZenonT(30)
      <3> QED
        BY <1>5, <2>1, <2>2, <2>3, <2>4, <3>1, Zenon DEF Replaced
    <2> QED
      BY <1>8, <2>1, <2>5, Zenon DEF Written, Writes
  <1>19. \A u \in Slot : header'[u].txn = x => Accounted(x, u)'
    <2> SUFFICES ASSUME NEW u \in Slot, header'[u].txn = x PROVE Accounted(x, u)'
      BY Zenon
    <2>1. CASE u = s
      BY <1>16, <2>1, ZenonT(30) DEF Accounted
    <2>2. CASE u = n
      <3>1. Writes(x, s)' /\ ~ At(x, s, {"c_release", "a_release"})'
        BY <1>8, <1>9, Zenon DEF Writes, At
      <3> QED
        BY <1>4, <1>5, <1>16, <2>2, <3>1, ZenonT(30) DEF Accounted
    <2>3. CASE u \notin {s, n}
      <3>1. header'[u] = header[u] /\ header[u].txn = x /\ ~ At(x, u, {"write"})
        BY <1>4, <1>15, <2>3, Zenon
      <3>2. Accounted(x, u)
        BY <3>1, Zenon DEF WriterOK
      <3>3. CASE Pending(x, u)
        BY <1>16, <2>3, <3>3, Zenon DEF Accounted
      <3>4. CASE ~ Pending(x, u)
        <4>1. header[u].next # s
          BY <1>1, <3>1, <3>2, <3>4, Zenon DEF Accounted
        <4>2. \A t \in Slot \ {s} : Pending(x, t) => t # n
          BY <1>3, <1>15, Waiting, SMTT(30)
        <4>3. \A t \in Slot \ {s} : Pending(x, t) =>
                /\ Pending(x, t)' /\ header'[t].prev = header[t].prev
                /\ rw_set'[x][t] = rw_set[x][t] /\ ~ Busy(x, t)'
          BY <1>4, <1>8, <1>15, <1>16, <4>2, ZenonT(30)
        <4> QED
          BY <2>3, <3>1, <3>2, <4>1, <4>3, AccountedKept, Zenon
      <3> QED
        BY <3>3, <3>4, Zenon
    <2> QED
      BY <2>1, <2>2, <2>3, Zenon
  <1>20. \A t \in Slot : header'[t].begin = header[t].begin
    BY <1>3, <1>4, <1>5, ZenonT(30)
  <1>21. WriterOK(x)'
    <2>1. \A t \in Slot : /\ rw_set'[x][t] # "READ_OWN"
                          /\ rw_set'[x][t] = "READ" => header'[t].begin # MAX_CID
      <3>1. \A t \in Slot : /\ rw_set[x][t] # "READ_OWN"
                            /\ rw_set[x][t] = "READ" => header[t].begin # MAX_CID
        BY Zenon DEF WriterOK
      <3>2. rw_set'[x][s] \notin {"READ", "READ_OWN"}
        BY <1>8, Zenon
      <3> SUFFICES ASSUME NEW t \in Slot
                   PROVE  /\ rw_set'[x][t] # "READ_OWN"
                          /\ rw_set'[x][t] = "READ" => header'[t].begin # MAX_CID
        BY Zenon
      <3>3. header'[t].begin = header[t].begin
        BY <1>20, Zenon
      <3>4. CASE t = s
        BY <3>2, <3>4, Zenon
      <3>5. CASE t # s
        <4>1. rw_set'[x][t] = rw_set[x][t]
          BY <1>8, <3>5, Zenon
        <4> QED
          BY <3>1, <3>3, <4>1, Zenon
      <3> QED
        BY <3>4, <3>5, Zenon
    <2> QED
      BY <1>1, <1>9, <1>16, <1>17, <1>18, <1>19, <2>1, ZenonT(30)
         DEF WriterOK, Replacing, TimestampsReads
  <1>22. ReaderOK(x)'
    <2>1. StatementOK(x)'
      BY <1>1, <1>9, Zenon
         DEF ReaderOK, StatementOK, OnRows, OnSlot, Scanning, Replacing, TimestampsReads
    <2>2. Loads(x, exec[x].cur)'
      BY <1>9, Zenon DEF Loads
    <2>3. \A t \in exec'[x].rows : Row(x, t)'
      <3> SUFFICES ASSUME NEW t \in exec[x].rows PROVE Row(x, t)'
        BY Zenon
      <3>1. Row(x, t) /\ t \in Slot
        BY <1>1, Zenon DEF ReaderOK, OnRows, Execs
      <3>2. t # s /\ t # n
        BY ONLY <1>1, <1>3, <3>1, TxnIds DEF Row
      <3> QED
        BY ONLY <1>4, <3>1, <3>2 DEF Row
    <2> QED
      BY <1>10, <1>14, <2>1, <2>2, <2>3, ReaderStays, Zenon DEF historyVars
  <1>23. SlotOK(s)'
    <2>1. /\ header'[s].txn # INITIAL_TXN_ID /\ header'[s].txn # INVALID_TXN_ID
          /\ header'[s].end = MAX_CID
      BY ONLY <1>1, <1>4, TxnIds
    <2> QED
      BY <1>1, <1>4, <1>10, <1>14, <2>1, SlotChanges, ZenonT(30)
  <1>24. SlotOK(n)'
    <2>1. /\ header'[n].txn # INITIAL_TXN_ID /\ header'[n].txn # INVALID_TXN_ID
          /\ header'[n].end \in {INVALID_CID, MAX_CID} /\ n < next_slot'
      BY <1>5, TxnNot, SlotNext, Zenon
    <2>2. header'[header[s].entry].begin # MAX_CID
      <3>1. header[header[s].entry].begin # MAX_CID
        <4>1. SlotOK(s)
          BY Zenon DEF IInv
        <4>2. header[s].entry # NULL
          BY <1>1, SlotNot, Zenon
        <4>3. CASE header[s].entry = s
          BY <1>1, <4>3, Zenon
        <4>4. CASE header[s].entry # s
          BY <4>1, <4>2, <4>4, Zenon DEF SlotOK
        <4> QED
          BY <4>3, <4>4, Zenon
      <3> QED
        BY <1>1, <1>20, <3>1, Zenon
    <2>3. ~ (n >= next_slot') /\ n \notin index'
      BY <1>3, SlotNext, Zenon
    <2> QED
      BY <1>1, <1>5, <2>1, <2>2, <2>3, ZenonT(30) DEF SlotOK
  <1>25. (\A t, u \in Slot : ListOK(t, u))'
    <2>1. \A t \in Slot : header[t].begin # MAX_CID => EndOf(t)' = EndOf(t)
      <3> SUFFICES ASSUME NEW t \in Slot, header[t].begin # MAX_CID
                   PROVE  EndOf(t)' = EndOf(t)
        BY Zenon
      <3>1. CASE t = s
        <4>1. header'[s].prev = n
          BY <1>4, Zenon
        <4>2. header'[n].begin = MAX_CID
          BY <1>5, Zenon
        <4>3. header[s].prev = NULL
          BY <1>1, Zenon
        <4> QED
          BY ONLY <3>1, <4>1, <4>2, <4>3 DEF EndOf
      <3>2. CASE t # s
        <4>1. header'[t].prev = header[t].prev
          BY <1>3, <1>4, <3>2, Zenon
        <4> QED
          BY <1>20, <4>1, ZenonT(30) DEF EndOf
      <3> QED
        BY <3>1, <3>2, Zenon
    <2> QED
      BY <1>14, <1>20, <2>1, ListKept, Zenon
  <1>26. \A y \in Txn : GarbageOK(y)'
    BY <1>14, NoGarbage, Zenon
  <1>27. \A t \in Slot : header'[t] = header[t] \/ SlotOK(t)'
    BY <1>4, <1>23, <1>24, ZenonT(30)
  <1> QED
    BY <1>10, <1>14, <1>21, <1>22, <1>25, <1>26, <1>27, StepKeeps, Zenon
=============================================================================
