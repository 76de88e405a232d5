------------------------- MODULE TimestampEndProofs -------------------------
(***************************************************************************)
(* The steps of TimestampOrdering that commit or abort a transaction keep  *)
(* the invariant.                                                          *)
(***************************************************************************)
EXTENDS TimestampInvariant

USE DEF INVALID_TXN_ID, INITIAL_TXN_ID, INVALID_CID, NULL, LoadCid, Slot
-----------------------------------------------------------------------------
(* Commit and abort.                                                       *)

\* What x owns is nobody else's garbage.
LEMMA NotGarbage ==
  ASSUME IInv, NEW x \in Txn, NEW y \in Txn \ {x}, NEW s \in Slot,
         header[s].end \in {INVALID_CID, MAX_CID, x},
         \/ header[s].txn = x
         \/ header[s].txn = INVALID_TXN_ID /\ header[s].begin = x
  PROVE  ~ Garbage(y, s)
  <1>1. /\ x # INVALID_TXN_ID /\ y # INVALID_CID /\ y # MAX_CID /\ y # INVALID_TXN_ID
        /\ x # MAX_CID
    BY TxnIds
  <1>2. ~ (pc[y] = "a_unlink" /\ s = header[exec[y].cur].prev)
    <2> SUFFICES ASSUME pc[y] = "a_unlink", s = header[exec[y].cur].prev PROVE FALSE
      BY Zenon
    <2>1. WriterOK(y) /\ StatementOK(y) /\ pc[y] \in Replacing /\ pc[y] \in OnSlot
      BY Zenon DEF IInv, ReaderOK, OnSlot, Replacing
    <2>2. PICK t \in Slot : t = exec[y].cur /\ Pending(y, t) /\ Writes(y, t)
      BY <2>1, Zenon DEF WriterOK, StatementOK
    <2>3. Written(y, t)
      BY <2>1, <2>2, Zenon DEF WriterOK
    <2>4. Replaced(y, t)
      BY <2>2, <2>3, ZenonT(30) DEF Written, At
    <2>5. header[s].txn = y
      BY <2>2, <2>4, Zenon DEF Replaced
    <2> QED
      BY <1>1, <2>5, ZenonT(30)
  <1> QED
    BY <1>1, <1>2, Zenon DEF Garbage

\* Commit or abort is through with s.
LEMMA Finished ==
  ASSUME IInv, NEW x \in Txn, pc[x] \in Finishing \ {"ended"},
         NEW L \in {"commit", "abort"}, pc[x] \in Committing => L = "commit",
         NEW s \in Slot, Finish(x, s), pc' = [pc EXCEPT ![x] = L],
         header' \in [Slot -> Headers], gc_set' \in [Txn -> SUBSET Slot],
         \A y \in Txn \ {x} : gc_set'[y] = gc_set[y],
         UNCHANGED <<next_slot, index, head, read_id, result, rw_set, historyVars>>
  PROVE  /\ TypeInv' /\ ControlStep(x) /\ pc'[x] = L /\ ~ Pending(x, s)'
         /\ \A t \in Slot \ {s} : Pending(x, t)' <=> Pending(x, t)
  <1> TypeInv /\ exec[x] \in Execs
    BY ExecSame, Zenon DEF IInv
  <1>1. PICK e : e = [exec[x] EXCEPT !.todo = @ \ {s}]
    BY Zenon
  <1>2. e \in Execs /\ e.todo = exec[x].todo \ {s} /\ e.cur = exec[x].cur
    BY <1>1, Zenon DEF Execs
  <1>3. exec' = [exec EXCEPT ![x] = e] /\ exec'[x] = e
    BY <1>1, Zenon DEF Finish, TypeInv
  <1>4. pc'[x] = L /\ pc' \in [Txn -> Locations]
    BY Zenon DEF TypeInv, TypeOK, Locations
  <1>5. TypeInv'
    BY <1>2, <1>3, <1>4, Zenon DEF TypeInv, TypeOK, historyVars
  <1>6. ControlStep(x)
    BY <1>3, <1>4, Zenon
       DEF ControlStep, Committing, Finishing, historyVars, TypeInv, TypeOK
  <1>7. /\ ~ Pending(x, s)'
        /\ \A t \in Slot \ {s} : Pending(x, t)' <=> Pending(x, t)
    BY <1>2, <1>3, <1>4, Zenon DEF Pending, Finishing, Committing
  <1> QED
    BY <1>4, <1>5, <1>6, <1>7, Zenon

\* The slot commit or abort is at.
LEMMA AtSlot ==
  ASSUME IInv, NEW x \in Txn, pc[x] \in Replacing \union {"c_insert"}
  PROVE  /\ exec[x].cur \in Slot /\ Pending(x, exec[x].cur) /\ Written(x, exec[x].cur)
         /\ exec[x].cur \in exec[x].todo
         /\ pc[x] \in Replacing => Writes(x, exec[x].cur)
         /\ pc[x] = "c_insert" =>
              rw_set[x][exec[x].cur] = "INSERT" /\ ~ Writes(x, exec[x].cur)
         /\ \A t \in Slot \ {exec[x].cur} : ~ Busy(x, t) /\ ~ At(x, t, {"write"})
  <1>1. exec[x].cur \in Slot
    BY Zenon DEF IInv, ReaderOK, StatementOK, OnSlot
  <1>2. Pending(x, exec[x].cur)
    BY Zenon DEF IInv, WriterOK
  <1>3. Written(x, exec[x].cur)
    BY <1>1, <1>2, Zenon DEF IInv, WriterOK
  <1>4. exec[x].cur \in exec[x].todo
    BY <1>2, Zenon DEF Pending, Finishing, Committing, Replacing
  <1>5. /\ pc[x] \in Replacing => Writes(x, exec[x].cur)
        /\ pc[x] = "c_insert" =>
             rw_set[x][exec[x].cur] = "INSERT" /\ ~ Writes(x, exec[x].cur)
    BY Zenon DEF IInv, WriterOK, Writes
  <1>6. \A t \in Slot \ {exec[x].cur} : ~ Busy(x, t) /\ ~ At(x, t, {"write"})
    BY Zenon DEF Busy, At, Replacing
  <1> QED
    BY <1>1, <1>2, <1>3, <1>4, <1>5, <1>6, Zenon

LEMMA CommitInsertKeeps ==
  ASSUME IInv, NEW x \in Txn, CommitInsert(x)
  PROVE  Kept
  <1> TypeInv
    BY Zenon DEF IInv
  <1>1. /\ pc[x] = "c_insert" /\ pc' = [pc EXCEPT ![x] = "commit"]
        /\ UNCHANGED <<next_slot, index, head, read_id, result, rw_set, gc_set, historyVars>>
    BY Zenon DEF CommitInsert, Goto, txnVars
  <1>2. PICK s \in Slot : s = exec[x].cur
    BY <1>1, AtSlot, Zenon
  <1>3. /\ Inserted(x, s) /\ ~ Writes(x, s)
        /\ \A t \in Slot \ {s} : ~ Busy(x, t) /\ ~ At(x, t, {"write"})
    BY <1>1, <1>2, AtSlot, Zenon DEF Written
  <1>4. /\ header[s].txn = x /\ header[s].begin = x /\ header[s].end = MAX_CID
        /\ header[s].prev = NULL /\ head[header[s].entry] = s
    <2>1. rw_set[x][s] = "INSERT" /\ At(x, s, {"c_insert"})
      BY <1>1, <1>2, AtSlot, Zenon DEF At
    <2> QED
      BY <1>3, <2>1, Zenon DEF Inserted
  <1>5. header' = [header EXCEPT ![s].txn = INITIAL_TXN_ID] /\ Finish(x, s)
    BY <1>2, Zenon DEF CommitInsert
  <1>6. /\ header' \in [Slot -> Headers] /\ OthersSame(s) /\ LinksKept(s)
        /\ header'[s].txn = INITIAL_TXN_ID /\ header'[s].reader = header[s].reader
        /\ header'[s].begin = header[s].begin /\ header'[s].end = header[s].end
        /\ header'[s].prev = header[s].prev
    BY <1>5, SetTxn, Zenon
  <1>7. /\ TypeInv' /\ ControlStep(x) /\ pc'[x] = "commit" /\ ~ Pending(x, s)'
        /\ \A t \in Slot \ {s} : Pending(x, t)' <=> Pending(x, t)
    <2>1. /\ pc[x] \in Finishing \ {"ended"} /\ gc_set' \in [Txn -> SUBSET Slot]
          /\ \A y \in Txn \ {x} : gc_set'[y] = gc_set[y]
      BY <1>1, Zenon DEF Finishing, Committing, TypeInv, TypeOK
    <2> QED
      BY <1>1, <1>5, <1>6, <2>1, Finished, Zenon
  <1>8. /\ x # MAX_CID /\ MAX_CID # INVALID_CID /\ next_slot <= next_slot'
        /\ UNCHANGED <<head, index, read_id, returned>> /\ rw_set'[x] = rw_set[x]
        /\ {} \in SUBSET Slot /\ gc_set'[x] = gc_set[x] \union {}
        /\ \A u \in {} : Garbage(x, u)' /\ \A y \in Txn \ {x} : ~ Garbage(y, u)
    BY <1>1, TxnIds DEF historyVars, TypeInv, TypeOK
  <1>9. pc'[x] \in {"ready", "commit", "abort"} /\ pc[x] \notin {"idle", "a_unlink"}
    BY <1>1, <1>7, Zenon
  <1> QED
    BY <1>3, <1>4, <1>6, <1>7, <1>8, <1>9, ReleaseStep, Zenon

LEMMA AbortReleaseKeeps ==
  ASSUME IInv, NEW x \in Txn, AbortRelease(x)
  PROVE  Kept
  <1> TypeInv
    BY Zenon DEF IInv
  <1>1. /\ pc[x] = "a_release" /\ pc' = [pc EXCEPT ![x] = "abort"]
        /\ UNCHANGED <<next_slot, index, head, read_id, result, rw_set, gc_set, historyVars>>
    BY Zenon DEF AbortRelease, Goto, txnVars
  <1>0. pc[x] \in Replacing \union {"c_insert"} /\ pc[x] \in Replacing
    BY <1>1, Zenon DEF Replacing
  <1>2. PICK s \in Slot : s = exec[x].cur
    BY <1>0, AtSlot, Zenon
  <1>3. /\ At(x, s, {"a_release"}) /\ At(x, s, {"c_release", "a_release"})
        /\ ~ At(x, s, {"c_release"})
        /\ \A t \in Slot \ {s} : ~ Busy(x, t) /\ ~ At(x, t, {"write"})
    BY <1>0, <1>1, <1>2, AtSlot, Zenon DEF At
  <1>4. Newest(x, s)
    BY <1>0, <1>2, <1>3, AtSlot, Zenon DEF Written
  <1>5. /\ header[s].txn = x /\ header[s].begin < x /\ header[s].end = MAX_CID
        /\ header[s].prev = NULL /\ head[header[s].entry] = s
    BY <1>4, Zenon DEF Newest, Held
  <1>6. header' = [header EXCEPT ![s].txn = INITIAL_TXN_ID] /\ Finish(x, s)
    BY <1>2, Zenon DEF AbortRelease
  <1>7. /\ header' \in [Slot -> Headers] /\ OthersSame(s) /\ LinksKept(s)
        /\ header'[s].txn = INITIAL_TXN_ID /\ header'[s].reader = header[s].reader
        /\ header'[s].begin = header[s].begin /\ header'[s].end = header[s].end
        /\ header'[s].prev = header[s].prev
    BY <1>6, SetTxn, Zenon
  <1>8. /\ TypeInv' /\ ControlStep(x) /\ pc'[x] = "abort" /\ ~ Pending(x, s)'
        /\ \A t \in Slot \ {s} : Pending(x, t)' <=> Pending(x, t)
    <2>1. /\ pc[x] \in Finishing \ {"ended"} /\ gc_set' \in [Txn -> SUBSET Slot]
          /\ \A y \in Txn \ {x} : gc_set'[y] = gc_set[y]
          /\ pc[x] \notin Committing
      BY <1>1, Zenon DEF Finishing, Committing, TypeInv, TypeOK
    <2> QED
      BY <1>1, <1>6, <1>7, <2>1, Finished, Zenon
  <1>9. /\ header[s].begin # MAX_CID /\ MAX_CID # INVALID_CID /\ next_slot <= next_slot'
        /\ UNCHANGED <<head, index, read_id, returned>> /\ rw_set'[x] = rw_set[x]
        /\ {} \in SUBSET Slot /\ gc_set'[x] = gc_set[x] \union {}
        /\ \A u \in {} : Garbage(x, u)' /\ \A y \in Txn \ {x} : ~ Garbage(y, u)
    BY <1>1, <1>5, Fields, TxnIds, SMTT(30) DEF historyVars, TypeInv, TypeOK
  <1>10. pc'[x] \in {"ready", "commit", "abort"} /\ pc[x] \notin {"idle", "a_unlink"}
    BY <1>1, <1>8, Zenon
  <1> QED
    BY <1>3, <1>5, <1>7, <1>8, <1>9, <1>10, ReleaseStep, Zenon

LEMMA CommitReleaseKeeps ==
  ASSUME IInv, NEW x \in Txn, CommitRelease(x)
  PROVE  Kept
  <1> TypeInv
    BY Zenon DEF IInv
  <1>1. /\ pc[x] = "c_release" /\ pc' = [pc EXCEPT ![x] = "commit"]
        /\ UNCHANGED <<next_slot, index, head, read_id, result, rw_set, historyVars>>
    BY Zenon DEF CommitRelease, Goto
  <1>0. pc[x] \in Replacing \union {"c_insert"} /\ pc[x] \in Replacing
    BY <1>1, Zenon DEF Replacing
  <1>2. PICK s \in Slot : s = exec[x].cur
    BY <1>0, AtSlot, Zenon
  <1>3. /\ At(x, s, {"c_release"}) /\ At(x, s, {"c_release", "a_release"})
        /\ \A t \in Slot \ {s} : ~ Busy(x, t) /\ ~ At(x, t, {"write"})
    BY <1>0, <1>1, <1>2, AtSlot, ZenonT(30) DEF At
  <1>4. Superseded(x, s)
    BY <1>0, <1>2, <1>3, AtSlot, Zenon DEF Written
  <1>5. PICK n \in Slot : n = header[s].prev
    BY <1>4, Zenon DEF Superseded, Linking
  <1>6. /\ header[s].txn = x /\ header[s].begin < x /\ header[s].end = x
        /\ header[n].begin = x
        /\ rw_set[x][s] = "DELETE" => header[n].txn = INVALID_TXN_ID
    BY <1>4, <1>5, Zenon DEF Superseded, Held
  <1>7. header' = [header EXCEPT ![s].txn = INITIAL_TXN_ID] /\ Finish(x, s)
    BY <1>2, Zenon DEF CommitRelease
  <1>8. /\ header' \in [Slot -> Headers] /\ OthersSame(s) /\ LinksKept(s)
        /\ header'[s].txn = INITIAL_TXN_ID /\ header'[s].reader = header[s].reader
        /\ header'[s].begin = header[s].begin /\ header'[s].end = header[s].end
        /\ header'[s].prev = header[s].prev
    BY <1>7, SetTxn, Zenon
  <1>9. PICK G \in SUBSET Slot : G = {s} \union (IF rw_set[x][s] = "DELETE" THEN {n} ELSE {})
    BY Zenon
  <1>10. gc_set' = [gc_set EXCEPT ![x] = @ \union G]
    BY <1>2, <1>5, <1>9, ZenonT(30) DEF CommitRelease, Collect
  <1>11. /\ gc_set' \in [Txn -> SUBSET Slot] /\ gc_set'[x] = gc_set[x] \union G
         /\ \A y \in Txn \ {x} : gc_set'[y] = gc_set[y]
    BY <1>10, Zenon DEF TypeInv, TypeOK
  <1>12. /\ TypeInv' /\ ControlStep(x) /\ pc'[x] = "commit" /\ ~ Pending(x, s)'
         /\ \A t \in Slot \ {s} : Pending(x, t)' <=> Pending(x, t)
    <2>1. pc[x] \in Finishing \ {"ended"}
      BY <1>1, Zenon DEF Finishing, Committing
    <2> QED
      BY <1>1, <1>7, <1>8, <1>11, <2>1, Finished, Zenon
  <1>13. /\ header[s].begin # MAX_CID /\ x # INVALID_CID /\ x # MAX_CID
         /\ next_slot <= next_slot' /\ x # INVALID_TXN_ID
         /\ UNCHANGED <<head, index, read_id, returned>> /\ rw_set'[x] = rw_set[x]
    <2>1. /\ header[s].begin # MAX_CID /\ x # INVALID_CID /\ x # MAX_CID
          /\ x # INVALID_TXN_ID
      BY <1>6, Fields, TxnIds
    <2>2. next_slot <= next_slot'
      BY <1>1 DEF TypeInv, TypeOK
    <2> QED
      BY <1>1, <2>1, <2>2, Zenon DEF historyVars
  <1>14. \A u \in G : Garbage(x, u)' /\ \A y \in Txn \ {x} : ~ Garbage(y, u)
    <2>1. Garbage(x, s)' /\ \A y \in Txn \ {x} : ~ Garbage(y, s)
      BY <1>6, <1>8, NotGarbage DEF Garbage
    <2>2. CASE rw_set[x][s] = "DELETE"
      <3>1. n # s /\ header'[n] = header[n] /\ header[n].txn = INVALID_TXN_ID
        BY <1>6, <1>8, <1>13, <2>2, Zenon DEF OthersSame
      <3>2. header[n].end = MAX_CID
        BY <1>6, <1>13, <3>1, ZenonT(30) DEF IInv, SlotOK
      <3>3. Garbage(x, n)'
        BY <1>6, <3>1, Zenon DEF Garbage
      <3>4. \A y \in Txn \ {x} : ~ Garbage(y, n)
        BY <1>6, <3>1, <3>2, NotGarbage, Zenon
      <3> QED
        BY <1>9, <2>1, <3>3, <3>4, Zenon
    <2>3. CASE rw_set[x][s] # "DELETE"
      BY <1>9, <2>1, <2>3, Zenon
    <2> QED
      BY <2>2, <2>3, Zenon
  <1>15. pc'[x] \in {"ready", "commit", "abort"} /\ pc[x] \notin {"idle", "a_unlink"}
    BY <1>1, <1>12, Zenon
  <1>16. /\ header[s].end \in {INVALID_CID, MAX_CID, x} /\ header'[s].end # INVALID_CID
         /\ header'[s].end # MAX_CID
    BY <1>6, <1>8, <1>13, Zenon
  <1> QED
    BY <1>3, <1>6, <1>8, <1>11, <1>12, <1>13, <1>14, <1>15, <1>16, ReleaseStep, Zenon

LEMMA SetDiscarded ==
  ASSUME TypeInv, NEW s \in Slot,
         header' = [header EXCEPT ![s].begin = MAX_CID, ![s].end = MAX_CID,
                                  ![s].txn = INVALID_TXN_ID]
  PROVE  /\ header' \in [Slot -> Headers] /\ OthersSame(s) /\ LinksKept(s)
         /\ header'[s].txn = INVALID_TXN_ID /\ header'[s].reader = header[s].reader
         /\ header'[s].begin = MAX_CID /\ header'[s].end = MAX_CID
         /\ header'[s].prev = header[s].prev
  <1>1. PICK h : h = [header[s] EXCEPT !.begin = MAX_CID, !.end = MAX_CID,
                                       !.txn = INVALID_TXN_ID]
    BY Zenon
  <1>2. header' = [header EXCEPT ![s] = h]
    BY <1>1, Zenon DEF TypeInv, TypeOK
  <1>3. /\ h \in Headers /\ h.txn = INVALID_TXN_ID /\ h.reader = header[s].reader
        /\ h.begin = MAX_CID /\ h.end = MAX_CID /\ h.prev = header[s].prev
        /\ h.next = header[s].next /\ h.entry = header[s].entry
    <2>1. header[s] \in Headers /\ MAX_CID \in 0 .. MAX_CID
      BY CidAssumption DEF TypeInv, TypeOK
    <2> QED
      BY <1>1, <2>1, Zenon DEF Headers
  <1> QED
    BY <1>2, <1>3, SetHeader, Zenon DEF LinksKept

LEMMA DiscardInsertKeeps ==
  ASSUME IInv, NEW x \in Txn, DiscardInsert(x)
  PROVE  Kept
  <1> TypeInv /\ exec[x] \in Execs
    BY ExecSame, Zenon DEF IInv
  <1>1. /\ pc[x] \in {"commit", "abort"}
        /\ UNCHANGED <<next_slot, index, head, pc, read_id, result, rw_set, historyVars>>
    BY Zenon DEF DiscardInsert
  <1>2. PICK s \in exec[x].todo :
          /\ rw_set[x][s] \in {"INSERT", "INS_DEL"}
          /\ header' = [header EXCEPT ![s].begin = MAX_CID, ![s].end = MAX_CID,
                                      ![s].txn = INVALID_TXN_ID]
          /\ gc_set' = [gc_set EXCEPT ![x] = @ \union {s}] /\ Finish(x, s)
    BY Zenon DEF DiscardInsert, Collect
  <1>3. s \in Slot
    BY Zenon DEF Execs
  <1>4. /\ Pending(x, s) /\ ~ Writes(x, s)
        /\ \A t \in Slot : ~ Busy(x, t) /\ ~ At(x, t, {"write"})
    BY <1>1, <1>2, Zenon DEF Pending, Writes, Busy, At, Replacing
  <1>5. Inserted(x, s)
    BY <1>3, <1>4, Waiting, Zenon
  <1>6. /\ header[s].txn = x /\ header[s].begin = MAX_CID /\ header[s].reader = 0
        /\ header[s].next = NULL /\ header[s].end \in {INVALID_CID, MAX_CID}
        /\ header[s].entry = s
    BY <1>3, <1>4, <1>5, Waiting, ZenonT(30) DEF Inserted
  <1>7. /\ header' \in [Slot -> Headers] /\ OthersSame(s) /\ LinksKept(s)
        /\ header'[s].txn = INVALID_TXN_ID /\ header'[s].reader = header[s].reader
        /\ header'[s].begin = MAX_CID /\ header'[s].end = MAX_CID
        /\ header'[s].prev = header[s].prev
    BY <1>2, <1>3, SetDiscarded, Zenon
  <1>8. /\ gc_set' \in [Txn -> SUBSET Slot] /\ gc_set'[x] = gc_set[x] \union {s}
        /\ \A y \in Txn \ {x} : gc_set'[y] = gc_set[y] /\ {s} \in SUBSET Slot
    BY <1>2, <1>3, Zenon DEF TypeInv, TypeOK
  <1>9. PICK L \in {"commit", "abort"} : L = pc[x]
    BY <1>1, Zenon
  <1>10. /\ TypeInv' /\ ControlStep(x) /\ pc'[x] = L /\ ~ Pending(x, s)'
         /\ \A t \in Slot \ {s} : Pending(x, t)' <=> Pending(x, t)
    <2>1. /\ pc[x] \in Finishing \ {"ended"} /\ pc' = [pc EXCEPT ![x] = L]
          /\ pc[x] \in Committing => L = "commit"
      BY <1>1, <1>9, Zenon DEF Finishing, Committing, TypeInv, TypeOK
    <2> QED
      BY <1>1, <1>2, <1>3, <1>7, <1>8, <2>1, Finished, ZenonT(30)
  <1>11. /\ x # MAX_CID /\ next_slot <= next_slot' /\ {s} \in SUBSET Slot
         /\ UNCHANGED <<head, index, read_id, returned>> /\ rw_set'[x] = rw_set[x]
    BY <1>1, <1>3, TxnIds, SMTT(30) DEF historyVars, TypeInv, TypeOK
  <1>12. \A u \in {s} : Garbage(x, u)' /\ \A y \in Txn \ {x} : ~ Garbage(y, u)
    <2>1. Garbage(x, s)'
      BY <1>3, <1>6, <1>7 DEF Garbage, LinksKept
    <2>2. \A y \in Txn \ {x} : ~ Garbage(y, s)
      BY <1>3, <1>6, NotGarbage, Zenon
    <2> QED
      BY <2>1, <2>2, Zenon
  <1>13. /\ pc'[x] \in {"ready", "commit", "abort"} /\ pc[x] \notin {"idle", "a_unlink"}
         /\ header'[s].begin = header[s].begin /\ header[s].end # x
    BY <1>1, <1>6, <1>7, TxnIds, SMTT(30)
  <1> QED
    BY <1>3, <1>4, <1>6, <1>7, <1>8, <1>10, <1>11, <1>12, <1>13, ReleaseStep, ZenonT(30)

\* Commit or abort goes on with a slot of the read/write set.
LEMMA Moved ==
  ASSUME IInv, NEW x \in Txn, pc[x] \in Finishing \ {"ended"},
         NEW L \in Replacing \union {"c_insert"}, pc[x] \in Committing => L \in Committing,
         pc' = [pc EXCEPT ![x] = L], NEW e \in Execs, exec' = [exec EXCEPT ![x] = e],
         e.todo = exec[x].todo,
         header' \in [Slot -> Headers], head' \in [Slot -> 0 .. MaxSlot],
         gc_set' \in [Txn -> SUBSET Slot],
         \A y \in Txn \ {x} : gc_set'[y] = gc_set[y],
         UNCHANGED <<next_slot, index, read_id, result, rw_set, historyVars>>
  PROVE  /\ TypeInv' /\ ControlStep(x) /\ pc'[x] = L /\ exec'[x] = e
         /\ \A t \in Slot : Pending(x, t)' <=> Pending(x, t)
  <1> TypeInv
    BY ZenonT(30) DEF IInv
  <1>1. exec'[x] = e
    BY Zenon DEF TypeInv
  <1>2. pc'[x] = L /\ pc' \in [Txn -> Locations]
    BY Zenon DEF TypeInv, TypeOK, Locations, Replacing
  <1>3. TypeInv'
    BY <1>2, Zenon DEF TypeInv, TypeOK, historyVars
  <1>4. ControlStep(x)
    BY <1>2, Zenon DEF ControlStep, Finishing, Committing, Replacing, historyVars, TypeInv, TypeOK
  <1>5. \A t \in Slot : Pending(x, t)' <=> Pending(x, t)
    BY <1>1, <1>2, Zenon DEF Pending, Finishing, Committing, Replacing
  <1> QED
    BY <1>1, <1>2, <1>3, <1>4, <1>5, Zenon

\* What the writer answers for when it goes on with s.
LEMMA Advanced ==
  ASSUME IInv, NEW x \in Txn, NEW s \in Slot, Pending(x, s),
         \A t \in Slot : Pending(x, t)' <=> Pending(x, t),
         rw_set'[x] = rw_set[x], index' = index,
         \A t \in Slot \ {s} : ~ Busy(x, t) /\ ~ At(x, t, {"write"}),
         pc'[x] \in Replacing \union {"c_insert"}, exec'[x].cur = s,
         pc'[x] \in Replacing => Writes(x, s),
         pc'[x] = "c_insert" => rw_set[x][s] = "INSERT",
         pc'[x] = "c_end" => exec'[x].cid = MAX_CID,
         header[s].begin # MAX_CID \/ header[s].next = NULL,
         \A u \in Slot \ {s} :
           \/ header'[u] = header[u]
           \/ header[u].next = s /\ header[u].begin \in {x, MAX_CID},
         \A e \in index :
           \/ head'[e] = head[e] \/ head[e] = s
           \/ /\ head[e] \in Slot /\ header[head[e]].next = s
              /\ header[head[e]].begin \in {x, MAX_CID},
         \A u \in Slot : /\ header'[u].txn = x => header[u].txn = x
                         /\ header'[u].next = header[u].next
                         /\ header[u].begin # MAX_CID => header'[u].begin # MAX_CID
                         /\ u # s => header'[u].prev = header[u].prev,
         IF pc'[x] \in {"c_release", "a_release"}
         THEN header[s].prev \in Slot => header'[header[s].prev].txn # x
         ELSE header'[s].prev = header[s].prev,
         Written(x, s)'
  PROVE  WriterOK(x)'
  <1>1. WriterOK(x)
    BY ZenonT(30) DEF IInv
  <1>2. \A t \in Slot \ {s} : ~ Busy(x, t)'
    BY Zenon DEF Busy, At
  <1>3. \A t \in Slot : Pending(x, t)' => Written(x, t)'
    <2> SUFFICES ASSUME NEW t \in Slot \ {s}, Pending(x, t) PROVE Written(x, t)'
      BY Zenon
    <2> QED
      BY <1>2, WaitersKept, Zenon
  <1>4. \A u \in Slot : header'[u].txn = x => Accounted(x, u)'
    <2> SUFFICES ASSUME NEW u \in Slot, header'[u].txn = x PROVE Accounted(x, u)'
      BY Zenon
    <2>1. Accounted(x, u) /\ header'[u].next = header[u].next
      BY <1>1, Zenon DEF WriterOK
    <2>2. CASE Pending(x, u)
      BY <2>2, Zenon DEF Accounted
    <2>3. CASE ~ Pending(x, u) /\ header[u].next # s
      <3>1. \A t \in Slot \ {s} : Pending(x, t) =>
              /\ Pending(x, t)' /\ header'[t].prev = header[t].prev
              /\ rw_set'[x][t] = rw_set[x][t] /\ ~ Busy(x, t)'
        BY <1>2, ZenonT(30)
      <3>2. u \in Slot \ {s} /\ ~ At(x, u, {"write"})
        BY <2>3, Zenon
      <3> QED
        BY <2>1, <2>3, <3>1, <3>2, AccountedKept, Zenon
    <2>4. CASE ~ Pending(x, u) /\ header[u].next = s
      <3>1. u # s /\ header[s].prev = u /\ Writes(x, s)
        BY <2>1, <2>4, ZenonT(30) DEF Accounted
      <3>2. pc'[x] \notin {"c_release", "a_release"} /\ header'[s].prev = u
        BY <3>1, Zenon
      <3>3. Pending(x, s)' /\ Writes(x, s)' /\ ~ At(x, s, {"c_release", "a_release"})'
        BY <3>1, <3>2, Zenon DEF Writes, At
      <3> QED
        BY <2>1, <2>4, <3>2, <3>3, Zenon DEF Accounted
    <2> QED
      BY <2>2, <2>3, <2>4, ZenonT(30)
  <1>5. pc'[x] \notin {"write", "insert", "ended"}
    BY ZenonT(30) DEF Replacing
  <1>6. /\ pc'[x] \in Replacing => Pending(x, exec[x].cur)' /\ Writes(x, exec[x].cur)'
        /\ pc'[x] = "c_insert" =>
             Pending(x, exec[x].cur)' /\ rw_set'[x][exec'[x].cur] = "INSERT"
    BY Zenon DEF Writes
  <1>7. \A t \in Slot : /\ rw_set'[x][t] # "READ_OWN"
                        /\ rw_set'[x][t] = "READ" => header'[t].begin # MAX_CID
                        /\ TimestampsReads(x) \/ rw_set'[x][t] \in {"NONE", "READ"}
    BY <1>1, Zenon DEF WriterOK
  <1> QED
    BY <1>3, <1>4, <1>5, <1>6, <1>7, Zenon DEF WriterOK, TimestampsReads

\* A step of the owner of w, and of nothing else in the store.
LEMMA OwnerStep ==
  ASSUME IInv, TypeInv', NEW x \in Txn, ControlStep(x), NEW w \in Slot, OthersSame(w),
         OwnStep(x, w), UNCHANGED <<head, index, next_slot>>
  PROVE  Step(x)
  <1>1. /\ next_slot \in Int /\ next_slot <= next_slot'
        /\ \A e \in index' : head'[e] \in Slot /\ e \in index
    BY SMTT(30) DEF IInv, SlotOK, TypeInv, TypeOK
  <1>2. \A t \in Slot : header'[t] = header[t] \/ OwnStep(x, t)
    BY ZenonT(30) DEF OthersSame
  <1> QED
    BY <1>1, <1>2, Zenon DEF Step, StoreStep

\* A version at hand in a commit, or in an abort that has moved the head back.
OldAtHand(x, s) ==
  /\ Pending(x, s) /\ Writes(x, s) /\ TimestampsReads(x)
  /\ \A t \in Slot \ {s} : ~ Busy(x, t) /\ ~ At(x, t, {"write"})
  /\ header[s].txn = x /\ header[s].reader = x /\ header[s].begin < x
  /\ header[s].begin # MAX_CID /\ header[s].entry \in index
  /\ header[s] # EmptyHeader
  /\ header[s].end = IF pc[x] = "c_new" THEN x ELSE MAX_CID
  /\ head[header[s].entry] = IF pc[x] = "a_unlink" THEN s ELSE header[s].prev

\* The version that replaces it.
NewAtHand(x, s, n) ==
  /\ n = header[s].prev /\ header[n].next = s /\ header[n].txn = x
  /\ header[n].reader = 0 /\ header[n].prev = NULL
  /\ header[n].entry = header[s].entry /\ header[n] # EmptyHeader
  /\ header[n].begin = IF pc[x] = "a_unlink" THEN MAX_CID ELSE x
  /\ header[n].end = IF rw_set[x][s] = "DELETE" /\ pc[x] = "c_end"
                     THEN INVALID_CID ELSE MAX_CID

\* The two versions while commit or abort is at the older one.
LEMMA AtReplaced ==
  ASSUME IInv, NEW x \in Txn, pc[x] \in {"c_end", "c_old", "c_new", "a_unlink"},
         NEW s \in Slot, s = exec[x].cur
  PROVE  OldAtHand(x, s) /\ \E n \in Slot \ {s} : NewAtHand(x, s, n)
  <1> TypeInv
    BY ZenonT(30) DEF IInv
  <1>0. pc[x] \in Replacing \union {"c_insert"} /\ pc[x] \in Replacing
    BY Zenon DEF Replacing
  <1>1. /\ Pending(x, s) /\ Writes(x, s) /\ Written(x, s)
        /\ \A t \in Slot \ {s} : ~ Busy(x, t) /\ ~ At(x, t, {"write"})
    BY <1>0, AtSlot, Zenon
  <1>2. /\ ~ At(x, s, {"c_release"}) /\ ~ At(x, s, {"a_release"})
        /\ At(x, s, {"c_end", "c_old", "c_new"}) <=> pc[x] # "a_unlink"
        /\ At(x, s, {"c_old", "c_new", "a_unlink"}) <=> pc[x] # "c_end"
        /\ At(x, s, {"c_new"}) <=> pc[x] = "c_new"
        /\ At(x, s, {"a_unlink"}) <=> pc[x] = "a_unlink"
    BY Zenon DEF At
  <1>3. Replaced(x, s)
    BY <1>1, <1>2, Zenon DEF Written
  <1>4. PICK n \in Slot : n = header[s].prev /\ header[n].next = s
    BY <1>3, ZenonT(30) DEF Replaced, Linking
  <1>5. /\ header[s].txn = x /\ header[s].reader = x /\ header[s].begin < x
        /\ header[s].entry \in index
        /\ header[s].end = IF pc[x] = "c_new" THEN x ELSE MAX_CID
        /\ head[header[s].entry] = IF pc[x] = "a_unlink" THEN s ELSE n
    <2>1. /\ Held(x, s)
          /\ header[s].end = IF At(x, s, {"c_new"}) THEN x ELSE MAX_CID
          /\ head[header[s].entry] = IF At(x, s, {"a_unlink"}) THEN s ELSE n
      BY <1>3, <1>4, Zenon DEF Replaced
    <2> QED
      BY <1>2, <2>1, ZenonT(30) DEF Held
  <1>6. /\ header[n].txn = x /\ header[n].reader = 0 /\ header[n].prev = NULL
        /\ header[n].entry = header[s].entry
        /\ header[n].begin = IF pc[x] = "a_unlink" THEN MAX_CID ELSE x
        /\ header[n].end = IF rw_set[x][s] = "DELETE" /\ pc[x] = "c_end"
                           THEN INVALID_CID ELSE MAX_CID
    BY <1>2, <1>3, <1>4, ZenonT(30) DEF Replaced
  <1>7. /\ header[s].begin # MAX_CID /\ n # s /\ x # INVALID_TXN_ID
        /\ header[s] # EmptyHeader /\ header[n] # EmptyHeader
    <2>1. x \in Int /\ x # 0 /\ x < MAX_CID /\ header[s].begin \in Int /\ MAX_CID \in Int
      BY Fields, TxnIds
    <2>2. header[s] # EmptyHeader /\ header[n] # EmptyHeader
      BY <1>5, <1>6, <2>1, EmptyFields, ZenonT(30)
    <2> QED
      BY <1>5, <1>6, <2>1, <2>2, SMTT(30)
  <1>8. TimestampsReads(x)
    BY <1>5, SnapshotOwnsNothing, Zenon
  <1>9. OldAtHand(x, s)
    BY <1>1, <1>4, <1>5, <1>7, <1>8, Zenon DEF OldAtHand
  <1>10. NewAtHand(x, s, n)
    BY <1>4, <1>6, <1>7, Zenon DEF NewAtHand
  <1> QED
    BY <1>7, <1>9, <1>10, Zenon

\* Commit goes on with s by a step on w: s itself, or the version replacing it.
LEMMA AdvanceStep ==
  ASSUME IInv, TypeInv', NEW x \in Txn, Step(x), NEW s \in Slot, Pending(x, s),
         \A t \in Slot : Pending(x, t)' <=> Pending(x, t),
         UNCHANGED <<head, index, rw_set, read_id, returned, gc_set>>,
         \A t \in Slot \ {s} : ~ Busy(x, t) /\ ~ At(x, t, {"write"}),
         pc[x] \notin {"idle", "a_unlink"}, exec'[x].cur = s,
         \/ pc'[x] \in {"c_end", "c_old", "c_new", "c_release"} /\ Writes(x, s)
         \/ pc'[x] = "c_insert" /\ rw_set[x][s] = "INSERT",
         pc'[x] = "c_end" => exec'[x].cid = MAX_CID,
         header[s].begin # MAX_CID \/ header[s].next = NULL,
         NEW w \in Slot, OthersSame(w), LinksKept(w), header'[w].prev = header[w].prev,
         w = s \/ (header[w].next = s /\ header[w].begin \in {x, MAX_CID}),
         header[w].txn = x, header'[w].begin # MAX_CID \/ header[w].begin = MAX_CID,
         pc'[x] = "c_release" => w = header[s].prev /\ header'[w].txn # x,
         Written(x, s)', SlotOK(w)', (\A t, u \in Slot : ListOK(t, u))'
  PROVE  Kept
  <1>1. WriterOK(x)'
    <2>1. /\ pc'[x] \in Replacing \union {"c_insert"} /\ pc'[x] # "a_release"
          /\ pc'[x] \in Replacing => Writes(x, s)
          /\ pc'[x] = "c_insert" => rw_set[x][s] = "INSERT"
      BY ZenonT(30) DEF Replacing
    <2>2. /\ header'[s].prev = header[s].prev
          /\ \A u \in Slot \ {s} :
               \/ header'[u] = header[u]
               \/ header[u].next = s /\ header[u].begin \in {x, MAX_CID}
      BY Zenon DEF OthersSame
    <2>3. \A u \in Slot : /\ header'[u].txn = x => header[u].txn = x
                          /\ header'[u].next = header[u].next
                          /\ header[u].begin # MAX_CID => header'[u].begin # MAX_CID
                          /\ u # s => header'[u].prev = header[u].prev
      BY Zenon DEF OthersSame, LinksKept
    <2>4. IF pc'[x] \in {"c_release", "a_release"}
          THEN header[s].prev \in Slot => header'[header[s].prev].txn # x
          ELSE header'[s].prev = header[s].prev
      BY <2>1, <2>2, ZenonT(30)
    <2> QED
      BY <2>1, <2>2, <2>3, <2>4, Advanced, ZenonT(30)
  <1>2. ReaderOK(x)'
    BY ReaderDone, ZenonT(30) DEF Finishing, Committing
  <1>3. \A y \in Txn : GarbageOK(y)'
    BY NoGarbage, Zenon
  <1>4. \A t \in Slot : header'[t] = header[t] \/ SlotOK(t)'
    BY ZenonT(30) DEF OthersSame
  <1> QED
    BY <1>1, <1>2, <1>3, <1>4, StepKeeps, Zenon

LEMMA CommitEndKeeps ==
  ASSUME IInv, NEW x \in Txn, CommitEnd(x)
  PROVE  Kept
  <1> TypeInv
    BY Zenon DEF IInv
  <1>1. /\ pc[x] = "c_end" /\ pc' = [pc EXCEPT ![x] = "c_old"]
        /\ UNCHANGED <<next_slot, index, head, exec, read_id, result, rw_set, gc_set,
                       historyVars>>
    BY Zenon DEF CommitEnd, Goto, txnVars
  <1>2. PICK s \in Slot : s = exec[x].cur
    BY <1>1, AtSlot, Zenon DEF Replacing
  <1>3. /\ Pending(x, s) /\ Writes(x, s) /\ TimestampsReads(x)
        /\ \A t \in Slot \ {s} : ~ Busy(x, t) /\ ~ At(x, t, {"write"})
        /\ header[s].txn = x /\ header[s].reader = x /\ header[s].begin < x
        /\ header[s].begin # MAX_CID /\ header[s].entry \in index
        /\ header[s].end = MAX_CID /\ head[header[s].entry] = header[s].prev
    <2>1. OldAtHand(x, s) /\ pc[x] = "c_end"
      BY <1>1, <1>2, AtReplaced, Zenon
    <2> QED
      BY <2>1, ZenonT(30) DEF OldAtHand
  <1>4. PICK n \in Slot \ {s} :
          /\ n = header[s].prev /\ header[n].next = s /\ header[n].txn = x
          /\ header[n].reader = 0 /\ header[n].prev = NULL
          /\ header[n].entry = header[s].entry /\ header[n] # EmptyHeader
          /\ header[n].begin = x /\ header[n].end \in {INVALID_CID, MAX_CID}
    <2>1. PICK m \in Slot \ {s} : NewAtHand(x, s, m) /\ pc[x] = "c_end"
      BY <1>1, <1>2, AtReplaced, Zenon
    <2> QED
      BY <2>1, ZenonT(30) DEF NewAtHand
  <1>5. header' = [header EXCEPT ![n].end = MAX_CID]
    BY <1>1, <1>2, <1>4, Zenon DEF CommitEnd, IInv, WriterOK
  <1>6. /\ header' \in [Slot -> Headers] /\ OthersSame(n) /\ LinksKept(n)
        /\ header'[n].txn = header[n].txn /\ header'[n].reader = header[n].reader
        /\ header'[n].begin = header[n].begin /\ header'[n].end = MAX_CID
        /\ header'[n].prev = header[n].prev
    <2>1. MAX_CID \in 0 .. MAX_CID
      BY TxnIds
    <2> QED
      BY <1>5, <2>1, SetEnd, Zenon
  <1>7. /\ TypeInv' /\ ControlStep(x) /\ pc'[x] = "c_old" /\ exec'[x] = exec[x]
        /\ \A t \in Slot : Pending(x, t)' <=> Pending(x, t)
    <2>1. /\ pc[x] \in Finishing \ {"ended"} /\ "c_old" \in Replacing \union {"c_insert"}
          /\ "c_old" \in Committing /\ gc_set' \in [Txn -> SUBSET Slot]
          /\ head' \in [Slot -> 0 .. MaxSlot]
      BY <1>1, Zenon DEF Finishing, Committing, Replacing, TypeInv, TypeOK
    <2>2. exec[x] \in Execs /\ exec' = [exec EXCEPT ![x] = exec[x]]
      BY <1>1, ExecSame, Zenon
    <2> QED
      BY <1>1, <1>6, <2>1, <2>2, Moved, ZenonT(30)
  <1>8. x # INVALID_CID /\ x # MAX_CID /\ x # INVALID_TXN_ID /\ x # INITIAL_TXN_ID
    BY TxnIds, SMTT(30)
  <1>9. OwnStep(x, n)
    BY <1>3, <1>4, <1>6, <1>8, ZenonT(30) DEF OwnStep
  <1>10. Step(x)
    BY <1>1, <1>6, <1>7, <1>9, OwnerStep, ZenonT(30)
  <1>11. Written(x, s)'
    <2>1. /\ ~ At(x, s, {"c_release"})' /\ ~ At(x, s, {"a_release"})'
          /\ At(x, s, {"c_end", "c_old", "c_new"})'
          /\ At(x, s, {"c_old", "c_new", "a_unlink"})'
          /\ ~ At(x, s, {"c_new"})' /\ ~ At(x, s, {"a_unlink"})'
      BY <1>2, <1>7, Zenon DEF At
    <2>2. header'[s] = header[s] /\ head' = head /\ index' = index
      BY <1>1, <1>4, <1>6, ZenonT(30) DEF OthersSame
    <2>3. Replaced(x, s)'
      BY <1>3, <1>4, <1>6, <2>1, <2>2, ZenonT(30) DEF Replaced, Held, Linking, LinksKept
    <2> QED
      BY <1>1, <1>3, <2>1, <2>3, ZenonT(30) DEF Written, Writes
  <1>12. SlotOK(n)'
    BY <1>4, <1>6, <1>7, <1>8, <1>10, SlotChanges, Zenon
  <1>13. (\A t, u \in Slot : ListOK(t, u))'
    BY <1>4, <1>6, <1>10, ListSame, Zenon DEF OthersSame
  <1>14. /\ pc[x] \notin {"idle", "a_unlink"} /\ exec'[x].cur = s /\ pc'[x] # "c_release"
         /\ pc'[x] \in {"c_end", "c_old", "c_new", "c_release"} /\ pc'[x] # "c_end"
         /\ UNCHANGED <<head, index, rw_set, read_id, returned, gc_set>>
    BY <1>1, <1>2, <1>7, Zenon DEF historyVars
  <1>15. n \in Slot /\ header'[n].begin # MAX_CID
    BY <1>4, <1>6, <1>8, ZenonT(30)
  <1> QED
    BY <1>3, <1>4, <1>6, <1>7, <1>10, <1>11, <1>12, <1>13, <1>14, <1>15, AdvanceStep, ZenonT(30)

LEMMA CommitOldKeeps ==
  ASSUME IInv, NEW x \in Txn, CommitOld(x)
  PROVE  Kept
  <1> TypeInv
    BY Zenon DEF IInv
  <1>1. /\ pc[x] = "c_old" /\ pc' = [pc EXCEPT ![x] = "c_new"]
        /\ UNCHANGED <<next_slot, index, head, exec, read_id, result, rw_set, gc_set,
                       historyVars>>
    BY Zenon DEF CommitOld, Goto, txnVars
  <1>2. PICK s \in Slot : s = exec[x].cur
    BY <1>1, AtSlot, Zenon DEF Replacing
  <1>3. /\ Pending(x, s) /\ Writes(x, s) /\ TimestampsReads(x)
        /\ \A t \in Slot \ {s} : ~ Busy(x, t) /\ ~ At(x, t, {"write"})
        /\ header[s].txn = x /\ header[s].reader = x /\ header[s].begin < x
        /\ header[s].begin # MAX_CID /\ header[s].entry \in index
        /\ header[s].end = MAX_CID /\ head[header[s].entry] = header[s].prev
        /\ header[s] # EmptyHeader
    <2>1. OldAtHand(x, s) /\ pc[x] = "c_old"
      BY <1>1, <1>2, AtReplaced, Zenon
    <2> QED
      BY <2>1, ZenonT(30) DEF OldAtHand
  <1>4. PICK n \in Slot \ {s} :
          /\ n = header[s].prev /\ header[n].next = s /\ header[n].txn = x
          /\ header[n].reader = 0 /\ header[n].prev = NULL
          /\ header[n].entry = header[s].entry
          /\ header[n].begin = x /\ header[n].end = MAX_CID
    <2>1. PICK m \in Slot \ {s} : NewAtHand(x, s, m) /\ pc[x] = "c_old"
      BY <1>1, <1>2, AtReplaced, Zenon
    <2> QED
      BY <2>1, ZenonT(30) DEF NewAtHand
  <1>5. header' = [header EXCEPT ![s].end = x]
    BY <1>2, Zenon DEF CommitOld
  <1>6. /\ header' \in [Slot -> Headers] /\ OthersSame(s) /\ LinksKept(s)
        /\ header'[s].txn = header[s].txn /\ header'[s].reader = header[s].reader
        /\ header'[s].begin = header[s].begin /\ header'[s].end = x
        /\ header'[s].prev = header[s].prev
    <2>1. x \in 0 .. MAX_CID
      BY TxnIds
    <2> QED
      BY <1>5, <2>1, SetEnd, Zenon
  <1>7. /\ TypeInv' /\ ControlStep(x) /\ pc'[x] = "c_new" /\ exec'[x] = exec[x]
        /\ \A t \in Slot : Pending(x, t)' <=> Pending(x, t)
    <2>1. /\ pc[x] \in Finishing \ {"ended"} /\ "c_new" \in Replacing \union {"c_insert"}
          /\ "c_new" \in Committing /\ gc_set' \in [Txn -> SUBSET Slot]
          /\ head' \in [Slot -> 0 .. MaxSlot]
      BY <1>1, Zenon DEF Finishing, Committing, Replacing, TypeInv, TypeOK
    <2>2. exec[x] \in Execs /\ exec' = [exec EXCEPT ![x] = exec[x]]
      BY <1>1, ExecSame, Zenon
    <2> QED
      BY <1>1, <1>6, <2>1, <2>2, Moved, ZenonT(30)
  <1>8. x # INVALID_CID /\ x # MAX_CID /\ x # INVALID_TXN_ID /\ x # INITIAL_TXN_ID
    BY TxnIds
  <1>9. OwnStep(x, s)
    BY <1>3, <1>6, <1>8, ZenonT(30) DEF OwnStep
  <1>10. Step(x)
    BY <1>1, <1>6, <1>7, <1>9, OwnerStep, ZenonT(30)
  <1>11. header'[n] = header[n] /\ Linking(s)' /\ header'[n].begin = header'[s].end
    BY <1>4, <1>6, ZenonT(30) DEF OthersSame, Linking
  <1>12. Written(x, s)'
    <2>1. /\ ~ At(x, s, {"c_release"})' /\ ~ At(x, s, {"a_release"})'
          /\ At(x, s, {"c_end", "c_old", "c_new"})'
          /\ At(x, s, {"c_old", "c_new", "a_unlink"})'
          /\ At(x, s, {"c_new"})' /\ ~ At(x, s, {"a_unlink"})'
      BY <1>2, <1>7, Zenon DEF At
    <2>2. Held(x, s)' /\ header'[s].entry = header[s].entry
      BY <1>1, <1>3, <1>6, ZenonT(30) DEF Held, LinksKept
    <2>3. Replaced(x, s)'
      BY <1>1, <1>3, <1>4, <1>6, <1>11, <2>1, <2>2, ZenonT(30) DEF Replaced
    <2> QED
      BY <1>1, <1>3, <2>1, <2>3, ZenonT(30) DEF Written, Writes
  <1>13. SlotOK(s)'
    <2>1. /\ header'[s].begin # MAX_CID /\ header'[header'[s].prev].begin = header'[s].end
          /\ header'[s].txn # INITIAL_TXN_ID /\ header'[s].txn # INVALID_TXN_ID
      BY <1>3, <1>4, <1>6, <1>8, <1>11, ZenonT(30)
    <2> QED
      BY <1>3, <1>6, <1>7, <1>10, <1>11, <2>1, SlotChanges, ZenonT(30)
  <1>14. (\A t, u \in Slot : ListOK(t, u))'
    BY <1>6, <1>10, ListSame, Zenon DEF OthersSame
  <1>15. /\ pc[x] \notin {"idle", "a_unlink"} /\ exec'[x].cur = s /\ pc'[x] # "c_release"
         /\ pc'[x] \in {"c_end", "c_old", "c_new", "c_release"} /\ pc'[x] # "c_end"
         /\ UNCHANGED <<head, index, rw_set, read_id, returned, gc_set>>
         /\ header'[s].begin # MAX_CID
    BY <1>1, <1>2, <1>3, <1>6, <1>7, ZenonT(30) DEF historyVars
  <1> QED
    BY <1>3, <1>6, <1>7, <1>10, <1>12, <1>13, <1>14, <1>15, AdvanceStep, ZenonT(30)

LEMMA CommitNewKeeps ==
  ASSUME IInv, NEW x \in Txn, CommitNew(x)
  PROVE  Kept
  <1> TypeInv
    BY Zenon DEF IInv
  <1>1. /\ pc[x] = "c_new" /\ pc' = [pc EXCEPT ![x] = "c_release"]
        /\ UNCHANGED <<next_slot, index, head, exec, read_id, result, rw_set, gc_set,
                       historyVars>>
    BY Zenon DEF CommitNew, Goto, txnVars
  <1>2. PICK s \in Slot : s = exec[x].cur
    BY <1>1, AtSlot, Zenon DEF Replacing
  <1>3. /\ Pending(x, s) /\ Writes(x, s) /\ TimestampsReads(x)
        /\ \A t \in Slot \ {s} : ~ Busy(x, t) /\ ~ At(x, t, {"write"})
        /\ header[s].txn = x /\ header[s].reader = x /\ header[s].begin < x
        /\ header[s].begin # MAX_CID /\ header[s].entry \in index
        /\ header[s].end = x /\ head[header[s].entry] = header[s].prev
    <2>1. OldAtHand(x, s) /\ pc[x] = "c_new"
      BY <1>1, <1>2, AtReplaced, Zenon
    <2> QED
      BY <2>1, ZenonT(30) DEF OldAtHand
  <1>4. PICK n \in Slot \ {s} :
          /\ n = header[s].prev /\ header[n].next = s /\ header[n].txn = x
          /\ header[n].reader = 0 /\ header[n].prev = NULL
          /\ header[n].entry = header[s].entry /\ header[n] # EmptyHeader
          /\ header[n].begin = x /\ header[n].end = MAX_CID
    <2>1. PICK m \in Slot \ {s} : NewAtHand(x, s, m) /\ pc[x] = "c_new"
      BY <1>1, <1>2, AtReplaced, Zenon
    <2> QED
      BY <2>1, ZenonT(30) DEF NewAtHand
  <1>5. PICK v \in {INVALID_TXN_ID, INITIAL_TXN_ID} :
          /\ v = IF rw_set[x][s] = "DELETE" THEN INVALID_TXN_ID ELSE INITIAL_TXN_ID
          /\ header' = [header EXCEPT ![n].txn = v]
    BY <1>2, <1>4, Zenon DEF CommitNew
  <1>6. /\ header' \in [Slot -> Headers] /\ OthersSame(n) /\ LinksKept(n)
        /\ header'[n].txn = v /\ header'[n].reader = header[n].reader
        /\ header'[n].begin = header[n].begin /\ header'[n].end = header[n].end
        /\ header'[n].prev = header[n].prev
    <2>1. v \in Txn \union {INVALID_TXN_ID, INITIAL_TXN_ID} /\ n \in Slot
      BY <1>5, Zenon
    <2> QED
      BY <1>5, <2>1, SetTxn, Zenon
  <1>7. /\ TypeInv' /\ ControlStep(x) /\ pc'[x] = "c_release" /\ exec'[x] = exec[x]
        /\ \A t \in Slot : Pending(x, t)' <=> Pending(x, t)
    <2>1. /\ pc[x] \in Finishing \ {"ended"} /\ "c_release" \in Replacing \union {"c_insert"}
          /\ "c_release" \in Committing /\ gc_set' \in [Txn -> SUBSET Slot]
          /\ head' \in [Slot -> 0 .. MaxSlot]
      BY <1>1, Zenon DEF Finishing, Committing, Replacing, TypeInv, TypeOK
    <2>2. exec[x] \in Execs /\ exec' = [exec EXCEPT ![x] = exec[x]]
      BY <1>1, ExecSame, Zenon
    <2> QED
      BY <1>1, <1>6, <2>1, <2>2, Moved, ZenonT(30)
  <1>8. /\ x # INVALID_CID /\ x # MAX_CID /\ x # INVALID_TXN_ID /\ x # INITIAL_TXN_ID
        /\ MAX_CID # INVALID_CID
    BY TxnIds
  <1>9. OwnStep(x, n)
    BY <1>3, <1>4, <1>5, <1>6, <1>8, Zenon DEF OwnStep
  <1>10. Step(x)
    BY <1>1, <1>6, <1>7, <1>9, OwnerStep, Zenon
  <1>11. Written(x, s)'
    <2>1. header'[s] = header[s] /\ At(x, s, {"c_release"})'
      BY <1>2, <1>4, <1>6, <1>7, ZenonT(30) DEF OthersSame, At
    <2>2. Held(x, s)' /\ Linking(s)'
      BY <1>1, <1>3, <1>4, <1>6, <2>1, Zenon DEF Held, Linking, LinksKept
    <2>3. Superseded(x, s)'
      BY <1>1, <1>3, <1>4, <1>5, <1>6, <2>1, <2>2, Zenon DEF Superseded
    <2> QED
      BY <1>1, <1>3, <2>1, <2>3, ZenonT(30) DEF Written, Writes
  <1>12. SlotOK(n)'
    <2>1. /\ header'[n].begin # MAX_CID /\ header'[n].end = MAX_CID
          /\ header'[n].end # INVALID_CID
          /\ header'[n].prev = NULL /\ head'[header[n].entry] = n
      BY <1>1, <1>3, <1>4, <1>6, <1>8, ZenonT(30)
    <2> QED
      BY <1>4, <1>6, <1>7, <1>10, <2>1, SlotChanges, ZenonT(30)
  <1>13. (\A t, u \in Slot : ListOK(t, u))'
    BY <1>4, <1>6, <1>10, ListSame, Zenon DEF OthersSame
  <1>14. /\ pc[x] \notin {"idle", "a_unlink"} /\ exec'[x].cur = s
         /\ pc'[x] \in {"c_end", "c_old", "c_new", "c_release"} /\ pc'[x] # "c_end"
         /\ UNCHANGED <<head, index, rw_set, read_id, returned, gc_set>>
    BY <1>1, <1>2, <1>7, Zenon DEF historyVars
  <1>15. n \in Slot /\ header'[n].begin # MAX_CID /\ header'[n].txn # x
    BY <1>4, <1>6, <1>8, Zenon
  <1> QED
    BY <1>3, <1>4, <1>6, <1>7, <1>10, <1>11, <1>12, <1>13, <1>14, <1>15, AdvanceStep, ZenonT(30)

\* Newer versions lead back to the ones they replace.
LEMMA PrevLinks ==
  ASSUME IInv, NEW a \in Slot, header[a].begin # MAX_CID, header[a].prev \in Slot
  PROVE  Linking(a)
  <1> TypeInv /\ SlotOK(a) /\ header[a].prev # NULL
    BY SMTT(30) DEF IInv
  <1>1. CASE header[a].txn = INITIAL_TXN_ID
    BY <1>1, ZenonT(30) DEF SlotOK
  <1>2. CASE header[a].txn = INVALID_TXN_ID
    BY <1>2, Zenon DEF SlotOK
  <1>3. CASE header[a].txn \in Txn
    <2>1. PICK y \in Txn : y = header[a].txn
      BY <1>3, Zenon
    <2>2. Accounted(y, a)
      BY <2>1, ZenonT(30) DEF IInv, WriterOK
    <2>3. CASE Pending(y, a)
      <3>1. Written(y, a)
        BY <2>3, Zenon DEF IInv, WriterOK
      <3> QED
        BY <3>1, ZenonT(30) DEF Written, Superseded, Newest, Replaced, Inserted
    <2>4. CASE At(y, a, {"write"})
      <3>1. Newest(y, a)
        BY <2>4, Zenon DEF IInv, WriterOK, At
      <3> QED
        BY <3>1, Zenon DEF Newest
    <2>5. CASE ~ Pending(y, a) /\ ~ At(y, a, {"write"})
      <3>1. PICK o \in Slot : /\ Pending(y, o) /\ Writes(y, o) /\ header[o].prev = a
                              /\ ~ At(y, o, {"c_release", "a_release"})
        BY <2>2, <2>5, ZenonT(30) DEF Accounted
      <3>2. Written(y, o) /\ ~ At(y, o, {"c_release"}) /\ ~ At(y, o, {"a_release"})
        BY <3>1, ZenonT(30) DEF IInv, WriterOK, At
      <3>3. Replaced(y, o)
        BY <3>1, <3>2, Zenon DEF Written
      <3> QED
        BY <3>1, <3>3, Zenon DEF Replaced
    <2> QED
      BY <2>3, <2>4, <2>5, Zenon
  <1> QED
    BY <1>1, <1>2, <1>3, Fields, Zenon

\* The new version n begins at x, which is where the old one s ends.
LEMMA NewBegins ==
  ASSUME IInv, TypeInv', NEW x \in Txn, Step(x), NEW s \in Slot, NEW n \in Slot \ {s},
         header[s].prev = n, header[n].next = s, header[n].begin = MAX_CID,
         header[s].begin < x, header[n].entry = header[s].entry, header[n].prev = NULL,
         OthersSame(n), LinksKept(n), header'[n].prev = header[n].prev,
         header'[n].begin = x
  PROVE  (\A t, u \in Slot : ListOK(t, u))'
  <1> TypeInv
    BY Zenon DEF IInv
  <1>1. /\ x \in Int /\ x < MAX_CID /\ MAX_CID \in Int
        /\ \A t \in Slot : header[t].begin \in Int /\ header[t].begin <= MAX_CID
    BY TxnIds, Fields, Zenon
  <1>2. \A t \in Slot \ {s, n} : header[t].begin # MAX_CID => EndOf(t)' = EndOf(t)
    <2> SUFFICES ASSUME NEW t \in Slot \ {s, n}, header[t].begin # MAX_CID
                 PROVE  EndOf(t)' = EndOf(t)
      BY Zenon
    <2>1. header'[t] = header[t] /\ header[t].prev # n
      BY PrevLinks, Zenon DEF OthersSame, Linking
    <2> QED
      BY <2>1, Zenon DEF EndOf, OthersSame
  <1>3. EndOf(s) = MAX_CID /\ EndOf(s)' = x /\ header[s].begin # MAX_CID
    BY <1>1 DEF EndOf, OthersSame
  <1>4. \A t \in Slot \ {s, n} :
          header[t].entry = header[s].entry /\ header[t].begin # MAX_CID =>
            EndOf(t) <= header[s].begin
    <2> SUFFICES ASSUME NEW t \in Slot \ {s, n}, header[t].entry = header[s].entry,
                        header[t].begin # MAX_CID
                 PROVE  EndOf(t) <= header[s].begin
      BY Zenon
    <2>1. ListOK(s, t)
      BY Zenon DEF IInv
    <2>2. ~ (MAX_CID <= header[t].begin)
      BY <1>1
    <2> QED
      BY <1>3, <2>1, <2>2, Zenon DEF ListOK
  <1>5. \A t \in Slot : EndOf(t) \in Int
    BY <1>1, Zenon DEF EndOf
  <1>6. \A t \in Slot \ {n} : /\ header'[t] = header[t]
                              /\ header'[t].begin = header[t].begin
                              /\ header'[t].entry = header[t].entry
    BY Zenon DEF OthersSame
  <1>7. header'[n].entry = header[s].entry
    BY Zenon DEF LinksKept
  <1> SUFFICES ASSUME NEW t \in Slot, NEW u \in Slot, t # u,
                      header'[t].entry = header'[u].entry,
                      header'[t].begin # MAX_CID, header'[u].begin # MAX_CID
               PROVE  EndOf(t)' <= header'[u].begin \/ EndOf(u)' <= header'[t].begin
    BY ZenonT(30) DEF ListOK
  <1>8. CASE t = n
    <2>1. CASE u = s
      BY <1>1, <1>3, <1>8, <2>1, SMTT(30)
    <2>2. CASE u # s
      BY <1>1, <1>2, <1>4, <1>5, <1>6, <1>7, <1>8, <2>2, SMTT(30)
    <2> QED
      BY <2>1, <2>2, Zenon
  <1>9. CASE u = n
    <2>1. CASE t = s
      BY <1>1, <1>3, <1>9, <2>1
    <2>2. CASE t # s
      BY <1>1, <1>2, <1>4, <1>5, <1>6, <1>7, <1>9, <2>2, SMTT(30)
    <2> QED
      BY <2>1, <2>2, Zenon
  <1>10. CASE t # n /\ u # n /\ (t = s \/ u = s)
    BY <1>2, <1>4, <1>6, <1>10, SMTT(30)
  <1>11. CASE t \notin {s, n} /\ u \notin {s, n}
    <2>1. ListOK(t, u)
      BY ZenonT(30) DEF IInv
    <2> QED
      BY <1>2, <1>6, <1>11, <2>1, ZenonT(30) DEF ListOK
  <1> QED
    BY <1>8, <1>9, <1>10, <1>11, Zenon

\* What commit and abort know of a slot they have not been through.
LEMMA ToFinish ==
  ASSUME IInv, NEW x \in Txn, pc[x] \in {"commit", "abort"}, NEW s \in exec[x].todo,
         Writes(x, s)
  PROVE  /\ s \in Slot /\ Pending(x, s) /\ TimestampsReads(x) /\ Replaced(x, s)
         /\ \A t \in Slot : ~ Busy(x, t) /\ ~ At(x, t, {"write"})
         /\ header[s].txn = x /\ header[s].begin < x /\ header[s].begin # MAX_CID
         /\ header[s].reader = x
         /\ header[s].end = MAX_CID /\ header[s].entry \in index
         /\ head[header[s].entry] = header[s].prev
         /\ \E n \in Slot \ {s} :
              /\ n = header[s].prev /\ header[n].next = s /\ header[n].txn = x
              /\ header[n].reader = 0 /\ header[n].prev = NULL
              /\ header[n].entry = header[s].entry /\ header[n] # EmptyHeader
              /\ header[n].begin = MAX_CID
              /\ header[n].end = IF rw_set[x][s] = "DELETE" THEN INVALID_CID ELSE MAX_CID
  <1> TypeInv /\ exec[x] \in Execs
    BY ExecSame, Zenon DEF IInv
  <1>1. /\ s \in Slot /\ Pending(x, s)
        /\ \A t \in Slot : ~ Busy(x, t) /\ ~ At(x, t, {"write"})
    BY Zenon DEF Execs, Pending, Writes, Busy, At, Replacing
  <1>2. /\ Replaced(x, s) /\ header[s].begin < x /\ header[s].begin # MAX_CID
        /\ header[s].end = MAX_CID /\ header[s].txn = x /\ header[s].entry \in index
        /\ header[s].prev \in Slot /\ header[header[s].prev].next = s
        /\ header[header[s].prev].txn = x /\ header[header[s].prev].begin = MAX_CID
        /\ header[header[s].prev].prev = NULL
        /\ head[header[s].entry] = header[s].prev
    BY <1>1, Waiting, ZenonT(30)
  <1>3. PICK n \in Slot : n = header[s].prev
    BY <1>2, Zenon
  <1>4. ~ At(x, s, {"c_old", "c_new", "a_unlink"})
    BY Zenon DEF At
  <1>5. /\ header[n].reader = 0 /\ header[n].entry = header[s].entry
        /\ header[n].end = IF rw_set[x][s] = "DELETE" THEN INVALID_CID ELSE MAX_CID
        /\ header[s].reader = x
    BY <1>2, <1>3, <1>4, Zenon DEF Replaced, Held
  <1>6. n # s /\ header[n] # EmptyHeader /\ TimestampsReads(x)
    BY <1>1, <1>2, <1>3, SnapshotOwnsNothing, EmptyFields, TxnIds
  <1> QED
    BY <1>1, <1>2, <1>3, <1>5, <1>6, ZenonT(30)

LEMMA CommitBeginKeeps ==
  ASSUME IInv, NEW x \in Txn, CommitBegin(x)
  PROVE  Kept
  <1> TypeInv /\ exec[x] \in Execs
    BY ExecSame, Zenon DEF IInv
  <1>1. /\ pc[x] = "commit" /\ pc' = [pc EXCEPT ![x] = "c_end"]
        /\ UNCHANGED <<next_slot, index, head, read_id, result, rw_set, gc_set, historyVars>>
    BY Zenon DEF CommitBegin, Goto, txnVars
  <1>2. PICK s \in exec[x].todo :
          /\ Writes(x, s) /\ header' = [header EXCEPT ![header[s].prev].begin = x]
          /\ exec' = [exec EXCEPT ![x].cur = s, ![x].cid = header[s].end]
    BY Zenon DEF CommitBegin
  <1>3. /\ s \in Slot /\ Pending(x, s) /\ TimestampsReads(x) /\ Replaced(x, s)
        /\ \A t \in Slot : ~ Busy(x, t) /\ ~ At(x, t, {"write"})
        /\ header[s].txn = x /\ header[s].begin < x /\ header[s].begin # MAX_CID
        /\ header[s].reader = x
        /\ header[s].end = MAX_CID /\ header[s].entry \in index
        /\ head[header[s].entry] = header[s].prev
    BY <1>1, <1>2, ToFinish
  <1>4. PICK n \in Slot \ {s} :
          /\ n = header[s].prev /\ header[n].next = s /\ header[n].txn = x
          /\ header[n].reader = 0 /\ header[n].prev = NULL
          /\ header[n].entry = header[s].entry /\ header[n] # EmptyHeader
          /\ header[n].begin = MAX_CID
          /\ header[n].end = IF rw_set[x][s] = "DELETE" THEN INVALID_CID ELSE MAX_CID
    BY <1>1, <1>2, ToFinish
  <1>5. /\ header' \in [Slot -> Headers] /\ OthersSame(n) /\ LinksKept(n)
        /\ header'[n].txn = header[n].txn /\ header'[n].reader = header[n].reader
        /\ header'[n].begin = x /\ header'[n].end = header[n].end
        /\ header'[n].prev = header[n].prev
    <2>1. x \in 0 .. MAX_CID /\ n \in Slot /\ header' = [header EXCEPT ![n].begin = x]
      BY <1>2, <1>4, TxnIds
    <2> QED
      BY <2>1, SetBegin, Zenon
  <1>6. PICK e : e = [exec[x] EXCEPT !.cur = s, !.cid = MAX_CID]
    BY Zenon
  <1>7. e \in Execs /\ e.cur = s /\ e.cid = MAX_CID /\ e.todo = exec[x].todo
    <2>0. s \in Slot
      BY <1>3, Zenon
    <2>1. s \in 0 .. MaxSlot /\ MAX_CID \in 0 .. MAX_CID
      BY <2>0, TxnIds
    <2> QED
      BY <1>6, <2>1, ZenonT(30) DEF Execs
  <1>8. exec' = [exec EXCEPT ![x] = e]
    BY <1>2, <1>3, <1>6, Zenon DEF TypeInv
  <1>9. /\ TypeInv' /\ ControlStep(x) /\ pc'[x] = "c_end" /\ exec'[x] = e
        /\ \A t \in Slot : Pending(x, t)' <=> Pending(x, t)
    <2>1. /\ pc[x] \in Finishing \ {"ended"} /\ "c_end" \in Replacing \union {"c_insert"}
          /\ "c_end" \in Committing /\ gc_set' \in [Txn -> SUBSET Slot]
          /\ head' \in [Slot -> 0 .. MaxSlot]
          /\ \A y \in Txn \ {x} : gc_set'[y] = gc_set[y]
      BY <1>1, Zenon DEF Finishing, Committing, Replacing, TypeInv, TypeOK
    <2>2. /\ pc' = [pc EXCEPT ![x] = "c_end"] /\ header' \in [Slot -> Headers]
          /\ UNCHANGED <<next_slot, index, read_id, result, rw_set, historyVars>>
      BY <1>1, <1>5, Zenon
    <2> QED
      BY <1>7, <1>8, <2>1, <2>2, Moved, ZenonT(30)
  <1>10. x # INVALID_CID /\ x # MAX_CID /\ x # INVALID_TXN_ID /\ x # INITIAL_TXN_ID
    BY TxnIds, SMTT(30)
  <1>11. OwnStep(x, n)
    BY <1>3, <1>4, <1>5, <1>10, Zenon DEF OwnStep
  <1>12. Step(x)
    BY <1>1, <1>5, <1>9, <1>11, OwnerStep, ZenonT(30)
  <1>13. Written(x, s)'
    <2>1. /\ ~ At(x, s, {"c_release"})' /\ ~ At(x, s, {"a_release"})'
          /\ At(x, s, {"c_end", "c_old", "c_new"})'
          /\ ~ At(x, s, {"c_old", "c_new", "a_unlink"})'
          /\ ~ At(x, s, {"c_new"})' /\ ~ At(x, s, {"a_unlink"})'
      BY <1>7, <1>9, Zenon DEF At
    <2>2. header'[s] = header[s] /\ head' = head /\ index' = index
      BY <1>1, <1>3, <1>4, <1>5, Zenon DEF OthersSame
    <2>3. Held(x, s)' /\ Linking(s)'
      BY <1>3, <1>4, <1>5, <2>2, ZenonT(30) DEF Held, Linking, LinksKept
    <2>4. header'[n].end = IF rw_set'[x][s] = "DELETE" THEN INVALID_CID ELSE MAX_CID
      BY <1>1, <1>4, <1>5, Zenon
    <2>5. Replaced(x, s)'
      BY <1>3, <1>4, <1>5, <2>1, <2>2, <2>3, <2>4, ZenonT(30) DEF Replaced, LinksKept
    <2> QED
      BY <1>1, <1>2, <2>1, <2>5, Zenon DEF Written, Writes
  <1>14. SlotOK(n)'
    <2>1. /\ header'[n].txn # INITIAL_TXN_ID /\ header'[n].txn # INVALID_TXN_ID
          /\ header'[n].end \in {INVALID_CID, MAX_CID} /\ pc'[x] \in Committing
      BY <1>4, <1>5, <1>9, <1>10, Zenon DEF Committing
    <2> QED
      BY <1>4, <1>5, <1>9, <1>12, <2>1, SlotChanges, ZenonT(30)
  <1>15. (\A t, u \in Slot : ListOK(t, u))'
    BY <1>3, <1>4, <1>5, <1>9, <1>12, NewBegins, ZenonT(30)
  <1>16. /\ pc[x] \notin {"idle", "a_unlink"} /\ exec'[x].cur = s /\ pc'[x] # "c_release"
         /\ pc'[x] \in {"c_end", "c_old", "c_new", "c_release"}
         /\ exec'[x].cid = MAX_CID
         /\ UNCHANGED <<head, index, rw_set, read_id, returned, gc_set>>
         /\ \A t \in Slot \ {s} : ~ Busy(x, t) /\ ~ At(x, t, {"write"})
    BY <1>1, <1>3, <1>7, <1>9, ZenonT(30) DEF historyVars
  <1>17. n \in Slot /\ header'[n].begin # MAX_CID
    BY <1>4, <1>5, <1>10, Zenon
  <1> QED
    BY <1>2, <1>3, <1>4, <1>5, <1>9, <1>12, <1>13, <1>14, <1>15, <1>16, <1>17, AdvanceStep, ZenonT(30)

\* The inserted version has no older one, and nobody else is under its entry.
LEMMA CommitInsertBeginKeeps ==
  ASSUME IInv, NEW x \in Txn, CommitInsertBegin(x)
  PROVE  Kept
  <1> TypeInv /\ exec[x] \in Execs
    BY ExecSame, Zenon DEF IInv
  <1>1. /\ pc[x] = "commit" /\ pc' = [pc EXCEPT ![x] = "c_insert"]
        /\ UNCHANGED <<next_slot, index, head, read_id, result, rw_set, gc_set, historyVars>>
    BY Zenon DEF CommitInsertBegin, Goto, txnVars
  <1>2. PICK s \in exec[x].todo :
          /\ rw_set[x][s] = "INSERT"
          /\ header' = [header EXCEPT ![s].begin = x, ![s].end = MAX_CID]
          /\ exec' = [exec EXCEPT ![x].cur = s]
    BY Zenon DEF CommitInsertBegin
  <1>3. /\ s \in Slot /\ Pending(x, s) /\ ~ Writes(x, s)
        /\ \A t \in Slot : ~ Busy(x, t) /\ ~ At(x, t, {"write"})
    BY <1>1, <1>2, Zenon DEF Execs, Pending, Writes, Busy, At, Replacing
  <1>4. /\ Inserted(x, s) /\ header[s].txn = x /\ header[s].begin = MAX_CID
        /\ header[s].next = NULL /\ header[s].prev = NULL /\ header[s].entry = s
        /\ head[s] = s /\ s \in index
    BY <1>3, Waiting, Zenon
  <1>5. /\ header[s].end = MAX_CID /\ header[s].reader = 0 /\ header[s] # EmptyHeader
        /\ TimestampsReads(x)
    BY <1>2, <1>3, <1>4, SnapshotOwnsNothing, EmptyFields, TxnIds DEF Inserted
  <1>6. /\ header' \in [Slot -> Headers] /\ OthersSame(s) /\ LinksKept(s)
        /\ header'[s].txn = header[s].txn /\ header'[s].reader = header[s].reader
        /\ header'[s].begin = x /\ header'[s].end = MAX_CID
        /\ header'[s].prev = header[s].prev
    <2>1. /\ s \in Slot /\ x \in 0 .. MAX_CID /\ MAX_CID \in 0 .. MAX_CID
          /\ header' = [header EXCEPT ![s].begin = x, ![s].end = MAX_CID]
      BY <1>2, <1>3, TxnIds
    <2> QED
      BY <2>1, SetInterval, Zenon
  <1>7. PICK e : e = [exec[x] EXCEPT !.cur = s]
    BY Zenon
  <1>8. e \in Execs /\ e.cur = s /\ e.todo = exec[x].todo
    <2>1. s \in 0 .. MaxSlot
      BY <1>3
    <2> QED
      BY <1>7, <2>1, Zenon DEF Execs
  <1>9. exec' = [exec EXCEPT ![x] = e]
    BY <1>2, <1>7, Zenon DEF TypeInv
  <1>10. /\ TypeInv' /\ ControlStep(x) /\ pc'[x] = "c_insert" /\ exec'[x] = e
         /\ \A t \in Slot : Pending(x, t)' <=> Pending(x, t)
    <2>1. /\ pc[x] \in Finishing \ {"ended"} /\ "c_insert" \in Replacing \union {"c_insert"}
          /\ "c_insert" \in Committing /\ gc_set' \in [Txn -> SUBSET Slot]
          /\ head' \in [Slot -> 0 .. MaxSlot]
          /\ \A y \in Txn \ {x} : gc_set'[y] = gc_set[y]
      BY <1>1, ZenonT(30) DEF Finishing, Committing, Replacing, TypeInv, TypeOK
    <2>2. /\ pc' = [pc EXCEPT ![x] = "c_insert"] /\ header' \in [Slot -> Headers]
          /\ UNCHANGED <<next_slot, index, read_id, result, rw_set, historyVars>>
      BY <1>1, <1>6, Zenon
    <2> QED
      BY <1>8, <1>9, <2>1, <2>2, Moved, ZenonT(30)
  <1>11. x # INVALID_CID /\ x # MAX_CID /\ x # INVALID_TXN_ID /\ x # INITIAL_TXN_ID
    BY TxnIds
  <1>12. OwnStep(x, s)
    BY <1>4, <1>5, <1>6, <1>11, ZenonT(30) DEF OwnStep
  <1>13. Step(x)
    BY <1>1, <1>3, <1>6, <1>10, <1>12, OwnerStep, ZenonT(30)
  <1>14. Written(x, s)'
    <2>1. At(x, s, {"c_insert"})' /\ rw_set' = rw_set /\ index' = index /\ head' = head
      BY <1>1, <1>8, <1>10, Zenon DEF At
    <2>2. Inserted(x, s)'
      BY <1>2, <1>4, <1>5, <1>6, <2>1, Zenon DEF Inserted, LinksKept
    <2> QED
      BY <1>3, <2>1, <2>2, ZenonT(30) DEF Written, Writes
  <1>15. SlotOK(s)'
    <2>1. /\ header'[s].txn # INITIAL_TXN_ID /\ header'[s].txn # INVALID_TXN_ID
          /\ header'[s].end \in {INVALID_CID, MAX_CID} /\ pc'[x] \in Committing
      BY <1>4, <1>6, <1>10, <1>11, ZenonT(30) DEF Committing
    <2> QED
      BY <1>3, <1>5, <1>6, <1>10, <1>13, <2>1, SlotChanges, ZenonT(30)
  <1>16. (\A t, u \in Slot : ListOK(t, u))'
    <2>1. \A t \in Slot \ {s} : header[t].begin # MAX_CID => header[t].entry # s
      <3> SUFFICES ASSUME NEW t \in Slot \ {s}, header[t].entry = s
                   PROVE  FALSE
        BY Zenon
      <3>1. SlotOK(t)
        BY Zenon DEF IInv
      <3>2. s # NULL
        BY <1>3, SlotNot, Zenon
      <3> QED
        BY <1>4, <3>1, <3>2, Zenon DEF SlotOK
    <2>2. \A t \in Slot \ {s} : header[t].begin # MAX_CID => EndOf(t)' = EndOf(t)
      <3> SUFFICES ASSUME NEW t \in Slot \ {s}, header[t].begin # MAX_CID
                   PROVE  EndOf(t)' = EndOf(t)
        BY Zenon
      <3>1. header'[t] = header[t] /\ header[t].prev # s
        <4>1. header'[t] = header[t]
          BY <1>6, Zenon DEF OthersSame
        <4>2. header[s].next = NULL /\ t # NULL
          BY <1>4 DEF Inserted
        <4>3. header[t].prev = s => header[s].next = t
          BY <1>3, PrevLinks, Zenon DEF Linking
        <4> QED
          BY <4>1, <4>2, <4>3, Zenon
      <3> QED
        BY <1>6, <3>1, Zenon DEF EndOf, OthersSame
    <2> SUFFICES ASSUME NEW t \in Slot, NEW u \in Slot, t # u,
                        header'[t].entry = header'[u].entry,
                        header'[t].begin # MAX_CID, header'[u].begin # MAX_CID
                 PROVE  EndOf(t)' <= header'[u].begin \/ EndOf(u)' <= header'[t].begin
      BY Zenon DEF ListOK
    <2>3. header'[s].entry = s /\ \A v \in Slot \ {s} : header'[v] = header[v]
      BY <1>4, <1>6, Zenon DEF LinksKept, OthersSame
    <2>4. t # s /\ u # s
      BY <2>1, <2>3, Zenon
    <2>5. ListOK(t, u)
      BY Zenon DEF IInv
    <2> QED
      BY <2>2, <2>3, <2>4, <2>5, Zenon DEF ListOK
  <1>17. /\ pc[x] \notin {"idle", "a_unlink"} /\ exec'[x].cur = s
         /\ pc'[x] # "c_release" /\ pc'[x] # "c_end"
         /\ UNCHANGED <<head, index, rw_set, read_id, returned, gc_set>>
         /\ \A t \in Slot \ {s} : ~ Busy(x, t) /\ ~ At(x, t, {"write"})
         /\ header'[s].begin # MAX_CID
    BY <1>1, <1>3, <1>6, <1>8, <1>10, <1>11, Zenon DEF historyVars
  <1> QED
    BY <1>2, <1>3, <1>4, <1>6, <1>10, <1>13, <1>14, <1>15, <1>16, <1>17, AdvanceStep, Zenon

\* The head leads back to the older version, and the new one is garbage.
LEMMA AbortHeadKeeps ==
  ASSUME IInv, NEW x \in Txn, AbortHead(x)
  PROVE  Kept
  <1> TypeInv /\ exec[x] \in Execs
    BY ExecSame, Zenon DEF IInv
  <1>1. /\ pc[x] = "abort" /\ pc' = [pc EXCEPT ![x] = "a_unlink"]
        /\ UNCHANGED <<next_slot, index, read_id, result, rw_set, historyVars>>
    BY Zenon DEF AbortHead, Goto
  <1>2. PICK s \in exec[x].todo :
          /\ Writes(x, s)
          /\ header' = [header EXCEPT ![header[s].prev].begin = MAX_CID,
                                      ![header[s].prev].end = MAX_CID]
          /\ head' = IF header[header[s].prev].prev = NULL /\ header[s].entry # NULL
                     THEN [head EXCEPT ![header[s].entry] = s] ELSE head
          /\ exec' = [exec EXCEPT ![x].cur = s]
          /\ Collect(x, {header[s].prev})
    BY Zenon DEF AbortHead
  <1>3. /\ s \in Slot /\ Pending(x, s) /\ TimestampsReads(x) /\ Replaced(x, s)
        /\ \A t \in Slot : ~ Busy(x, t) /\ ~ At(x, t, {"write"})
        /\ header[s].txn = x /\ header[s].begin < x /\ header[s].begin # MAX_CID
        /\ header[s].reader = x
        /\ header[s].end = MAX_CID /\ header[s].entry \in index
        /\ head[header[s].entry] = header[s].prev
    BY <1>1, <1>2, ToFinish
  <1>4. PICK n \in Slot \ {s} :
          /\ n = header[s].prev /\ header[n].next = s /\ header[n].txn = x
          /\ header[n].reader = 0 /\ header[n].prev = NULL
          /\ header[n].entry = header[s].entry /\ header[n] # EmptyHeader
          /\ header[n].begin = MAX_CID
          /\ header[n].end = IF rw_set[x][s] = "DELETE" THEN INVALID_CID ELSE MAX_CID
    BY <1>1, <1>2, ToFinish
  <1>5. /\ header' \in [Slot -> Headers] /\ OthersSame(n) /\ LinksKept(n)
        /\ header'[n].txn = header[n].txn /\ header'[n].reader = header[n].reader
        /\ header'[n].begin = MAX_CID /\ header'[n].end = MAX_CID
        /\ header'[n].prev = header[n].prev
    <2>1. n \in Slot /\ MAX_CID \in 0 .. MAX_CID
      BY <1>4, TxnIds
    <2>2. PICK b \in 0 .. MAX_CID : b = MAX_CID
      BY <2>1, Zenon
    <2>3. header' = [header EXCEPT ![n].begin = b, ![n].end = b]
      BY <1>2, <1>4, <2>2, ZenonT(30)
    <2> QED
      BY <2>1, <2>2, <2>3, SetInterval, ZenonT(30)
  <1>6. /\ head' = [head EXCEPT ![header[s].entry] = s] /\ head' \in [Slot -> 0 .. MaxSlot]
        /\ head'[header[s].entry] = s
        /\ \A e \in Slot \ {header[s].entry} : head'[e] = head[e]
    <2>0. index \subseteq Slot /\ head \in [Slot -> 0 .. MaxSlot]
      BY Zenon DEF TypeInv, TypeOK
    <2>1. header[s].entry \in Slot /\ header[s].entry # NULL /\ s \in 0 .. MaxSlot
      <3>1. header[s].entry \in index /\ s \in Slot
        BY <1>3, Zenon
      <3>2. header[s].entry \in Slot
        BY <2>0, <3>1, ZenonT(30)
      <3>3. \A t \in Slot : t # 0 /\ t \in 0 .. MaxSlot
        BY SizeAssumption
      <3> QED
        BY <3>1, <3>2, <3>3, ZenonT(30)
    <2>2. head' = [head EXCEPT ![header[s].entry] = s]
      BY <1>2, <1>4, <2>1, Zenon
    <2> QED
      BY <2>0, <2>1, <2>2, Zenon
  <1>7. /\ gc_set' \in [Txn -> SUBSET Slot] /\ gc_set'[x] = gc_set[x] \union {n}
        /\ \A y \in Txn \ {x} : gc_set'[y] = gc_set[y]
    BY <1>2, <1>4 DEF Collect, TypeInv, TypeOK
  <1>8. PICK e : e = [exec[x] EXCEPT !.cur = s]
    BY Zenon
  <1>9. e \in Execs /\ e.cur = s /\ e.todo = exec[x].todo
    <2>1. s \in 0 .. MaxSlot
      BY <1>3
    <2> QED
      BY <1>8, <2>1, Zenon DEF Execs
  <1>10. exec' = [exec EXCEPT ![x] = e]
    BY <1>2, <1>8, Zenon DEF TypeInv
  <1>11. /\ TypeInv' /\ ControlStep(x) /\ pc'[x] = "a_unlink" /\ exec'[x] = e
         /\ \A t \in Slot : Pending(x, t)' <=> Pending(x, t)
    <2>1. /\ pc[x] \in Finishing \ {"ended"} /\ "a_unlink" \in Replacing \union {"c_insert"}
          /\ pc[x] \notin Committing
      BY <1>1, Zenon DEF Finishing, Committing, Replacing
    <2>2. /\ pc' = [pc EXCEPT ![x] = "a_unlink"] /\ header' \in [Slot -> Headers]
          /\ UNCHANGED <<next_slot, index, read_id, result, rw_set, historyVars>>
      BY <1>1, <1>5, Zenon
    <2> QED
      BY <1>6, <1>7, <1>9, <1>10, <2>1, <2>2, Moved, ZenonT(30)
  <1>12. x # INVALID_CID /\ x # MAX_CID /\ x # INVALID_TXN_ID /\ x # INITIAL_TXN_ID
    BY TxnIds
  <1>13. OwnStep(x, n)
    BY <1>3, <1>4, <1>5, <1>12, ZenonT(30) DEF OwnStep
  <1>14. \A a \in index : /\ head'[a] \in Slot
                          /\ head'[a] = head[a] \/ (head[a] = n /\ head'[a] = s)
    <2>1. \A a \in index : a \in Slot /\ head[a] \in Slot
      BY Zenon DEF IInv, SlotOK, TypeInv, TypeOK
    <2> QED
      BY <1>3, <1>4, <1>6, <2>1, ZenonT(30)
  <1>15. Step(x)
    <2>1. /\ next_slot \in Int /\ next_slot <= next_slot' /\ next_slot' = next_slot
          /\ index' = index
      BY <1>1 DEF TypeInv, TypeOK
    <2>2. \A t \in Slot : header'[t] = header[t] \/ OwnStep(x, t)
      BY <1>5, <1>13, Zenon DEF OthersSame
    <2> QED
      BY <1>4, <1>11, <1>14, <2>1, <2>2, ZenonT(30) DEF Step, StoreStep
  <1>16. header'[s] = header[s]
    BY <1>3, <1>4, <1>5, ZenonT(30) DEF OthersSame
  <1>17. Written(x, s)'
    <2>1. /\ ~ At(x, s, {"c_release"})' /\ ~ At(x, s, {"a_release"})'
          /\ ~ At(x, s, {"c_end", "c_old", "c_new"})'
          /\ At(x, s, {"c_old", "c_new", "a_unlink"})'
          /\ ~ At(x, s, {"c_new"})' /\ At(x, s, {"a_unlink"})'
      BY <1>9, <1>11, ZenonT(30) DEF At
    <2>2. Held(x, s)' /\ Linking(s)'
      BY <1>1, <1>3, <1>4, <1>5, <1>16, ZenonT(30) DEF Held, Linking, LinksKept
    <2>3. Replaced(x, s)'
      BY <1>3, <1>4, <1>5, <1>6, <1>16, <2>1, <2>2, ZenonT(30) DEF Replaced, LinksKept
    <2> QED
      BY <1>1, <1>2, <2>1, <2>3, Zenon DEF Written, Writes
  <1>18. WriterOK(x)'
    <2>1. /\ pc'[x] \in Replacing \union {"c_insert"} /\ exec'[x].cur = s
          /\ pc'[x] \notin {"c_insert", "c_end", "c_release", "a_release"}
          /\ rw_set'[x] = rw_set[x] /\ index' = index
          /\ \A t \in Slot \ {s} : ~ Busy(x, t) /\ ~ At(x, t, {"write"})
      BY <1>1, <1>3, <1>9, <1>11, ZenonT(30) DEF Replacing
    <2>2. \A u \in Slot \ {s} :
            \/ header'[u] = header[u]
            \/ header[u].next = s /\ header[u].begin \in {x, MAX_CID}
      BY <1>4, <1>5, ZenonT(30) DEF OthersSame
    <2>3. \A a \in index :
            \/ head'[a] = head[a] \/ head[a] = s
            \/ /\ head[a] \in Slot /\ header[head[a]].next = s
               /\ header[head[a]].begin \in {x, MAX_CID}
      BY <1>4, <1>14, Zenon
    <2>4. \A u \in Slot : /\ header'[u].txn = x => header[u].txn = x
                          /\ header'[u].next = header[u].next
                          /\ header[u].begin # MAX_CID => header'[u].begin # MAX_CID
                          /\ u # s => header'[u].prev = header[u].prev
      BY <1>4, <1>5, ZenonT(30) DEF OthersSame, LinksKept
    <2>5. /\ header'[s].prev = header[s].prev /\ Pending(x, s) /\ Writes(x, s)
          /\ header[s].begin # MAX_CID
      BY <1>2, <1>3, <1>16, Zenon
    <2> QED
      BY <1>3, <1>11, <1>17, <2>1, <2>2, <2>3, <2>4, <2>5, Advanced, ZenonT(30)
  <1>19. ReaderOK(x)'
    <2>1. /\ pc[x] # "idle" /\ UNCHANGED <<read_id, returned>>
          /\ pc'[x] \in Finishing \union {"ready"} /\ exec'[x].cur \in Slot
      BY <1>1, <1>3, <1>9, <1>11, ZenonT(30) DEF Finishing, historyVars
    <2> QED
      BY <1>11, <1>15, <2>1, ReaderDone, ZenonT(30)
  <1>20. SlotOK(n)'
    <2>1. /\ header'[n].txn # INITIAL_TXN_ID /\ header'[n].txn # INVALID_TXN_ID
          /\ header'[n].end \in {INVALID_CID, MAX_CID}
          /\ header'[n].begin = header[n].begin
      BY <1>4, <1>5, <1>12, ZenonT(30)
    <2> QED
      BY <1>4, <1>5, <1>11, <1>15, <2>1, SlotChanges, ZenonT(30)
  <1>21. (\A t, u \in Slot : ListOK(t, u))'
    <2>1. \A t \in Slot : /\ header'[t].begin = header[t].begin
                          /\ header'[t].prev = header[t].prev
      BY <1>4, <1>5, Zenon DEF OthersSame
    <2> QED
      BY <1>15, <2>1, ListSame, ZenonT(30)
  <1>22. \A y \in Txn : GarbageOK(y)'
    <2>1. Garbage(x, n)'
      BY <1>4, <1>9, <1>11, <1>16, Zenon DEF Garbage
    <2>2. \A y \in Txn \ {x} : ~ Garbage(y, n)
      BY <1>4, NotGarbage, Zenon
    <2>3. /\ {n} \in SUBSET Slot /\ pc[x] # "a_unlink"
          /\ \A u \in {n} : Garbage(x, u)' /\ \A y \in Txn \ {x} : ~ Garbage(y, u)
      BY <1>1, <1>4, <2>1, <2>2, Zenon
    <2> QED
      BY <1>7, <1>15, <2>3, GarbageKept, ZenonT(30)
  <1>23. \A t \in Slot : header'[t] = header[t] \/ SlotOK(t)'
    BY <1>5, <1>20, ZenonT(30) DEF OthersSame
  <1> QED
    BY <1>11, <1>15, <1>18, <1>19, <1>21, <1>22, <1>23, StepKeeps, ZenonT(30)

LEMMA UnlinkedFields ==
  ASSUME TypeInv, NEW s \in Slot, NEW n \in Slot \ {s},
         header' = [t \in Slot |->
           CASE t = s -> [header[s] EXCEPT !.prev = NULL]
             [] t = n -> [header[n] EXCEPT !.txn = INVALID_TXN_ID]
             [] t = NULL -> [header[t] EXCEPT !.next = s]
             [] OTHER -> header[t]]
  PROVE  /\ header' \in [Slot -> Headers] /\ LinksKept(s) /\ LinksKept(n)
         /\ \A t \in Slot \ {s, n} : header'[t] = header[t]
         /\ header'[s].txn = header[s].txn /\ header'[s].reader = header[s].reader
         /\ header'[s].begin = header[s].begin /\ header'[s].end = header[s].end
         /\ header'[s].prev = NULL
         /\ header'[n].txn = INVALID_TXN_ID /\ header'[n].reader = header[n].reader
         /\ header'[n].begin = header[n].begin /\ header'[n].end = header[n].end
         /\ header'[n].prev = header[n].prev
  <1>1. PICK g : g = [header[s] EXCEPT !.prev = NULL]
    BY Zenon
  <1>2. PICK h : h = [header[n] EXCEPT !.txn = INVALID_TXN_ID]
    BY Zenon
  <1>3. header' = [t \in Slot |-> IF t = s THEN g ELSE IF t = n THEN h ELSE header[t]]
    BY <1>1, <1>2
  <1>4. header[s] \in Headers /\ header[n] \in Headers /\ 0 \in 0 .. MaxSlot
    BY SizeAssumption DEF TypeInv, TypeOK
  <1>5. /\ g \in Headers /\ g.txn = header[s].txn /\ g.reader = header[s].reader
        /\ g.begin = header[s].begin /\ g.end = header[s].end /\ g.prev = NULL
        /\ g.next = header[s].next /\ g.entry = header[s].entry
    BY <1>1, <1>4, Zenon DEF Headers
  <1>6. /\ h \in Headers /\ h.txn = INVALID_TXN_ID /\ h.reader = header[n].reader
        /\ h.begin = header[n].begin /\ h.end = header[n].end /\ h.prev = header[n].prev
        /\ h.next = header[n].next /\ h.entry = header[n].entry
    BY <1>2, <1>4, Zenon DEF Headers
  <1>7. header \in [Slot -> Headers] /\ g \in Headers /\ h \in Headers
    BY <1>5, <1>6, Zenon DEF TypeInv, TypeOK
  <1>8. header' \in [Slot -> Headers]
    BY <1>3, <1>7, Zenon
  <1>9. /\ header'[s] = g /\ header'[n] = h
        /\ \A t \in Slot \ {s, n} : header'[t] = header[t]
    BY <1>3, ZenonT(30)
  <1> QED
    BY <1>5, <1>6, <1>8, <1>9, Zenon DEF LinksKept

\* The new version leaves the list, and the older one is the newest again.
LEMMA UnlinkKeeps ==
  ASSUME IInv, NEW x \in Txn, AbortUnlink(x)
  PROVE  Kept
  <1> TypeInv
    BY Zenon DEF IInv
  <1>1. /\ pc[x] = "a_unlink" /\ pc' = [pc EXCEPT ![x] = "a_release"]
        /\ UNCHANGED <<next_slot, index, head, exec, read_id, result, rw_set, gc_set,
                       historyVars>>
    BY ZenonT(30) DEF AbortUnlink, Goto, txnVars
  <1>2. PICK s \in Slot : s = exec[x].cur
    BY <1>1, AtSlot, Zenon DEF Replacing
  <1>3. /\ Pending(x, s) /\ Writes(x, s) /\ TimestampsReads(x)
        /\ \A t \in Slot \ {s} : ~ Busy(x, t) /\ ~ At(x, t, {"write"})
        /\ header[s].txn = x /\ header[s].reader = x /\ header[s].begin < x
        /\ header[s].begin # MAX_CID /\ header[s].entry \in index
        /\ header[s].end = MAX_CID /\ head[header[s].entry] = s
        /\ header[s] # EmptyHeader
    <2>1. OldAtHand(x, s) /\ pc[x] = "a_unlink"
      BY <1>1, <1>2, AtReplaced, Zenon
    <2> QED
      BY <2>1, ZenonT(30) DEF OldAtHand
  <1>4. PICK n \in Slot \ {s} :
          /\ n = header[s].prev /\ header[n].next = s /\ header[n].txn = x
          /\ header[n].reader = 0 /\ header[n].prev = NULL
          /\ header[n].entry = header[s].entry /\ header[n] # EmptyHeader
          /\ header[n].begin = MAX_CID /\ header[n].end = MAX_CID
    <2>1. PICK m \in Slot \ {s} : NewAtHand(x, s, m) /\ pc[x] = "a_unlink"
      BY <1>1, <1>2, AtReplaced, Zenon
    <2> QED
      BY <2>1, ZenonT(30) DEF NewAtHand
  <1>5. /\ header' \in [Slot -> Headers] /\ LinksKept(s) /\ LinksKept(n)
        /\ \A t \in Slot \ {s, n} : header'[t] = header[t]
        /\ header'[s].txn = header[s].txn /\ header'[s].reader = header[s].reader
        /\ header'[s].begin = header[s].begin /\ header'[s].end = header[s].end
        /\ header'[s].prev = NULL
        /\ header'[n].txn = INVALID_TXN_ID /\ header'[n].reader = header[n].reader
        /\ header'[n].begin = header[n].begin /\ header'[n].end = header[n].end
        /\ header'[n].prev = header[n].prev
    <2>1. header' = [t \in Slot |->
            CASE t = s -> [header[s] EXCEPT !.prev = NULL]
              [] t = n -> [header[n] EXCEPT !.txn = INVALID_TXN_ID]
              [] t = NULL -> [header[t] EXCEPT !.next = s]
              [] OTHER -> header[t]]
      <3>1. header' = [t \in Slot |->
              CASE t = exec[x].cur -> [header[exec[x].cur] EXCEPT
                                        !.prev = header[header[exec[x].cur].prev].prev]
                [] t = header[exec[x].cur].prev -> [header[header[exec[x].cur].prev]
                                        EXCEPT !.txn = INVALID_TXN_ID]
                [] t = header[header[exec[x].cur].prev].prev -> [header[t]
                                        EXCEPT !.next = exec[x].cur]
                [] OTHER -> header[t]]
        BY Zenon DEF AbortUnlink
      <3>2. exec[x].cur = s /\ header[s].prev = n /\ header[n].prev = NULL
        BY <1>2, <1>4, Zenon
      <3> QED
        BY <3>1, <3>2
    <2> QED
      BY <2>1, UnlinkedFields, ZenonT(30)
  <1>6. /\ TypeInv' /\ ControlStep(x) /\ pc'[x] = "a_release" /\ exec'[x] = exec[x]
        /\ \A t \in Slot : Pending(x, t)' <=> Pending(x, t)
    <2>1. /\ pc[x] \in Finishing \ {"ended"} /\ "a_release" \in Replacing \union {"c_insert"}
          /\ pc[x] \notin Committing /\ gc_set' \in [Txn -> SUBSET Slot]
          /\ head' \in [Slot -> 0 .. MaxSlot]
          /\ \A y \in Txn \ {x} : gc_set'[y] = gc_set[y]
      BY <1>1, Zenon DEF Finishing, Committing, Replacing, TypeInv, TypeOK
    <2>2. exec[x] \in Execs /\ exec' = [exec EXCEPT ![x] = exec[x]]
      BY <1>1, ExecSame, Zenon
    <2>3. /\ pc' = [pc EXCEPT ![x] = "a_release"] /\ header' \in [Slot -> Headers]
          /\ UNCHANGED <<next_slot, index, read_id, result, rw_set, historyVars>>
      BY <1>1, <1>5, ZenonT(30)
    <2> QED
      BY <2>1, <2>2, <2>3, Moved, ZenonT(30)
  <1>7. x # INVALID_CID /\ x # MAX_CID /\ x # INVALID_TXN_ID /\ x # INITIAL_TXN_ID
    BY TxnIds
  <1>8. OwnStep(x, s)
    BY <1>3, <1>5, <1>7, Zenon DEF OwnStep
  <1>9. OwnStep(x, n)
    BY <1>3, <1>4, <1>5, <1>7, ZenonT(30) DEF OwnStep
  <1>10. Step(x)
    <2>1. /\ next_slot \in Int /\ next_slot <= next_slot' /\ next_slot' = next_slot
          /\ index' = index /\ head' = head /\ \A e \in index : head[e] \in Slot
      BY <1>1, SMTT(40) DEF IInv, SlotOK, TypeInv, TypeOK
    <2>2. \A t \in Slot : header'[t] = header[t] \/ OwnStep(x, t)
      BY <1>5, <1>8, <1>9, Zenon
    <2> QED
      BY <1>6, <2>1, <2>2, ZenonT(30) DEF Step, StoreStep
  <1>11. Written(x, s)'
    <2>1. ~ At(x, s, {"c_release"})' /\ At(x, s, {"a_release"})'
      BY <1>2, <1>6, ZenonT(30) DEF At
    <2>2. Newest(x, s)'
      BY <1>1, <1>3, <1>5, Zenon DEF Newest, Held, LinksKept
    <2> QED
      BY <1>1, <1>3, <2>1, <2>2, ZenonT(30) DEF Written, Writes
  <1>12. WriterOK(x)'
    <2>1. /\ pc'[x] \in Replacing \union {"c_insert"} /\ exec'[x].cur = s
          /\ pc'[x] \notin {"c_insert", "c_end"} /\ pc'[x] \in {"c_release", "a_release"}
          /\ rw_set'[x] = rw_set[x] /\ index' = index /\ head' = head
      BY <1>1, <1>2, <1>6, ZenonT(30) DEF Replacing
    <2>2. \A u \in Slot \ {s} :
            \/ header'[u] = header[u]
            \/ header[u].next = s /\ header[u].begin \in {x, MAX_CID}
      BY <1>4, <1>5, ZenonT(30)
    <2>3. \A u \in Slot : /\ header'[u].txn = x => header[u].txn = x
                          /\ header'[u].next = header[u].next
                          /\ header[u].begin # MAX_CID => header'[u].begin # MAX_CID
                          /\ u # s => header'[u].prev = header[u].prev
      BY <1>4, <1>5, <1>7, ZenonT(30) DEF LinksKept
    <2>4. header[s].prev \in Slot => header'[header[s].prev].txn # x
      BY <1>4, <1>5, <1>7, Zenon
    <2> QED
      BY <1>3, <1>6, <1>11, <2>1, <2>2, <2>3, <2>4, Advanced, ZenonT(30)
  <1>13. ReaderOK(x)'
    <2>1. /\ pc[x] # "idle" /\ UNCHANGED <<read_id, returned>>
          /\ pc'[x] \in Finishing \union {"ready"} /\ exec'[x].cur \in Slot
      BY <1>1, <1>2, <1>6, ZenonT(30) DEF Finishing, historyVars
    <2> QED
      BY <1>6, <1>10, <2>1, ReaderDone, Zenon
  <1>14. SlotOK(s)'
    <2>1. /\ header'[s].txn # INITIAL_TXN_ID /\ header'[s].txn # INVALID_TXN_ID
          /\ header'[s].end \in {INVALID_CID, MAX_CID}
      BY <1>3, <1>5, <1>7, ZenonT(30)
    <2> QED
      BY <1>3, <1>5, <1>6, <1>10, <2>1, SlotChanges, ZenonT(30)
  <1>15. SlotOK(n)'
    <2>1. /\ header'[n].txn # INITIAL_TXN_ID /\ header'[n].begin = MAX_CID
          /\ header'[n].end \in {INVALID_CID, MAX_CID}
      BY <1>4, <1>5, SMTT(40)
    <2> QED
      BY <1>4, <1>5, <1>6, <1>10, <2>1, SlotChanges, ZenonT(30)
  <1>16. \A t \in Slot : header'[t] = header[t] \/ SlotOK(t)'
    BY <1>5, <1>14, <1>15, Zenon
  <1>17. (\A t, u \in Slot : ListOK(t, u))'
    <2>1. \A t \in Slot : header'[t].begin = header[t].begin
      BY <1>5, Zenon
    <2>2. EndOf(s) = MAX_CID /\ EndOf(s)' = MAX_CID
      BY <1>4, <1>5, SMTT(30) DEF EndOf
    <2>3. \A t \in Slot \ {s, n} : EndOf(t)' = EndOf(t)
      BY <1>5, <2>1, Zenon DEF EndOf
    <2>4. \A t \in Slot : header[t].begin # MAX_CID => EndOf(t)' = EndOf(t)
      BY <1>4, <2>2, <2>3, ZenonT(30)
    <2> QED
      BY <1>10, <2>1, <2>4, ListKept, Zenon
  <1>18. \A y \in Txn : GarbageOK(y)'
    <2> SUFFICES ASSUME NEW y \in Txn, NEW u \in gc_set[y] PROVE Garbage(y, u)'
      BY <1>1, ZenonT(30) DEF IInv, GarbageOK
    <2>1. CASE y # x
      BY <1>10, <2>1, GarbageSlotKept, Zenon
    <2>2. CASE y = x
      <3>1. u \in Slot /\ Garbage(x, u)
        BY <2>2, Zenon DEF IInv, GarbageOK, TypeInv, TypeOK
      <3>2. CASE u = n
        <4>1. /\ header'[n].txn = INVALID_TXN_ID /\ header'[n].begin = MAX_CID
              /\ header'[n].entry \in index
          BY <1>3, <1>4, <1>5, Zenon DEF LinksKept
        <4>2. NULL \notin index
          BY SMT DEF TypeInv, TypeOK
        <4> QED
          BY <2>2, <3>2, <4>1, <4>2, Zenon DEF Garbage
      <3>3. CASE u # n
        <4>1. u # s
          BY <1>1, <1>2, <1>3, <1>4, <1>7, <3>1, <3>3, ZenonT(30) DEF Garbage
        <4>2. header'[u] = header[u]
          BY <1>5, <3>1, <3>3, <4>1, Zenon
        <4> QED
          BY <1>1, <1>2, <1>4, <2>2, <3>1, <3>3, <4>2, ZenonT(30) DEF Garbage
      <3> QED
        BY <3>2, <3>3, Zenon
    <2> QED
      BY <2>1, <2>2, Zenon
  <1> QED
    BY <1>6, <1>10, <1>12, <1>13, <1>16, <1>17, <1>18, StepKeeps, Zenon
=============================================================================
