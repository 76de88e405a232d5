------------------------- MODULE TimestampInvariant -------------------------
(***************************************************************************)
(* What TimestampOrdering guarantees for every number of transactions,     *)
(* statements and slots, on the deployment it is meant for: the table has  *)
(* a primary index, whoever writes timestamps its reads, and snapshots are *)
(* only read.  Here: the inductive invariant, and what a step that keeps   *)
(* to its own versions leaves intact.                                      *)
(***************************************************************************)
EXTENDS TimestampOrdering, TLAPS

USE DEF INVALID_TXN_ID, INITIAL_TXN_ID, INVALID_CID, NULL, LoadCid, Slot

\* The deployment: a primary index, writers of the isolation levels that
\* timestamp their reads, and readers of snapshots.
TimestampedWriters ==
  /\ HasIndex
  /\ \A x \in Txn :
       \/ /\ TimestampsReads(x)
          /\ StatementsOf[x] \subseteq {"select", "update", "delete", "insert"}
       \/ /\ IsolationOf[x] \in {"SNAPSHOT", "READ_ONLY"}
          /\ StatementsOf[x] \subseteq {"select"}
-----------------------------------------------------------------------------
(* The inductive invariant.                                                *)

Execs ==
  [stmt : Statement, scan : {"index", "seq"}, cur : 0 .. MaxSlot,
   todo : SUBSET Slot, rows : SUBSET Slot, hops : {1, 2},
   txn : Txn \union {INVALID_TXN_ID, INITIAL_TXN_ID}, cid : 0 .. MAX_CID,
   mine : BOOLEAN, count : 0 .. MaxStatement]

TypeInv == TypeOK /\ exec \in [Txn -> Execs]

Committing == {"commit", "c_end", "c_old", "c_new", "c_release", "c_insert"}

Finishing == Committing \union {"abort", "a_unlink", "a_release", "ended"}

Scanning == {"next", "vis_txn", "vis_begin", "vis_end", "wire_txn", "wire_end",
             "follow", "read"}

OnRows == Scanning \union {"rows", "own", "write"}

Replacing == {"c_end", "c_old", "c_new", "c_release", "a_unlink", "a_release"}

OnSlot == (Scanning \ {"next"}) \union Replacing
            \union {"own", "write", "insert", "c_insert"}

\* The read/write set of x holds s for writing, and neither commit nor abort
\* has been through with it.
Pending(x, s) ==
  /\ rw_set[x][s] \notin {"NONE", "READ"}
  /\ pc[x] \in Finishing => s \in exec[x].todo

At(x, s, locations) == pc[x] \in locations /\ exec[x].cur = s

\* x owns s, a committed version older than x that x was the last to read.
Held(x, s) ==
  /\ header[s].txn = x /\ header[s].reader = x /\ header[s].begin < x
  /\ header[s].entry \in index

\* s is owned and the newest of its list: before its replacement is linked,
\* and after it has been unlinked.
Newest(x, s) ==
  /\ Held(x, s)
  /\ header[s].end = MAX_CID /\ header[s].prev = NULL
  /\ head[header[s].entry] = s

Linking(s) == header[s].prev \in Slot /\ header[header[s].prev].next = s

\* s is owned together with its replacement, at each stage of a commit up to
\* the release of the replacement, and of an abort up to its withdrawal.
Replaced(x, s) ==
  LET n == header[s].prev
  IN  /\ Held(x, s) /\ Linking(s)
      /\ header[n].txn = x /\ header[n].reader = 0 /\ header[n].prev = NULL
      /\ header[n].entry = header[s].entry
      /\ header[n].begin =
           IF At(x, s, {"c_end", "c_old", "c_new"}) THEN x ELSE MAX_CID
      /\ header[n].end =
           IF rw_set[x][s] = "DELETE" /\ ~ At(x, s, {"c_old", "c_new", "a_unlink"})
           THEN INVALID_CID ELSE MAX_CID
      /\ header[s].end = IF At(x, s, {"c_new"}) THEN x ELSE MAX_CID
      /\ head[header[s].entry] = IF At(x, s, {"a_unlink"}) THEN s ELSE n

\* s is still owned, its replacement is not any more.
Superseded(x, s) ==
  LET n == header[s].prev
  IN  /\ Held(x, s) /\ Linking(s)
      /\ header[s].end = x /\ header[n].begin = x
      /\ rw_set[x][s] = "DELETE" => header[n].txn = INVALID_TXN_ID

\* s is a tuple x inserted.
Inserted(x, s) ==
  /\ rw_set[x][s] \in {"INSERT", "INS_DEL"}
  /\ header[s].txn = x /\ header[s].reader = 0
  /\ header[s].next = NULL /\ header[s].prev = NULL
  /\ header[s].entry = s /\ s \in index /\ head[s] = s
  /\ header[s].begin = IF At(x, s, {"c_insert"}) THEN x ELSE MAX_CID
  /\ header[s].end = IF rw_set[x][s] = "INS_DEL" THEN INVALID_CID ELSE MAX_CID

Written(x, s) ==
  IF Writes(x, s)
  THEN IF At(x, s, {"c_release"}) THEN Superseded(x, s)
       ELSE IF At(x, s, {"a_release"}) THEN Newest(x, s) ELSE Replaced(x, s)
  ELSE Inserted(x, s)

\* A slot owned by x is in its read/write set, is the replacement of one that
\* is, or is the one x is about to replace.
Accounted(x, s) ==
  \/ Pending(x, s)
  \/ At(x, s, {"write"})
  \/ LET o == header[s].next
     IN  /\ o \in Slot /\ Pending(x, o) /\ Writes(x, o)
         /\ header[o].prev = s /\ ~ At(x, o, {"c_release", "a_release"})

WriterOK(x) ==
  /\ \A s \in Slot : Pending(x, s) => Written(x, s)
  /\ \A s \in Slot : header[s].txn = x => Accounted(x, s)
  /\ pc[x] = "write" => Newest(x, exec[x].cur)
  /\ pc[x] = "insert" =>
       /\ exec[x].cur \in index /\ head[exec[x].cur] = exec[x].cur
       /\ header[exec[x].cur] = EmptyHeader
       /\ \A y \in Txn \ {x} : pc[y] = "insert" => exec[y].cur # exec[x].cur
  /\ pc[x] \in Replacing => Pending(x, exec[x].cur) /\ Writes(x, exec[x].cur)
  /\ pc[x] = "c_insert" =>
       Pending(x, exec[x].cur) /\ rw_set[x][exec[x].cur] = "INSERT"
  /\ pc[x] = "c_end" => exec[x].cid = MAX_CID
  /\ pc[x] = "ended" => exec[x].todo = {}
  /\ \A s \in Slot : /\ rw_set[x][s] # "READ_OWN"
                     /\ rw_set[x][s] = "READ" => header[s].begin # MAX_CID
                     /\ TimestampsReads(x) \/ rw_set[x][s] \in {"NONE", "READ"}

\* A slot is untouched, or its fields fit together whoever is at work on it.
SlotOK(s) ==
  /\ header[s] = EmptyHeader \/ header[s].entry \in index
  /\ s >= next_slot => header[s] = EmptyHeader /\ s \notin index
  /\ header[s].txn = INITIAL_TXN_ID =>
       header[s].begin # MAX_CID /\ header[s].end # INVALID_CID
  /\ header[s].txn = INITIAL_TXN_ID /\ header[s].end = MAX_CID =>
       header[s].prev = NULL /\ head[header[s].entry] = s
  /\ header[s].txn = INVALID_TXN_ID /\ header[s].begin # MAX_CID =>
       header[s].end = MAX_CID /\ header[s].prev = NULL
  /\ header[s].end \notin {INVALID_CID, MAX_CID} =>
       /\ header[s].begin # MAX_CID /\ Linking(s)
       /\ header[header[s].prev].begin = header[s].end
  /\ header[s].begin \notin {LoadCid, MAX_CID} =>
       header[s].begin \in Txn /\ pc[header[s].begin] \in Committing \union {"ended"}
  /\ header[s].entry \notin {NULL, s} => header[header[s].entry].begin # MAX_CID
  /\ s \in index => head[s] \in Slot

\* Where a version ends by the list: where its replacement begins.
EndOf(s) ==
  IF header[s].prev \in Slot THEN header[header[s].prev].begin ELSE MAX_CID

ListOK(s, t) ==
  /\ s # t /\ header[s].entry = header[t].entry
  /\ header[s].begin # MAX_CID /\ header[t].begin # MAX_CID
  => EndOf(s) <= header[t].begin \/ EndOf(t) <= header[s].begin

\* Why a slot is in the garbage of y.
Garbage(y, s) ==
  \/ header[s].end = y
  \/ header[s].txn = INVALID_TXN_ID /\ header[s].begin = y
  \/ /\ header[s].txn = INVALID_TXN_ID /\ header[s].begin = MAX_CID
     /\ header[s].entry # NULL
  \/ pc[y] = "a_unlink" /\ s = header[exec[y].cur].prev

GarbageOK(y) ==
  \A s \in gc_set[y] : /\ Garbage(y, s)
                       /\ \A z \in Txn \ {y} : s \notin gc_set[z]

\* A row a scan of the writer x returned: x's own new version, or one whose
\* last reader is not before x.
Row(x, s) ==
  IF header[s].txn = x
  THEN header[s].begin = MAX_CID /\ header[s].end # INVALID_CID
  ELSE header[s].begin < x /\ header[s].reader >= x

Seen(x, s) ==
  /\ header[s].begin <= read_id[x]
  /\ header[s].txn # INVALID_TXN_ID
  /\ IF TimestampsReads(x) THEN header[s].reader >= x
     ELSE read_id[x] < header[s].end

\* What x has loaded of the header of s so far, against what is there now.
Loads(x, s) ==
  /\ pc[x] = "wire_end" => header[s].entry \in index
  /\ pc[x] \in {"vis_begin", "vis_end"} =>
       /\ exec[x].txn = x <=> header[s].txn = x
       /\ \/ TimestampsReads(x) \/ exec[x].txn = INVALID_TXN_ID
          \/ header[s].begin > read_id[x] \/ header[s].txn # INVALID_TXN_ID
  /\ pc[x] = "vis_end" =>
       exec[x].cid = header[s].begin \/ (exec[x].cid = MAX_CID /\ exec[x].txn # x)
  /\ pc[x] = "read" =>
       IF header[s].txn = x
       THEN header[s].begin = MAX_CID /\ header[s].end # INVALID_CID
       ELSE /\ header[s].begin <= read_id[x]
            /\ \/ TimestampsReads(x)
               \/ header[s].txn # INVALID_TXN_ID /\ read_id[x] < header[s].end
  /\ pc[x] = "own" =>
       /\ s \notin exec[x].rows /\ header[s].txn # x /\ Row(x, s)
       /\ header[s].end = MAX_CID \/ header[s].reader > x

\* The statement x is at.
StatementOK(x) ==
  /\ pc[x] \in OnRows =>
       /\ exec[x].stmt \in {"select", "update", "delete"}
       /\ TimestampsReads(x) \/ exec[x].stmt = "select"
  /\ pc[x] \in {"own", "write", "insert"} => TimestampsReads(x)
  /\ pc[x] \in {"own", "write"} => exec[x].stmt # "select" /\ ~ exec[x].mine
  /\ pc[x] \in OnSlot => exec[x].cur \in Slot
  /\ pc[x] \in Scanning /\ exec[x].scan = "index" => exec[x].todo \subseteq index
  /\ pc[x] # "read_own"

\* The timestamp x reads at.
ReadIdOK(x) ==
  /\ pc[x] = "idle" => returned[x] = {} /\ \A s \in Slot : rw_set[x][s] = "NONE"
  /\ pc[x] # "idle" /\ TimestampsReads(x) => read_id[x] = x
  /\ pc[x] # "idle" /\ ~ TimestampsReads(x) =>
       /\ read_id[x] \notin Txn /\ LoadCid < read_id[x] /\ read_id[x] < MAX_CID
       /\ \A y \in Txn : y < read_id[x] => pc[y] = "ended"

ReaderOK(x) ==
  /\ StatementOK(x) /\ ReadIdOK(x) /\ Loads(x, exec[x].cur)
  /\ pc[x] \in OnRows /\ TimestampsReads(x) => \A s \in exec[x].rows : Row(x, s)
  /\ \A s \in returned[x] : Seen(x, s)

IInv ==
  /\ TypeInv
  /\ \A x \in Txn : WriterOK(x) /\ ReaderOK(x) /\ GarbageOK(x)
  /\ \A s \in Slot : SlotOK(s)
  /\ \A s, t \in Slot : ListOK(s, t)
-----------------------------------------------------------------------------
(* What a step of a transaction may do to the store.                       *)

LEMMA TxnIds ==
  ASSUME NEW x \in Txn
  PROVE  /\ x \in Int /\ LoadCid < x /\ x < MAX_CID
         /\ MAX_CID \in Nat /\ MAX_CID \in Int
  BY CidAssumption

\* An identifier is none of the values a header holds instead of one.
LEMMA TxnNot ==
  ASSUME NEW x \in Txn
  PROVE  x # INVALID_TXN_ID /\ x # INITIAL_TXN_ID /\ x # MAX_CID
  BY TxnIds

LEMMA SlotNot ==
  ASSUME NEW s \in Slot
  PROVE  s # NULL
  OBVIOUS

\* The slot after the last one used.
LEMMA SlotNext ==
  ASSUME NEW s \in Slot
  PROVE  /\ s \in Int /\ s >= s /\ s + 1 \in Int /\ s <= s + 1
         /\ s < s + 1 /\ ~ (s >= s + 1) /\ s + 1 \in 1 .. (MaxSlot + 1)
  BY SizeAssumption

LEMMA SlotOrNull ==
  ASSUME NEW n \in 0 .. MaxSlot, n # NULL
  PROVE  n \in Slot
  OBVIOUS

LEMMA IdsDiffer == INVALID_TXN_ID # INITIAL_TXN_ID
  OBVIOUS

LEMMA HeaderFields ==
  ASSUME NEW h \in [Slot -> Headers], NEW s \in Slot
  PROVE  /\ h[s].txn \in Txn \union {INVALID_TXN_ID, INITIAL_TXN_ID}
         /\ h[s].txn \in Int /\ h[s].reader \in Int /\ h[s].begin \in Int
         /\ h[s].end \in Int /\ h[s].prev \in 0 .. MaxSlot
         /\ h[s].next \in 0 .. MaxSlot /\ h[s].entry \in 0 .. MaxSlot
         /\ 0 <= h[s].begin /\ h[s].begin <= MAX_CID
         /\ 0 <= h[s].end /\ h[s].end <= MAX_CID
         /\ 0 <= h[s].reader /\ h[s].reader <= MAX_CID
  <1>1. h[s] \in Headers
    BY Zenon
  <1>2. /\ h[s].txn \in Txn \union {0, 1} /\ h[s].reader \in 0 .. MAX_CID
        /\ h[s].begin \in 0 .. MAX_CID /\ h[s].end \in 0 .. MAX_CID
        /\ h[s].prev \in 0 .. MaxSlot /\ h[s].next \in 0 .. MaxSlot
        /\ h[s].entry \in 0 .. MaxSlot
    BY <1>1, Zenon DEF Headers
  <1>3. MAX_CID \in Int /\ \A v \in Txn \union {0, 1} : v \in Int
    BY CidAssumption
  <1>4. h[s].txn \in Int
    BY <1>2, <1>3, Zenon
  <1>5. h[s].reader \in Int /\ 0 <= h[s].reader /\ h[s].reader <= MAX_CID
    BY <1>2, <1>3
  <1>6. h[s].begin \in Int /\ 0 <= h[s].begin /\ h[s].begin <= MAX_CID
    BY <1>2, <1>3
  <1>7. h[s].end \in Int /\ 0 <= h[s].end /\ h[s].end <= MAX_CID
    BY <1>2, <1>3
  <1> QED
    BY <1>2, <1>4, <1>5, <1>6, <1>7, Zenon

LEMMA Fields ==
  ASSUME TypeInv, NEW s \in Slot
  PROVE  /\ header[s].txn \in Txn \union {INVALID_TXN_ID, INITIAL_TXN_ID}
         /\ header[s].txn \in Int /\ header[s].reader \in Int /\ header[s].begin \in Int
         /\ header[s].end \in Int /\ header[s].prev \in 0 .. MaxSlot
         /\ header[s].next \in 0 .. MaxSlot /\ header[s].entry \in 0 .. MaxSlot
         /\ 0 <= header[s].begin /\ header[s].begin <= MAX_CID
         /\ 0 <= header[s].end /\ header[s].end <= MAX_CID
         /\ 0 <= header[s].reader /\ header[s].reader <= MAX_CID
  BY HeaderFields, Zenon DEF TypeInv, TypeOK

LEMMA FieldsNext ==
  ASSUME TypeInv', NEW s \in Slot
  PROVE  /\ header'[s].txn \in Txn \union {INVALID_TXN_ID, INITIAL_TXN_ID}
         /\ header'[s].txn \in Int /\ header'[s].reader \in Int /\ header'[s].begin \in Int
         /\ header'[s].end \in Int /\ header'[s].prev \in 0 .. MaxSlot
         /\ header'[s].next \in 0 .. MaxSlot /\ header'[s].entry \in 0 .. MaxSlot
         /\ 0 <= header'[s].begin /\ header'[s].begin <= MAX_CID
         /\ 0 <= header'[s].end /\ header'[s].end <= MAX_CID
         /\ 0 <= header'[s].reader /\ header'[s].reader <= MAX_CID
  BY HeaderFields, Zenon DEF TypeInv, TypeOK

LEMMA ReadIds ==
  ASSUME TypeInv, NEW x \in Txn
  PROVE  read_id[x] \in Int
  BY CidAssumption DEF TypeInv, TypeOK

LEMMA Counter ==
  ASSUME TypeInv
  PROVE  next_slot \in Int
  BY DEF TypeInv, TypeOK

LEMMA CounterNext ==
  ASSUME TypeInv'
  PROVE  next_slot' \in Int
  BY DEF TypeInv, TypeOK

LEMMA Heads ==
  ASSUME IInv, NEW e \in index
  PROVE  head[e] \in Slot
  BY Zenon DEF IInv, SlotOK, TypeInv, TypeOK

LEMMA HeadMoved ==
  ASSUME NEW h \in [Slot -> 0 .. MaxSlot], NEW e \in Slot, NEW n \in Slot
  PROVE  /\ [h EXCEPT ![e] = n] \in [Slot -> 0 .. MaxSlot]
         /\ [h EXCEPT ![e] = n][e] = n
         /\ \A u \in Slot : u # e => [h EXCEPT ![e] = n][u] = h[u]
  OBVIOUS

LEMMA EmptyFields ==
  /\ EmptyHeader.txn = INVALID_TXN_ID /\ EmptyHeader.begin = MAX_CID
  /\ EmptyHeader.end = MAX_CID /\ EmptyHeader.prev = NULL
  /\ EmptyHeader.next = NULL /\ EmptyHeader.reader = 0
  /\ EmptyHeader.entry = NULL
  BY Zenon DEF EmptyHeader

LinksKept(s) ==
  header'[s].next = header[s].next /\ header'[s].entry = header[s].entry

\* A free version is read, or acquired if nobody has superseded it.
FreeStep(x, s) ==
  /\ header[s].txn = INITIAL_TXN_ID /\ LinksKept(s)
  /\ header'[s].begin = header[s].begin /\ header'[s].end = header[s].end
  /\ header'[s].prev = header[s].prev
  /\ header'[s].reader >= header[s].reader
  /\ \/ header'[s].txn = INITIAL_TXN_ID
     \/ header'[s].txn = x /\ header[s].end = MAX_CID

\* The owner begins the new version, ends the old one once and for all, or
\* lets go of either.
OwnStep(x, s) ==
  /\ header[s].txn = x /\ TimestampsReads(x) /\ LinksKept(s)
  /\ header'[s].reader = header[s].reader
  /\ \/ header'[s].begin = header[s].begin
     \/ header[s].begin = MAX_CID /\ header'[s].begin = x /\ header'[s].txn = x
  /\ header[s].end \in {INVALID_CID, MAX_CID, x}
  /\ \/ header'[s].end = header[s].end
     \/ header[s].end # x /\ header'[s].end = MAX_CID
     \/ header[s].end # x /\ header'[s].end = INVALID_CID /\ header[s].begin = MAX_CID
     \/ header'[s].end = x /\ header[s].reader = x
  /\ header'[s].txn \in {x, INITIAL_TXN_ID, INVALID_TXN_ID}
  /\ header'[s].txn = INVALID_TXN_ID =>
       header[s].reader = 0 /\ header[s].begin \in {x, MAX_CID}

\* A slot nobody has used becomes an uncommitted version.
NewStep(x, s) ==
  /\ header[s] = EmptyHeader
  /\ s >= next_slot \/ At(x, s, {"insert"})
  /\ header'[s].txn = x /\ header'[s].begin = MAX_CID /\ header'[s].reader = 0

StoreStep(x) ==
  /\ \A s \in Slot : \/ header'[s] = header[s]
                     \/ FreeStep(x, s) \/ OwnStep(x, s) \/ NewStep(x, s)
  /\ \A e \in index : \/ head'[e] = head[e]
                      \/ head[e] \in Slot /\ header[head[e]].txn = x
  /\ index \subseteq index' /\ next_slot \in Int /\ next_slot' \in Int
  /\ next_slot <= next_slot'
  /\ \A e \in index' : head'[e] \in Slot /\ (e < next_slot' \/ e \in index)

\* What a step of x leaves alone of the others, and how x itself goes on.
ControlStep(x) ==
  /\ \A y \in Txn \ {x} :
       /\ pc'[y] = pc[y] /\ exec'[y] = exec[y] /\ read_id'[y] = read_id[y]
       /\ rw_set'[y] = rw_set[y] /\ gc_set'[y] = gc_set[y]
       /\ returned'[y] = returned[y]
  /\ pc[x] # "ended" /\ pc'[x] # "idle"
  /\ pc[x] \in Committing => pc'[x] \in Committing \union {"ended"}
  /\ pc'[x] = "insert" => pc[x] # "insert" /\ exec'[x].cur >= next_slot

Step(x) == StoreStep(x) /\ ControlStep(x)

\* No step takes a slot from its owner, changes when a version begins, or
\* forgets a reader.
LEMMA SlotSteps ==
  ASSUME TypeInv, NEW x \in Txn, StoreStep(x), NEW s \in Slot
  PROVE  /\ \A y \in Txn \ {x} : header[s].txn = y => header'[s] = header[s]
         /\ \A y \in Txn \ {x} : header'[s].txn = y => header[s].txn = y
         /\ header[s].begin # MAX_CID => header'[s].begin = header[s].begin
         /\ header[s].begin = MAX_CID => header'[s].begin \in {x, MAX_CID}
         /\ header[s].begin # MAX_CID => LinksKept(s)
         /\ header[s].entry # NULL => LinksKept(s)
         /\ header[s].begin # MAX_CID => header'[s].reader >= header[s].reader
         /\ header[s].txn = INVALID_TXN_ID /\ header[s] # EmptyHeader =>
              header'[s] = header[s]
  <1> USE DEF LinksKept
  <1>1. /\ header[s].txn \in Txn \union {0, 1} /\ header[s].reader \in Int
        /\ x \in Int /\ 2 < x
    BY TxnIds, Fields, Zenon
  <1>2. CASE header'[s] = header[s]
    BY <1>1, <1>2
  <1>3. CASE FreeStep(x, s)
    BY <1>1, <1>3, TxnIds DEF FreeStep
  <1>4. CASE OwnStep(x, s)
    BY <1>1, <1>4, TxnIds DEF OwnStep
  <1>5. CASE NewStep(x, s)
    BY <1>1, <1>5, EmptyFields, TxnIds DEF NewStep
  <1> QED
    BY <1>2, <1>3, <1>4, <1>5, ZenonT(30) DEF StoreStep

LEMMA CounterGrows ==
  ASSUME NEW x, StoreStep(x), NEW t \in Slot, t >= next_slot'
  PROVE  t >= next_slot
  BY DEF StoreStep

\* A superseded version stays superseded by the same transaction.
LEMMA EndKept ==
  ASSUME TypeInv, NEW x \in Txn, StoreStep(x), NEW s \in Slot, NEW y \in Txn,
         header[s].end = y
  PROVE  header'[s].end = header[s].end
  <1>1. y # MAX_CID
    BY TxnNot, Zenon
  <1>2. CASE NewStep(x, s)
    BY <1>1, <1>2, EmptyFields, Zenon DEF NewStep
  <1>3. CASE OwnStep(x, s)
    <2>1. y # INVALID_CID
      BY TxnIds
    <2> QED
      BY <1>1, <1>3, <2>1, Zenon DEF OwnStep
  <1> QED
    BY <1>2, <1>3, Zenon DEF StoreStep, FreeStep

\* What x has been given stays what it was when others work.
LEMMA SeenKept ==
  ASSUME IInv, TypeInv', NEW x \in Txn, Step(x), NEW y \in Txn, NEW s \in Slot,
         Seen(y, s), pc[y] # "idle", read_id'[y] = read_id[y]
  PROVE  Seen(y, s)'
  <1> TypeInv
    BY Zenon DEF IInv
  <1>0. /\ header'[s].txn \in Int /\ header'[s].reader \in Int
        /\ header'[s].end \in Int
    BY FieldsNext, Zenon
  <1>1. /\ header[s].txn \in Txn \union {0, 1} /\ header[s].reader \in Int
        /\ header[s].begin \in Int /\ header[s].end \in Int
        /\ x \in Int /\ 2 < x /\ x < MAX_CID /\ y \in Int /\ 2 < y /\ y < MAX_CID
        /\ MAX_CID \in Int /\ read_id[y] \in Int
    BY TxnIds, Fields, ReadIds, Zenon DEF IInv
  <1>2. header[s].begin # MAX_CID
    BY <1>1 DEF Seen, IInv, ReaderOK, ReadIdOK
  <1>3. ~ TimestampsReads(y) => read_id[y] < x
    BY <1>1 DEF IInv, ReaderOK, ReadIdOK, Step, ControlStep
  <1>4. header'[s].begin = header[s].begin /\ header'[s].reader >= header[s].reader
    BY <1>2, SlotSteps, Zenon DEF IInv, Step
  <1>5. CASE header'[s] = header[s]
    BY <1>1, <1>5, Zenon DEF Seen
  <1>6. CASE FreeStep(x, s)
    BY <1>0, <1>1, <1>4, <1>6 DEF Seen, FreeStep
  <1>7. CASE OwnStep(x, s)
    <2>1. header'[s].txn # 0
      BY <1>1, <1>3, <1>7 DEF Seen, OwnStep
    <2>2. ~ TimestampsReads(y) => read_id[y] < header'[s].end
      BY <1>1, <1>2, <1>3, <1>7 DEF Seen, OwnStep
    <2> QED
      BY <1>1, <1>4, <1>7, <2>1, <2>2, Zenon DEF Seen, OwnStep
  <1>8. CASE NewStep(x, s)
    BY <1>2, <1>8, EmptyFields, Zenon DEF NewStep
  <1> QED
    BY <1>5, <1>6, <1>7, <1>8, Zenon DEF Step, StoreStep

LEMMA RowKept ==
  ASSUME IInv, TypeInv', NEW x \in Txn, Step(x), NEW y \in Txn \ {x},
         NEW s \in Slot, Row(y, s)
  PROVE  Row(y, s)'
  <1>1. /\ y \in Int /\ y < MAX_CID /\ MAX_CID \in Int /\ header[s].reader \in Int
    BY TxnIds, Fields, ReadIds, Zenon DEF IInv
  <1>2. CASE header[s].txn = y
    BY <1>2, SlotSteps, Zenon DEF Row, IInv, Step
  <1>3. CASE header[s].txn # y
    <2>1. header[s].begin # MAX_CID /\ header[s].begin < y /\ header[s].reader >= y
      BY <1>1, <1>3 DEF Row
    <2>2. /\ header'[s].txn # y /\ header'[s].begin = header[s].begin
          /\ header'[s].reader >= header[s].reader
      BY <1>3, <2>1, SlotSteps, Zenon DEF IInv, Step
    <2>3. header'[s].reader \in Int
      BY FieldsNext, Zenon
    <2> QED
      BY <1>1, <2>1, <2>2, <2>3 DEF Row
  <1> QED
    BY <1>2, <1>3, Zenon

\* What x has loaded of a header stays true while others work on it.
LEMMA LoadsKept ==
  ASSUME IInv, TypeInv', NEW x \in Txn, Step(x), NEW y \in Txn \ {x},
         exec[y].cur \in Slot
  PROVE  Loads(y, exec[y].cur)'
  <1> PICK s \in Slot : s = exec[y].cur
    BY Zenon
  <1> TypeInv /\ ReaderOK(y) /\ Loads(y, s) /\ ReadIdOK(y)
    BY ZenonT(30) DEF IInv, ReaderOK
  <1>1. exec'[y] = exec[y] /\ pc'[y] = pc[y] /\ read_id'[y] = read_id[y]
    BY Zenon DEF Step, ControlStep
  <1>2. /\ header[s].txn \in Txn \union {0, 1} /\ header[s].reader \in Int
        /\ header[s].begin \in Int /\ header[s].end \in Int
        /\ header[s].begin <= MAX_CID
    BY Fields, Zenon
  <1>3. /\ x \in Int /\ 2 < x /\ x < MAX_CID /\ y \in Int /\ 2 < y /\ y < MAX_CID
        /\ MAX_CID \in Int /\ read_id[y] \in Int
    BY TxnIds, ReadIds, Zenon
  <1>4. ~ TimestampsReads(y) /\ pc[y] # "idle" => read_id[y] < x
    BY <1>3 DEF ReadIdOK, Step, ControlStep
  <1>5. pc[y] # "idle" => read_id[y] < MAX_CID
    BY <1>3, Zenon DEF ReadIdOK
  <1>6. /\ header'[s].reader \in Int /\ header'[s].end \in Int
        /\ header'[s].begin \in Int
    BY FieldsNext, Zenon
  <1>7. /\ header'[s].txn = y <=> header[s].txn = y
        /\ header[s].txn = y => header'[s] = header[s]
        /\ header[s].begin # MAX_CID => header'[s].begin = header[s].begin
        /\ header[s].begin = MAX_CID => header'[s].begin \in {x, MAX_CID}
        /\ header[s].entry # NULL => header'[s].entry = header[s].entry
        /\ header[s].begin # MAX_CID => header'[s].reader >= header[s].reader
    BY SlotSteps, Zenon DEF Step, LinksKept
  <1>8. /\ header[s].txn # 0 /\ header'[s].txn = 0 => header[s].begin \in {x, MAX_CID}
                                                   /\ header'[s].begin = header[s].begin
        /\ header[s].begin # MAX_CID => \/ header'[s].end = header[s].end
                                        \/ header'[s].end = MAX_CID
                                        \/ header'[s].end = x /\ header[s].reader = x
    <2>1. CASE header'[s] = header[s]
      BY <2>1, Zenon
    <2>2. CASE FreeStep(x, s)
      BY <2>2, IdsDiffer, TxnNot, Zenon DEF FreeStep
    <2>3. CASE OwnStep(x, s)
      BY <2>3, TxnNot, Zenon DEF OwnStep
    <2>4. CASE NewStep(x, s)
      BY <2>4, EmptyFields, Zenon DEF NewStep
    <2> QED
      BY <2>1, <2>2, <2>3, <2>4, Zenon DEF Step, StoreStep
  <1>a. (pc[y] = "wire_end" => header[s].entry \in index)'
    <2>1. 0 \notin index /\ index \subseteq index'
      BY SMTT(30) DEF Step, StoreStep, TypeInv, TypeOK
    <2> QED
      BY <1>1, <1>7, <2>1, ZenonT(30) DEF Loads
  <1>b. (pc[y] \in {"vis_begin", "vis_end"} =>
          /\ exec[y].txn = y <=> header[s].txn = y
          /\ \/ TimestampsReads(y) \/ exec[y].txn = INVALID_TXN_ID
             \/ header[s].begin > read_id[y] \/ header[s].txn # INVALID_TXN_ID)'
    BY <1>1, <1>2, <1>3, <1>4, <1>5, <1>7, <1>8, Zenon DEF Loads
  <1>c. (pc[y] = "vis_end" =>
          exec[y].cid = header[s].begin \/ (exec[y].cid = MAX_CID /\ exec[y].txn # y))'
    <2>1. CASE header[s].begin # MAX_CID
      BY <1>1, <1>7, <2>1, ZenonT(30) DEF Loads
    <2>2. CASE header[s].begin = MAX_CID /\ header'[s].begin = MAX_CID
      BY <1>1, <2>2, Zenon DEF Loads
    <2>3. CASE header[s].begin = MAX_CID /\ header'[s].begin # MAX_CID
      BY <1>1, <1>7, <2>3, Zenon DEF Loads
    <2> QED
      BY <2>1, <2>2, <2>3, Zenon
  <1>d. (pc[y] = "read" =>
          IF header[s].txn = y
          THEN header[s].begin = MAX_CID /\ header[s].end # INVALID_CID
          ELSE /\ header[s].begin <= read_id[y]
               /\ \/ TimestampsReads(y)
                  \/ header[s].txn # INVALID_TXN_ID /\ read_id[y] < header[s].end)'
    <2> SUFFICES ASSUME pc[y] = "read"
                 PROVE  (IF header[s].txn = y
                         THEN header[s].begin = MAX_CID /\ header[s].end # INVALID_CID
                         ELSE /\ header[s].begin <= read_id[y]
                              /\ \/ TimestampsReads(y)
                                 \/ /\ header[s].txn # INVALID_TXN_ID
                                    /\ read_id[y] < header[s].end)'
      BY <1>1, Zenon
    <2>1. IF header[s].txn = y
          THEN header[s].begin = MAX_CID /\ header[s].end # INVALID_CID
          ELSE /\ header[s].begin <= read_id[y]
               /\ \/ TimestampsReads(y)
                  \/ header[s].txn # INVALID_TXN_ID /\ read_id[y] < header[s].end
      BY Zenon DEF Loads
    <2>2. CASE header[s].txn = y
      BY <1>7, <2>1, <2>2, Zenon
    <2>3. CASE header[s].txn # y
      <3>1. header[s].begin <= read_id[y] /\ read_id[y] < MAX_CID
        BY <1>5, <2>1, <2>3, Zenon
      <3>2. header[s].begin # MAX_CID
        BY ONLY <1>2, <1>3, <3>1
      <3>3. header'[s].begin = header[s].begin /\ header'[s].txn # y
        BY <1>7, <2>3, <3>2, Zenon
      <3>4. CASE TimestampsReads(y)
        BY <1>1, <3>1, <3>3, <3>4, Zenon
      <3>5. CASE ~ TimestampsReads(y)
        <4>1. /\ read_id[y] < x /\ header[s].txn # 0 /\ read_id[y] < header[s].end
              /\ \/ header'[s].end = header[s].end
                 \/ header'[s].end = MAX_CID \/ header'[s].end = x
          BY <1>4, <1>8, <2>1, <2>3, <3>2, <3>5, Zenon
        <4>2. read_id[y] < header'[s].end
          BY <3>1, <4>1, Zenon
        <4>3. header[s].begin # x
          BY ONLY <1>2, <1>3, <3>1, <4>1
        <4>4. header'[s].txn # 0
          BY <1>8, <3>2, <4>1, <4>3, Zenon
        <4> QED
          BY <1>1, <3>1, <3>3, <4>2, <4>4, Zenon
      <3> QED
        BY <3>4, <3>5, Zenon
    <2> QED
      BY <2>2, <2>3, Zenon
  <1>e. (pc[y] = "own" =>
          /\ s \notin exec[y].rows /\ header[s].txn # y /\ Row(y, s)
          /\ header[s].end = MAX_CID \/ header[s].reader > y)'
    <2> SUFFICES ASSUME pc[y] = "own"
                 PROVE  (/\ s \notin exec[y].rows /\ header[s].txn # y /\ Row(y, s)
                         /\ header[s].end = MAX_CID \/ header[s].reader > y)'
      BY <1>1, ZenonT(30)
    <2>1. /\ s \notin exec[y].rows /\ header[s].txn # y /\ Row(y, s)
          /\ header[s].end = MAX_CID \/ header[s].reader > y
      BY ZenonT(30) DEF Loads
    <2>2. Row(y, s)'
      BY <2>1, RowKept, ZenonT(30)
    <2>3. header[s].begin # MAX_CID /\ header[s].reader >= y
      BY <1>3, <2>1 DEF Row
    <2>4. (header[s].end = MAX_CID \/ header[s].reader > y)'
      BY ONLY <1>2, <1>3, <1>6, <1>7, <1>8, <2>1, <2>3
    <2> QED
      BY <1>1, <1>7, <2>1, <2>2, <2>4, Zenon
  <1> QED
    BY <1>1, <1>a, <1>b, <1>c, <1>d, <1>e, ZenonT(30) DEF Loads

LEMMA ReaderKept ==
  ASSUME IInv, TypeInv', NEW x \in Txn, Step(x), NEW y \in Txn \ {x}
  PROVE  ReaderOK(y)'
  <1> TypeInv /\ ReaderOK(y) /\ StatementOK(y) /\ ReadIdOK(y)
    BY Zenon DEF IInv, ReaderOK
  <1>1. /\ exec'[y] = exec[y] /\ pc'[y] = pc[y] /\ read_id'[y] = read_id[y]
        /\ returned'[y] = returned[y] /\ rw_set'[y] = rw_set[y]
    BY Zenon DEF Step, ControlStep
  <1>2. StatementOK(y)'
    BY <1>1, ZenonT(30) DEF StatementOK, Step, StoreStep
  <1>3. ReadIdOK(y)'
    <2>1. \A z \in Txn : pc[z] = "ended" => pc'[z] = "ended"
      BY Zenon DEF Step, ControlStep
    <2> QED
      BY <1>1, <2>1, Zenon DEF ReadIdOK
  <1>4. Loads(y, exec[y].cur)'
    <2>1. CASE exec[y].cur \in Slot
      BY <2>1, LoadsKept, Zenon
    <2>2. CASE exec[y].cur \notin Slot
      BY <1>1, <2>2, ZenonT(30) DEF Loads, StatementOK, Scanning, OnSlot
    <2> QED
      BY <2>1, <2>2, Zenon
  <1>5. (pc[y] \in OnRows /\ TimestampsReads(y) => \A s \in exec[y].rows : Row(y, s))'
    <2> SUFFICES ASSUME pc[y] \in OnRows, TimestampsReads(y), NEW s \in exec[y].rows
                 PROVE  Row(y, s)'
      BY <1>1, Zenon
    <2>1. s \in Slot
      BY Zenon DEF TypeInv, Execs
    <2> QED
      BY <2>1, RowKept, Zenon DEF ReaderOK
  <1>6. (\A s \in returned[y] : Seen(y, s))'
    <2> SUFFICES ASSUME NEW s \in returned[y]
                 PROVE  Seen(y, s)'
      BY <1>1, Zenon
    <2>1. s \in Slot /\ pc[y] # "idle"
      BY Zenon DEF TypeInv, TypeOK, ReadIdOK
    <2> QED
      BY <1>1, <2>1, SeenKept, Zenon DEF ReaderOK
  <1> QED
    BY <1>2, <1>3, <1>4, <1>5, <1>6, ZenonT(30) DEF ReaderOK

\* The slots a transaction owns stay as they are when others work, and the
\* index entry goes on leading to them.
LEMMA WrittenKept ==
  ASSUME IInv, NEW x \in Txn, Step(x), NEW y \in Txn \ {x}, NEW s \in Slot,
         Written(y, s)
  PROVE  Written(y, s)'
  <1> TypeInv /\ StoreStep(x)
    BY Zenon DEF IInv, Step
  <1>1. exec'[y] = exec[y] /\ pc'[y] = pc[y] /\ rw_set'[y] = rw_set[y]
    BY Zenon DEF Step, ControlStep
  <1>2. \A t \in Slot : header[t].txn = y => header'[t] = header[t]
    BY SlotSteps, Zenon
  <1>3. \A e \in index : /\ e \in index'
                         /\ head[e] \in Slot /\ header[head[e]].txn = y => head'[e] = head[e]
    BY Zenon DEF StoreStep
  <1>4. /\ \A L : At(y, s, L) <=> At(y, s, L)'
        /\ Writes(y, s) <=> Writes(y, s)'
    BY <1>1, Zenon DEF At, Writes
  <1>5. ASSUME Held(y, s)
        PROVE  Held(y, s)' /\ header'[s] = header[s]
    BY <1>2, <1>3, <1>5, Zenon DEF Held
  <1>6. ASSUME Held(y, s), Linking(s), header[header[s].prev].begin # MAX_CID
        PROVE  Linking(s)' /\ header'[header[s].prev].begin = header[header[s].prev].begin
    BY <1>5, <1>6, SlotSteps DEF Linking, LinksKept
  <1>7. ASSUME Newest(y, s)
        PROVE  Newest(y, s)'
    BY <1>3, <1>5, <1>7, ZenonT(30) DEF Newest, Held
  <1>8. ASSUME Superseded(y, s)
        PROVE  Superseded(y, s)'
    <2>1. header[s].prev \in Slot /\ y < MAX_CID /\ y \in Int
      BY <1>8, TxnIds, Zenon DEF Superseded, Linking
    <2>2. header[header[s].prev] # EmptyHeader /\ header[header[s].prev].begin # MAX_CID
      BY <1>8, <2>1, EmptyFields DEF Superseded
    <2>3. header[header[s].prev].txn = 0 => header'[header[s].prev].txn = 0
      BY <2>1, <2>2, SlotSteps, Zenon
    <2> QED
      BY <1>1, <1>5, <1>6, <1>8, <2>2, <2>3, Zenon DEF Superseded
  <1>9. ASSUME Replaced(y, s)
        PROVE  Replaced(y, s)'
    <2>1. /\ Held(y, s) /\ Linking(s) /\ header[s].prev \in Slot
          /\ header[header[s].prev].txn = y
      BY <1>9, Zenon DEF Replaced, Linking
    <2>2. header'[s] = header[s] /\ header'[header[s].prev] = header[header[s].prev]
      BY <1>2, <1>5, <2>1, Zenon
    <2>3. head'[header[s].entry] = head[header[s].entry]
      BY <1>3, <1>9, <2>1, ZenonT(30) DEF Replaced, Held
    <2>4. Linking(s)'
      BY <2>1, <2>2, Zenon DEF Linking
    <2> QED
      BY <1>1, <1>4, <1>5, <1>9, <2>1, <2>2, <2>3, <2>4, Zenon DEF Replaced
  <1>10. ASSUME Inserted(y, s)
         PROVE  Inserted(y, s)'
    BY <1>1, <1>2, <1>3, <1>4, <1>10, Zenon DEF Inserted
  <1> QED
    BY <1>4, <1>7, <1>8, <1>9, <1>10, Zenon DEF Written

LEMMA WriterKept ==
  ASSUME IInv, NEW x \in Txn, Step(x), NEW y \in Txn \ {x}
  PROVE  WriterOK(y)'
  <1> TypeInv /\ WriterOK(y) /\ StoreStep(x) /\ WriterOK(x)
    BY Zenon DEF IInv, Step
  <1>1. exec'[y] = exec[y] /\ pc'[y] = pc[y] /\ rw_set'[y] = rw_set[y]
    BY Zenon DEF Step, ControlStep
  <1>2. \A s : /\ Pending(y, s) <=> Pending(y, s)'
               /\ Writes(y, s) <=> Writes(y, s)'
    BY <1>1, Zenon DEF Pending, Writes
  <1>3. \A s, L : At(y, s, L) <=> At(y, s, L)'
    BY <1>1, Zenon DEF At
  <1>4. (\A s \in Slot : Pending(y, s) => Written(y, s))'
    BY <1>2, WrittenKept, ZenonT(30) DEF WriterOK
  <1>5. (\A s \in Slot : header[s].txn = y => Accounted(y, s))'
    <2> SUFFICES ASSUME NEW s \in Slot, header'[s].txn = y
                 PROVE  Accounted(y, s)'
      BY Zenon
    <2>1. header[s].txn = y /\ header'[s] = header[s]
      BY SlotSteps, ZenonT(30)
    <2>2. CASE Pending(y, s) \/ At(y, s, {"write"})
      BY <1>2, <1>3, <2>2, Zenon DEF Accounted
    <2>3. CASE \E o \in Slot : /\ o = header[s].next /\ Pending(y, o) /\ Writes(y, o)
                               /\ header[o].prev = s
                               /\ ~ At(y, o, {"c_release", "a_release"})
      <3>1. PICK o \in Slot : /\ o = header[s].next /\ Pending(y, o) /\ Writes(y, o)
                              /\ header[o].prev = s
                              /\ ~ At(y, o, {"c_release", "a_release"})
        BY <2>3, Zenon
      <3>2. Replaced(y, o)
        BY <3>1, ZenonT(30) DEF WriterOK, Written, At
      <3>3. header'[o] = header[o]
        BY <3>2, SlotSteps, Zenon DEF Replaced, Held
      <3> QED
        BY <1>2, <1>3, <2>1, <3>1, <3>3, ZenonT(30) DEF Accounted
    <2> QED
      BY <2>1, <2>2, <2>3, Zenon DEF WriterOK, Accounted
  <1>6. (pc[y] = "write" => Newest(y, exec[y].cur))'
    <2> SUFFICES ASSUME pc[y] = "write"
                 PROVE  Newest(y, exec[y].cur)'
      BY <1>1, Zenon
    <2>1. exec[y].cur \in Slot
      BY Zenon DEF IInv, ReaderOK, StatementOK, OnSlot
    <2>2. Newest(y, exec[y].cur)
      BY Zenon DEF WriterOK
    <2>3. header'[exec[y].cur] = header[exec[y].cur]
      BY <2>1, <2>2, SlotSteps, Zenon DEF Newest, Held
    <2> QED
      BY <1>1, <2>1, <2>2, <2>3, ZenonT(30) DEF Newest, Held, StoreStep
  <1>7. (pc[y] = "insert" =>
          /\ exec[y].cur \in index /\ head[exec[y].cur] = exec[y].cur
          /\ header[exec[y].cur] = EmptyHeader
          /\ \A z \in Txn \ {y} : pc[z] = "insert" => exec[z].cur # exec[y].cur)'
    <2> SUFFICES ASSUME pc[y] = "insert"
                 PROVE  (/\ exec[y].cur \in index /\ head[exec[y].cur] = exec[y].cur
                         /\ header[exec[y].cur] = EmptyHeader
                         /\ \A z \in Txn \ {y} : pc[z] = "insert" => exec[z].cur # exec[y].cur)'
      BY <1>1, Zenon
    <2>1. PICK c \in Slot : c = exec[y].cur
      BY Zenon DEF IInv, ReaderOK, StatementOK, OnSlot
    <2>2. /\ c \in index /\ head[c] = c /\ header[c] = EmptyHeader
          /\ \A z \in Txn \ {y} : pc[z] = "insert" => exec[z].cur # c
      BY <2>1, Zenon DEF WriterOK
    <2>3. ~ (c >= next_slot)
      BY <2>2, Zenon DEF IInv, SlotOK
    <2>4. header'[c] = EmptyHeader
      <3>1. header[c].txn = 0 /\ x # 0 /\ x # 1
        BY <2>2, EmptyFields, TxnIds
      <3>3. ~ FreeStep(x, c) /\ ~ OwnStep(x, c)
        BY <3>1, IdsDiffer, Zenon DEF FreeStep, OwnStep
      <3>4. ~ NewStep(x, c)
        BY <2>2, <2>3, Zenon DEF NewStep, At
      <3> QED
        BY <2>2, <3>3, <3>4, Zenon DEF StoreStep
    <2>5. c \in index' /\ head'[c] = c
      <3>1. header[c].txn # x
        BY <2>2, EmptyFields, TxnNot, Zenon
      <3> QED
        BY <2>2, <3>1, Zenon DEF StoreStep
    <2>6. \A z \in Txn \ {y} : pc'[z] = "insert" => exec'[z].cur # c
      <3> SUFFICES ASSUME NEW z \in Txn \ {y}, pc'[z] = "insert"
                   PROVE  exec'[z].cur # c
        BY Zenon
      <3>1. CASE z = x
        BY <2>3, <3>1, Zenon DEF Step, ControlStep
      <3>2. CASE z # x
        BY <2>2, <3>2, Zenon DEF Step, ControlStep
      <3> QED
        BY <3>1, <3>2, Zenon
    <2> QED
      BY <1>1, <2>1, <2>4, <2>5, <2>6, Zenon
  <1>8. (\A s \in Slot : /\ rw_set[y][s] # "READ_OWN"
                         /\ rw_set[y][s] = "READ" => header[s].begin # MAX_CID
                         /\ TimestampsReads(y) \/ rw_set[y][s] \in {"NONE", "READ"})'
    <2> SUFFICES ASSUME NEW s \in Slot
                 PROVE  (/\ rw_set[y][s] # "READ_OWN"
                         /\ rw_set[y][s] = "READ" => header[s].begin # MAX_CID
                         /\ TimestampsReads(y) \/ rw_set[y][s] \in {"NONE", "READ"})'
      BY Zenon DEF TimestampsReads
    <2>1. rw_set'[y] = rw_set[y]
      BY <1>1, Zenon
    <2>2. header[s].begin # MAX_CID => header'[s].begin = header[s].begin
      BY SlotSteps, Zenon
    <2>3. /\ rw_set[y][s] # "READ_OWN"
          /\ rw_set[y][s] = "READ" => header[s].begin # MAX_CID
          /\ TimestampsReads(y) \/ rw_set[y][s] \in {"NONE", "READ"}
      BY Zenon DEF WriterOK
    <2> QED
      BY <2>1, <2>2, <2>3, Zenon DEF TimestampsReads
  <1> QED
    BY <1>1, <1>2, <1>4, <1>5, <1>6, <1>7, <1>8, Zenon DEF WriterOK

\* A slot a step does not touch still fits to what it is linked with.
LEMMA SlotKept ==
  ASSUME IInv, TypeInv', NEW x \in Txn, Step(x), NEW t \in Slot,
         header'[t] = header[t]
  PROVE  SlotOK(t)'
  <1> TypeInv /\ SlotOK(t) /\ StoreStep(x) /\ ControlStep(x)
    BY Zenon DEF IInv, Step
  <1>0. /\ header[t].txn \in Txn \union {0, 1} /\ header[t].prev \in 0 .. MaxSlot
        /\ header[t].entry \in 0 .. MaxSlot
    BY Fields, Zenon
  <1>1. (header[t] = EmptyHeader \/ header[t].entry \in index)'
    BY Zenon DEF SlotOK, StoreStep
  <1>2. (t >= next_slot => header[t] = EmptyHeader /\ t \notin index)'
    <2> SUFFICES ASSUME t >= next_slot'
                 PROVE  (header[t] = EmptyHeader /\ t \notin index)'
      BY Zenon
    <2>1. t >= next_slot
      BY CounterGrows, Zenon
    <2>2. t \in index' => ~ (t >= next_slot') \/ t \in index
      <3>1. (t \in index' => t < next_slot' \/ t \in index) /\ next_slot' \in Int
        BY Zenon DEF StoreStep
      <3>2. t \in Int
        BY SlotNext, Zenon
      <3> QED
        BY ONLY <3>1, <3>2
    <2> QED
      BY <2>1, <2>2, Zenon DEF SlotOK
  <1>3. (header[t].txn = INITIAL_TXN_ID =>
          header[t].begin # MAX_CID /\ header[t].end # INVALID_CID)'
    BY ZenonT(30) DEF SlotOK
  <1>4. (header[t].txn = INITIAL_TXN_ID /\ header[t].end = MAX_CID =>
          header[t].prev = NULL /\ head[header[t].entry] = t)'
    <2> SUFFICES ASSUME header[t].txn = INITIAL_TXN_ID, header[t].end = MAX_CID
                 PROVE  header[t].prev = NULL /\ head'[header[t].entry] = t
      BY Zenon
    <2>1. header[t].prev = NULL /\ head[header[t].entry] = t
      BY Zenon DEF SlotOK
    <2>2. header[t].entry \in index
      BY EmptyFields, IdsDiffer, Zenon DEF SlotOK
    <2>3. header[t].txn # x
      BY TxnNot, Zenon
    <2> QED
      BY <2>1, <2>2, <2>3, Zenon DEF StoreStep
  <1>5. (header[t].txn = INVALID_TXN_ID /\ header[t].begin # MAX_CID =>
          header[t].end = MAX_CID /\ header[t].prev = NULL)'
    BY ZenonT(30) DEF SlotOK
  <1>6. (header[t].end \notin {INVALID_CID, MAX_CID} =>
          /\ header[t].begin # MAX_CID /\ Linking(t)
          /\ header[header[t].prev].begin = header[t].end)'
    <2> SUFFICES ASSUME header[t].end \notin {INVALID_CID, MAX_CID}
                 PROVE  /\ header[t].begin # MAX_CID /\ header[t].prev \in Slot
                        /\ header'[header[t].prev].next = t
                        /\ header'[header[t].prev].begin = header[t].end
      BY Zenon DEF Linking
    <2>1. /\ header[t].begin # MAX_CID /\ header[t].prev \in Slot
          /\ header[header[t].prev].next = t /\ header[t].end # MAX_CID
          /\ header[header[t].prev].begin = header[t].end
      BY Zenon DEF SlotOK, Linking
    <2> QED
      BY <2>1, SlotSteps, Zenon DEF LinksKept
  <1>7. (header[t].begin \notin {LoadCid, MAX_CID} =>
          header[t].begin \in Txn /\ pc[header[t].begin] \in Committing \union {"ended"})'
    BY ZenonT(30) DEF SlotOK, ControlStep
  <1>8. (header[t].entry \notin {NULL, t} => header[header[t].entry].begin # MAX_CID)'
    <2> SUFFICES ASSUME header[t].entry \notin {0, t}
                 PROVE  header'[header[t].entry].begin # MAX_CID
      BY ZenonT(30)
    <2>1. header[t].entry \in Slot /\ header[header[t].entry].begin # MAX_CID
      BY <1>0, SlotOrNull, Zenon DEF SlotOK
    <2> QED
      BY <2>1, SlotSteps, ZenonT(30)
  <1>9. (t \in index => head[t] \in Slot)'
    BY Zenon DEF StoreStep
  <1> QED
    BY <1>1, <1>2, <1>3, <1>4, <1>5, <1>6, <1>7, <1>8, <1>9, Zenon DEF SlotOK

\* The intervals of the versions of a list do not overlap, as long as nothing
\* begins.
LEMMA ListKept ==
  ASSUME IInv, NEW x \in Txn, Step(x),
         \A t \in Slot : /\ header'[t].begin = header[t].begin
                         /\ header[t].begin # MAX_CID => EndOf(t)' = EndOf(t)
  PROVE  (\A s, t \in Slot : ListOK(s, t))'
  <1> SUFFICES ASSUME NEW s \in Slot, NEW t \in Slot
               PROVE  ListOK(s, t)'
    BY Zenon
  <1>1. /\ header[s].begin # MAX_CID => header'[s].entry = header[s].entry
        /\ header[t].begin # MAX_CID => header'[t].entry = header[t].entry
    BY SlotSteps, Zenon DEF IInv, Step, LinksKept
  <1>2. ListOK(s, t)
    BY Zenon DEF IInv
  <1>3. /\ header'[s].begin = header[s].begin /\ header'[t].begin = header[t].begin
        /\ header[s].begin # MAX_CID => EndOf(s)' = EndOf(s)
        /\ header[t].begin # MAX_CID => EndOf(t)' = EndOf(t)
    BY Zenon
  <1> HIDE DEF EndOf
  <1> QED
    BY <1>1, <1>2, <1>3, Zenon DEF ListOK

LEMMA ListSame ==
  ASSUME IInv, NEW x \in Txn, Step(x),
         \A t \in Slot : /\ header'[t].begin = header[t].begin
                         /\ header'[t].prev = header[t].prev
  PROVE  (\A s, t \in Slot : ListOK(s, t))'
  <1>1. \A t \in Slot : EndOf(t)' = EndOf(t)
    BY Zenon DEF EndOf
  <1> QED
    BY <1>1, ListKept, Zenon

LEMMA GarbageSlotKept ==
  ASSUME IInv, NEW x \in Txn, Step(x), NEW y \in Txn, NEW s \in gc_set[y],
         y = x => pc[x] # "a_unlink"
  PROVE  Garbage(y, s)'
  <1> TypeInv /\ StoreStep(x) /\ ControlStep(x) /\ GarbageOK(y) /\ WriterOK(y)
    BY Zenon DEF IInv, Step
  <1>0. s \in Slot /\ header[s].txn \in Txn \union {0, 1}
    BY Fields, Zenon DEF TypeInv, TypeOK
  <1>1. CASE header[s].end = y
    <2>2. header'[s].end = header[s].end
      BY <1>0, <1>1, EndKept, Zenon
    <2> QED
      BY <1>1, <2>2, Zenon DEF Garbage
  <1>2. CASE header[s].txn = 0 /\ header[s].begin = y
    <2>1. header[s] # EmptyHeader
      BY <1>2, EmptyFields, TxnNot, Zenon
    <2> QED
      BY <1>0, <1>2, <2>1, SlotSteps, ZenonT(30) DEF Garbage
  <1>3. CASE header[s].txn = 0 /\ header[s].begin = MAX_CID /\ header[s].entry # 0
    BY <1>0, <1>3, EmptyFields, SlotSteps, Zenon DEF Garbage
  <1>4. CASE pc[y] = "a_unlink" /\ s = header[exec[y].cur].prev
    <2>1. y # x
      BY <1>4, ZenonT(30)
    <2>2. exec'[y] = exec[y] /\ pc'[y] = pc[y]
      BY <2>1, Zenon DEF ControlStep
    <2>3. Pending(y, exec[y].cur) /\ Writes(y, exec[y].cur) /\ exec[y].cur \in 0 .. MaxSlot
      BY <1>4, Zenon DEF WriterOK, Replacing, TypeInv, Execs
    <2>4. exec[y].cur \in Slot
      BY <1>4, ZenonT(30) DEF IInv, ReaderOK, StatementOK, OnSlot, Replacing
    <2>5. header[exec[y].cur].txn = y
      BY <1>4, <2>3, <2>4, ZenonT(30) DEF WriterOK, Written, Replaced, Superseded, Newest, Held
    <2>6. header'[exec[y].cur] = header[exec[y].cur]
      <3>1. PICK c \in Slot : c = exec[y].cur
        BY <2>4, Zenon
      <3>2. \A z \in Txn \ {x} : header[c].txn = z => header'[c] = header[c]
        BY SlotSteps, Zenon
      <3>3. y \in Txn \ {x}
        BY <2>1, Zenon
      <3> QED
        BY <2>5, <3>1, <3>2, <3>3, Zenon
    <2> QED
      BY <1>4, <2>2, <2>6, Zenon DEF Garbage
  <1> QED
    BY <1>1, <1>2, <1>3, <1>4, ZenonT(30) DEF GarbageOK, Garbage

LEMMA GarbageKept ==
  ASSUME IInv, NEW x \in Txn, Step(x), NEW G \in SUBSET Slot,
         gc_set'[x] = gc_set[x] \union G, pc[x] # "a_unlink",
         \A s \in G : Garbage(x, s)' /\ \A y \in Txn \ {x} : ~ Garbage(y, s)
  PROVE  \A y \in Txn : GarbageOK(y)'
  <1> SUFFICES ASSUME NEW y \in Txn, NEW s \in gc_set'[y]
               PROVE  Garbage(y, s)' /\ \A z \in Txn \ {y} : s \notin gc_set'[z]
    BY ZenonT(30) DEF GarbageOK
  <1>1. \A z \in Txn \ {x} : gc_set'[z] = gc_set[z]
    BY ZenonT(30) DEF Step, ControlStep
  <1>2. \A z \in Txn : \A t \in gc_set[z] :
          Garbage(z, t) /\ Garbage(z, t)' /\ \A w \in Txn \ {z} : t \notin gc_set[w]
    BY GarbageSlotKept, ZenonT(30) DEF IInv, GarbageOK
  <1> QED
    BY <1>1, <1>2, Zenon

LEMMA NoGarbage ==
  ASSUME IInv, NEW x \in Txn, Step(x), gc_set'[x] = gc_set[x], pc[x] # "a_unlink"
  PROVE  \A y \in Txn : GarbageOK(y)'
  <1>1. {} \in SUBSET Slot /\ gc_set'[x] = gc_set[x] \union {}
    BY Zenon
  <1> QED
    BY <1>1, GarbageKept, Zenon

\* What every step does: it keeps the invariant, and committed history.
HistoryKept ==
  \A s \in Slot : Settled(s) /\ header[s].end # MAX_CID =>
    header'[s].begin = header[s].begin /\ header'[s].end = header[s].end

Kept == IInv' /\ HistoryKept

\* The parts of the invariant put together: a step of x has to answer for x,
\* for the slots it touches, for the lists and for its garbage.
LEMMA StepKeeps ==
  ASSUME IInv, TypeInv', NEW x \in Txn, Step(x), WriterOK(x)', ReaderOK(x)',
         \A t \in Slot : header'[t] = header[t] \/ SlotOK(t)',
         (\A s, t \in Slot : ListOK(s, t))', \A y \in Txn : GarbageOK(y)'
  PROVE  Kept
  <1>1. \A y \in Txn : WriterOK(y)' /\ ReaderOK(y)'
    BY WriterKept, ReaderKept, ZenonT(30)
  <1>2. \A t \in Slot : SlotOK(t)'
    BY SlotKept, Zenon
  <1>3. HistoryKept
    <2> SUFFICES ASSUME NEW s \in Slot, Settled(s), header[s].end # MAX_CID
                 PROVE  /\ header'[s].begin = header[s].begin
                        /\ header'[s].end = header[s].end
      BY Zenon DEF HistoryKept
    <2>1. ~ OwnStep(x, s)
      BY TxnNot, Zenon DEF OwnStep, Settled
    <2>2. ~ NewStep(x, s)
      BY EmptyFields, Zenon DEF NewStep
    <2>3. CASE FreeStep(x, s)
      BY <2>3, Zenon DEF FreeStep
    <2> QED
      BY <2>1, <2>2, <2>3, Zenon DEF Step, StoreStep
  <1>4. IInv'
    BY <1>1, <1>2, Zenon DEF IInv
  <1> QED
    BY <1>3, <1>4, Zenon DEF Kept

\* A step that leaves the store alone.
LEMMA IdleStep ==
  ASSUME IInv, NEW x \in Txn, ControlStep(x), UNCHANGED storeVars
  PROVE  Step(x)
  <1>1. /\ header' = header /\ index' = index /\ head' = head
        /\ next_slot' = next_slot
    BY Zenon DEF storeVars
  <1>2. next_slot \in Int /\ next_slot <= next_slot
    <2>1. next_slot \in Int
      BY Counter, Zenon DEF IInv
    <2> QED
      BY ONLY <2>1
  <1> QED
    BY <1>1, <1>2, Heads, Zenon DEF Step, StoreStep

LEMMA StoreSame ==
  ASSUME IInv, TypeInv', NEW x \in Txn, ControlStep(x), UNCHANGED storeVars,
         gc_set'[x] = gc_set[x], pc[x] # "a_unlink", WriterOK(x)', ReaderOK(x)'
  PROVE  Kept
  <1>0. header' = header /\ head' = head /\ index' = index /\ next_slot' = next_slot
    BY Zenon DEF storeVars
  <1>1. Step(x)
    BY IdleStep, Zenon
  <1>2. \A t \in Slot : /\ header'[t] = header[t]
                        /\ header'[t].begin = header[t].begin
                        /\ header'[t].prev = header[t].prev
    BY <1>0, Zenon
  <1> QED
    BY <1>1, <1>2, ListSame, NoGarbage, StepKeeps, ZenonT(30)
-----------------------------------------------------------------------------
(* The fields a step sets, and the slots it answers for.                   *)

\* An executor with some of its fields set.
LEMMA ExecSame ==
  ASSUME TypeInv, NEW x \in Txn
  PROVE  exec[x] \in Execs /\ exec = [exec EXCEPT ![x] = exec[x]]
  BY Zenon DEF TypeInv

OthersSame(s) == \A t \in Slot \ {s} : header'[t] = header[t]

LEMMA SetHeader ==
  ASSUME TypeInv, NEW s \in Slot, NEW h \in Headers, header' = [header EXCEPT ![s] = h]
  PROVE  header' \in [Slot -> Headers] /\ OthersSame(s) /\ header'[s] = h
  <1>1. header \in [Slot -> Headers]
    BY Zenon DEF TypeInv, TypeOK
  <1> QED
    BY <1>1, Zenon DEF OthersSame

LEMMA SetTxn ==
  ASSUME TypeInv, NEW s \in Slot, NEW v \in Txn \union {INVALID_TXN_ID, INITIAL_TXN_ID},
         header' = [header EXCEPT ![s].txn = v]
  PROVE  /\ header' \in [Slot -> Headers] /\ OthersSame(s) /\ LinksKept(s)
         /\ header'[s].txn = v /\ header'[s].reader = header[s].reader
         /\ header'[s].begin = header[s].begin /\ header'[s].end = header[s].end
         /\ header'[s].prev = header[s].prev
  <1>1. PICK h : h = [header[s] EXCEPT !.txn = v]
    BY Zenon
  <1>2. header[s] \in Headers
    BY Zenon DEF TypeInv, TypeOK
  <1>3. /\ h \in Headers /\ h.txn = v /\ h.reader = header[s].reader
        /\ h.begin = header[s].begin /\ h.end = header[s].end /\ h.prev = header[s].prev
        /\ h.next = header[s].next /\ h.entry = header[s].entry
    BY <1>1, <1>2, Zenon DEF Headers
  <1>4. header' = [header EXCEPT ![s] = h]
    BY <1>1, Zenon
  <1> QED
    BY <1>3, <1>4, SetHeader, Zenon DEF LinksKept

LEMMA SetReader ==
  ASSUME TypeInv, NEW s \in Slot, NEW v \in 0 .. MAX_CID,
         header' = [header EXCEPT ![s].reader = v]
  PROVE  /\ header' \in [Slot -> Headers] /\ OthersSame(s) /\ LinksKept(s)
         /\ header'[s].txn = header[s].txn /\ header'[s].reader = v
         /\ header'[s].begin = header[s].begin /\ header'[s].end = header[s].end
         /\ header'[s].prev = header[s].prev
  <1>1. PICK h : h = [header[s] EXCEPT !.reader = v]
    BY Zenon
  <1>2. header[s] \in Headers
    BY Zenon DEF TypeInv, TypeOK
  <1>3. /\ h \in Headers /\ h.txn = header[s].txn /\ h.reader = v
        /\ h.begin = header[s].begin /\ h.end = header[s].end /\ h.prev = header[s].prev
        /\ h.next = header[s].next /\ h.entry = header[s].entry
    BY <1>1, <1>2, Zenon DEF Headers
  <1>4. header' = [header EXCEPT ![s] = h]
    BY <1>1, Zenon
  <1> QED
    BY <1>3, <1>4, SetHeader, Zenon DEF LinksKept

LEMMA SetBegin ==
  ASSUME TypeInv, NEW s \in Slot, NEW v \in 0 .. MAX_CID,
         header' = [header EXCEPT ![s].begin = v]
  PROVE  /\ header' \in [Slot -> Headers] /\ OthersSame(s) /\ LinksKept(s)
         /\ header'[s].txn = header[s].txn /\ header'[s].reader = header[s].reader
         /\ header'[s].begin = v /\ header'[s].end = header[s].end
         /\ header'[s].prev = header[s].prev
  <1>1. PICK h : h = [header[s] EXCEPT !.begin = v]
    BY Zenon
  <1>2. header[s] \in Headers
    BY Zenon DEF TypeInv, TypeOK
  <1>3. /\ h \in Headers /\ h.txn = header[s].txn /\ h.reader = header[s].reader
        /\ h.begin = v /\ h.end = header[s].end /\ h.prev = header[s].prev
        /\ h.next = header[s].next /\ h.entry = header[s].entry
    BY <1>1, <1>2, Zenon DEF Headers
  <1>4. header' = [header EXCEPT ![s] = h]
    BY <1>1, Zenon
  <1> QED
    BY <1>3, <1>4, SetHeader, Zenon DEF LinksKept

LEMMA SetEnd ==
  ASSUME TypeInv, NEW s \in Slot, NEW v \in 0 .. MAX_CID,
         header' = [header EXCEPT ![s].end = v]
  PROVE  /\ header' \in [Slot -> Headers] /\ OthersSame(s) /\ LinksKept(s)
         /\ header'[s].txn = header[s].txn /\ header'[s].reader = header[s].reader
         /\ header'[s].begin = header[s].begin /\ header'[s].end = v
         /\ header'[s].prev = header[s].prev
  <1>1. PICK h : h = [header[s] EXCEPT !.end = v]
    BY Zenon
  <1>2. header[s] \in Headers
    BY Zenon DEF TypeInv, TypeOK
  <1>3. /\ h \in Headers /\ h.txn = header[s].txn /\ h.reader = header[s].reader
        /\ h.begin = header[s].begin /\ h.end = v /\ h.prev = header[s].prev
        /\ h.next = header[s].next /\ h.entry = header[s].entry
    BY <1>1, <1>2, Zenon DEF Headers
  <1>4. header' = [header EXCEPT ![s] = h]
    BY <1>1, Zenon
  <1> QED
    BY <1>3, <1>4, SetHeader, Zenon DEF LinksKept

LEMMA SetInterval ==
  ASSUME TypeInv, NEW s \in Slot, NEW b \in 0 .. MAX_CID, NEW v \in 0 .. MAX_CID,
         header' = [header EXCEPT ![s].begin = b, ![s].end = v]
  PROVE  /\ header' \in [Slot -> Headers] /\ OthersSame(s) /\ LinksKept(s)
         /\ header'[s].txn = header[s].txn /\ header'[s].reader = header[s].reader
         /\ header'[s].begin = b /\ header'[s].end = v
         /\ header'[s].prev = header[s].prev
  <1>1. PICK h : h = [header[s] EXCEPT !.begin = b, !.end = v]
    BY Zenon
  <1>2. header[s] \in Headers
    BY Zenon DEF TypeInv, TypeOK
  <1>3. /\ h \in Headers /\ h.txn = header[s].txn /\ h.reader = header[s].reader
        /\ h.begin = b /\ h.end = v /\ h.prev = header[s].prev
        /\ h.next = header[s].next /\ h.entry = header[s].entry
    BY <1>1, <1>2, Zenon DEF Headers
  <1>4. header' = [header EXCEPT ![s] = h]
    BY <1>1, ZenonT(30)
  <1> QED
    BY <1>3, <1>4, SetHeader, Zenon DEF LinksKept

\* The rest of the invariant for a slot in use whose fields change.
LEMMA SlotChanges ==
  ASSUME IInv, TypeInv', NEW x \in Txn, Step(x), NEW t \in Slot,
         header[t] # EmptyHeader, LinksKept(t),
         \/ header'[t].begin = header[t].begin
         \/ header'[t].begin = x /\ pc'[x] \in Committing,
         header'[t].txn = INITIAL_TXN_ID =>
           /\ header'[t].begin # MAX_CID /\ header'[t].end # INVALID_CID
           /\ header'[t].end = MAX_CID =>
                header'[t].prev = NULL /\ head'[header[t].entry] = t,
         header'[t].txn = INVALID_TXN_ID /\ header'[t].begin # MAX_CID =>
           header'[t].end = MAX_CID /\ header'[t].prev = NULL,
         header'[t].end \notin {INVALID_CID, MAX_CID} =>
           \/ header'[t].end = header[t].end /\ header'[t].prev = header[t].prev
           \/ /\ header'[t].begin # MAX_CID /\ Linking(t)'
              /\ header'[header'[t].prev].begin = header'[t].end
  PROVE  SlotOK(t)'
  <1> TypeInv /\ SlotOK(t) /\ StoreStep(x) /\ ControlStep(x)
    BY Zenon DEF IInv, Step
  <1>0. header[t].entry \in index /\ header'[t].entry = header[t].entry
        /\ header[t].prev \in 0 .. MaxSlot /\ header[t].entry \in Slot
    BY Fields, Zenon DEF SlotOK, LinksKept, TypeInv, TypeOK
  <1>1. (header[t] = EmptyHeader \/ header[t].entry \in index)'
    BY <1>0, Zenon DEF StoreStep
  <1>2. (t >= next_slot => header[t] = EmptyHeader /\ t \notin index)'
    <2> SUFFICES ASSUME t >= next_slot'
                 PROVE  (header[t] = EmptyHeader /\ t \notin index)'
      BY Zenon
    <2>1. t >= next_slot
      BY CounterGrows, Zenon
    <2> QED
      BY <1>0, <2>1, EmptyFields, Zenon DEF SlotOK
  <1>3. (header[t].txn = INITIAL_TXN_ID =>
          header[t].begin # MAX_CID /\ header[t].end # INVALID_CID)'
    BY ZenonT(30)
  <1>4. (header[t].txn = INITIAL_TXN_ID /\ header[t].end = MAX_CID =>
          header[t].prev = NULL /\ head[header[t].entry] = t)'
    BY <1>0, Zenon
  <1>5. (header[t].end \notin {INVALID_CID, MAX_CID} =>
          /\ header[t].begin # MAX_CID /\ Linking(t)
          /\ header[header[t].prev].begin = header[t].end)'
    <2>1. CASE /\ header'[t].end = header[t].end /\ header'[t].prev = header[t].prev
               /\ header[t].end \notin {INVALID_CID, MAX_CID}
      <3>1. /\ header[t].begin # MAX_CID /\ header[t].prev \in Slot
            /\ header[header[t].prev].next = t
            /\ header[header[t].prev].begin = header[t].end
        BY <2>1, ZenonT(30) DEF SlotOK, Linking
      <3>2. /\ header'[t].begin = header[t].begin
            /\ header'[header[t].prev].begin = header[header[t].prev].begin
            /\ header'[header[t].prev].next = header[header[t].prev].next
        BY <2>1, <3>1, SlotSteps, ZenonT(30) DEF LinksKept
      <3> QED
        BY <2>1, <3>1, <3>2, ZenonT(30) DEF Linking
    <2> QED
      BY <2>1, Zenon
  <1>6. (header[t].begin \notin {LoadCid, MAX_CID} =>
          header[t].begin \in Txn /\ pc[header[t].begin] \in Committing \union {"ended"})'
    BY ZenonT(30) DEF SlotOK, ControlStep
  <1>7. (header[t].entry \notin {NULL, t} => header[header[t].entry].begin # MAX_CID)'
    BY <1>0, SlotSteps, Zenon DEF SlotOK
  <1>8. (t \in index => head[t] \in Slot)'
    BY Zenon DEF StoreStep
  <1> QED
    BY <1>1, <1>2, <1>3, <1>4, <1>5, <1>6, <1>7, <1>8, ZenonT(30) DEF SlotOK

\* Who reads snapshots owns nothing.
LEMMA SnapshotOwnsNothing ==
  ASSUME IInv, NEW x \in Txn, ~ TimestampsReads(x), NEW s \in Slot
  PROVE  header[s].txn # x
  <1>1. WriterOK(x) /\ StatementOK(x)
    BY ZenonT(30) DEF IInv, ReaderOK
  <1>2. \A t \in Slot : ~ Pending(x, t)
    BY <1>1, Zenon DEF WriterOK, Pending
  <1>3. pc[x] # "write"
    BY <1>1, Zenon DEF StatementOK
  <1> QED
    BY <1>1, <1>2, <1>3, Zenon DEF WriterOK, Accounted, At
-----------------------------------------------------------------------------
(* The slots of the read/write set that a step is not at.                  *)

Busy(x, t) == At(x, t, Replacing \union {"c_insert"})

\* A slot in the read/write set that neither commit nor abort is at: its new
\* version, itself if it was inserted, is what the index entry leads to.
LEMMA Waiting ==
  ASSUME IInv, NEW x \in Txn, NEW t \in Slot, Pending(x, t), ~ Busy(x, t)
  PROVE  /\ header[t].txn = x /\ header[t].entry \in index
         /\ Writes(x, t) =>
              /\ Replaced(x, t) /\ header[t].begin < x /\ header[t].begin # MAX_CID
              /\ header[t].end = MAX_CID
              /\ header[t].prev \in Slot /\ header[header[t].prev].next = t
              /\ header[header[t].prev].txn = x
              /\ header[header[t].prev].begin = MAX_CID
              /\ header[header[t].prev].prev = NULL
              /\ head[header[t].entry] = header[t].prev
         /\ ~ Writes(x, t) =>
              /\ Inserted(x, t) /\ header[t].begin = MAX_CID
              /\ header[t].next = NULL /\ header[t].prev = NULL
              /\ header[t].entry = t /\ head[t] = t
  <1>1. Written(x, t)
    BY Zenon DEF IInv, WriterOK
  <1>2. \A L \in {{"c_release"}, {"a_release"}, {"c_end", "c_old", "c_new"},
                  {"c_old", "c_new", "a_unlink"}, {"c_new"}, {"a_unlink"},
                  {"c_insert"}} : ~ At(x, t, L)
    BY Zenon DEF Busy, At, Replacing
  <1>3. CASE Writes(x, t)
    <2>1. Replaced(x, t)
      BY <1>1, <1>2, <1>3, Zenon DEF Written
    <2> QED
      <3>1. /\ header[t].txn = x /\ header[t].entry \in index
            /\ header[t].begin < x /\ header[t].begin # MAX_CID
        BY ONLY <2>1, TxnIds DEF Replaced, Held
      <3>2. /\ ~ At(x, t, {"c_new"}) /\ ~ At(x, t, {"a_unlink"})
            /\ ~ At(x, t, {"c_end", "c_old", "c_new"})
        BY <1>2, Zenon
      <3> QED
        BY <1>3, <2>1, <3>1, <3>2, Zenon DEF Replaced, Linking
  <1>4. CASE ~ Writes(x, t)
    <2>1. Inserted(x, t)
      BY <1>1, <1>4, Zenon DEF Written
    <2> QED
      BY <1>2, <1>4, <2>1, ZenonT(30) DEF Inserted
  <1> QED
    BY <1>3, <1>4, ZenonT(30)

LEMMA WaitingKept ==
  ASSUME IInv, NEW x \in Txn, NEW t \in Slot, Pending(x, t),
         ~ Busy(x, t), ~ Busy(x, t)', rw_set'[x][t] = rw_set[x][t],
         header'[t] = header[t], index \subseteq index',
         Writes(x, t) => header'[header[t].prev] = header[header[t].prev],
         head'[header[t].entry] = head[header[t].entry]
  PROVE  Written(x, t)'
  <1>2. \A L \in {{"c_release"}, {"a_release"}, {"c_end", "c_old", "c_new"},
                  {"c_old", "c_new", "a_unlink"}, {"c_new"}, {"a_unlink"},
                  {"c_insert"}} : ~ At(x, t, L) /\ ~ At(x, t, L)'
    BY Zenon DEF Busy, At, Replacing
  <1>3. CASE Writes(x, t)
    <2>1. Replaced(x, t)
      BY <1>3, Waiting, ZenonT(30)
    <2>2. Replaced(x, t)'
      BY <1>2, <1>3, <2>1, ZenonT(30) DEF Replaced, Held, Linking
    <2> QED
      BY <1>2, <1>3, <2>2, Zenon DEF Written, Writes
  <1>4. CASE ~ Writes(x, t)
    <2>1. Inserted(x, t)
      BY <1>4, Waiting, Zenon
    <2>2. Inserted(x, t)'
      BY <1>2, <2>1, Zenon DEF Inserted
    <2> QED
      BY <1>4, <2>2, ZenonT(30) DEF Written, Writes
  <1> QED
    BY <1>3, <1>4, Zenon

\* Nothing a waiting slot rests on is the version s that x is at work on, or
\* its replacement.
LEMMA WaitersKept ==
  ASSUME IInv, NEW x \in Txn, NEW s \in Slot, index \subseteq index',
         header[s].begin # MAX_CID \/ header[s].next = NULL,
         \A u \in Slot \ {s} :
           \/ header'[u] = header[u] \/ header[u].txn # x
           \/ header[u].next = s /\ header[u].begin \in {x, MAX_CID},
         \A e \in index :
           \/ head'[e] = head[e] \/ head[e] = s
           \/ /\ head[e] \in Slot /\ header[head[e]].next = s
              /\ header[head[e]].begin \in {x, MAX_CID},
         NEW t \in Slot \ {s}, Pending(x, t), ~ Busy(x, t), ~ Busy(x, t)',
         rw_set'[x][t] = rw_set[x][t]
  PROVE  Written(x, t)'
  <1>1. x \in Int /\ x < MAX_CID /\ header[t].begin \in Int /\ s # 0 /\ t # 0
    BY TxnIds, Fields, SlotNot, Zenon DEF IInv
  <1>2. CASE Writes(x, t)
    <2>1. /\ header[t].begin < x /\ header[t].prev \in Slot /\ header[t].txn = x
          /\ header[header[t].prev].next = t /\ header[header[t].prev].begin = MAX_CID
          /\ header[header[t].prev].txn = x /\ header[t].entry \in index
          /\ head[header[t].entry] = header[t].prev
      BY <1>2, Waiting, ZenonT(30)
    <2>2. header[t].prev # s
      BY <1>1, <2>1, Zenon
    <2>3. header'[t] = header[t]
      BY <1>1, <2>1
    <2>4. header'[header[t].prev] = header[header[t].prev]
      BY <2>1, <2>2, ZenonT(30)
    <2>5. head'[header[t].entry] = head[header[t].entry]
      BY <1>1, <2>1, <2>2, Zenon
    <2> QED
      BY <2>3, <2>4, <2>5, WaitingKept, ZenonT(30)
  <1>3. CASE ~ Writes(x, t)
    <2>1. /\ header[t].next = NULL /\ header[t].txn = x /\ header[t].entry \in index
          /\ header[t].entry = t /\ head[t] = t
      BY <1>3, Waiting, Zenon
    <2>2. header'[t] = header[t]
      BY <1>1, <2>1, ZenonT(30)
    <2>3. head'[header[t].entry] = head[header[t].entry]
      BY <1>1, <2>1, Zenon
    <2> QED
      BY <1>3, <2>2, <2>3, WaitingKept, Zenon
  <1> QED
    BY <1>2, <1>3, Zenon

\* A slot x owns for some other slot of its read/write set.
LEMMA AccountedKept ==
  ASSUME NEW x \in Txn, NEW s \in Slot, NEW u \in Slot \ {s}, Accounted(x, u),
         ~ At(x, u, {"write"}), header[u].next # s,
         header'[u].next = header[u].next,
         \A t \in Slot \ {s} : Pending(x, t) =>
           /\ Pending(x, t)' /\ header'[t].prev = header[t].prev
           /\ rw_set'[x][t] = rw_set[x][t] /\ ~ Busy(x, t)'
  PROVE  Accounted(x, u)'
  <1>1. CASE Pending(x, u)
    BY <1>1, ZenonT(30) DEF Accounted
  <1>2. CASE ~ Pending(x, u)
    <2>1. PICK o \in Slot : /\ o = header[u].next /\ Pending(x, o) /\ Writes(x, o)
                            /\ header[o].prev = u
      BY <1>2, ZenonT(30) DEF Accounted
    <2>2. /\ Pending(x, o)' /\ header'[o].prev = u /\ header'[u].next = o
          /\ Writes(x, o)' /\ ~ At(x, o, {"c_release", "a_release"})'
      BY <2>1, Zenon DEF Writes, Busy, At, Replacing
    <2> QED
      BY <2>1, <2>2, Zenon DEF Accounted
  <1> QED
    BY <1>1, <1>2, ZenonT(30)

LEMMA ReaderStays ==
  ASSUME IInv, TypeInv', NEW x \in Txn, Step(x), pc[x] # "idle",
         UNCHANGED <<read_id, returned>>, StatementOK(x)', Loads(x, exec[x].cur)',
         pc'[x] \in OnRows /\ TimestampsReads(x) => \A t \in exec'[x].rows : Row(x, t)'
  PROVE  ReaderOK(x)'
  <1>1. TypeInv /\ ReaderOK(x)
    BY Zenon DEF IInv
  <1>2. pc'[x] # "idle" /\ pc[x] # "ended"
    BY Zenon DEF Step, ControlStep
  <1>3. ReadIdOK(x)'
    <2>1. /\ TimestampsReads(x) => read_id[x] = x
          /\ ~ TimestampsReads(x) =>
               /\ read_id[x] \notin Txn /\ LoadCid < read_id[x] /\ read_id[x] < MAX_CID
               /\ \A y \in Txn : y < read_id[x] => pc[y] = "ended"
      BY <1>1, ZenonT(30) DEF ReaderOK, ReadIdOK
    <2>2. \A y \in Txn : pc[y] = "ended" => pc'[y] = "ended"
      BY <1>2, ZenonT(30) DEF Step, ControlStep
    <2> QED
      BY <1>2, <2>1, <2>2, ZenonT(30) DEF ReadIdOK, TimestampsReads
  <1>4. \A t \in returned[x] : Seen(x, t)'
    <2>1. \A t \in returned[x] : Seen(x, t) /\ t \in Slot
      BY <1>1, ZenonT(30) DEF ReaderOK, TypeInv, TypeOK
    <2> QED
      BY <2>1, SeenKept, ZenonT(30)
  <1> QED
    BY <1>3, <1>4, Zenon DEF ReaderOK, TimestampsReads
-----------------------------------------------------------------------------
(* Giving a slot back.                                                     *)

\* Outside a scan a transaction only answers for what it has returned.
LEMMA ReaderDone ==
  ASSUME IInv, TypeInv', NEW x \in Txn, Step(x), pc[x] # "idle",
         UNCHANGED <<read_id, returned>>, pc'[x] \in Finishing \union {"ready"},
         pc'[x] \in Replacing \union {"c_insert"} => exec'[x].cur \in Slot
  PROVE  ReaderOK(x)'
  <1> USE DEF Finishing, Committing
  <1>1. StatementOK(x)'
    BY Zenon DEF StatementOK, OnRows, OnSlot, Scanning, Replacing, TimestampsReads
  <1>2. Loads(x, exec[x].cur)'
    BY ZenonT(30) DEF Loads
  <1>3. pc'[x] \notin OnRows
    BY ZenonT(30) DEF OnRows, Scanning
  <1> QED
    BY <1>1, <1>2, <1>3, ReaderStays, Zenon

\* x lets go of the slot s, on which none of its other slots depends.
LEMMA Released ==
  ASSUME IInv, NEW x \in Txn, NEW s \in Slot, OthersSame(s), LinksKept(s),
         header[s].begin # MAX_CID \/ header[s].next = NULL,
         header'[s].txn # x, header'[s].begin = header[s].begin,
         header'[s].prev = header[s].prev,
         UNCHANGED <<head, index>>, rw_set'[x] = rw_set[x],
         ~ Pending(x, s)', \A t \in Slot \ {s} : Pending(x, t)' <=> Pending(x, t),
         \/ ~ Pending(x, s) \/ ~ Writes(x, s) \/ At(x, s, {"c_release", "a_release"}),
         \A t \in Slot \ {s} : ~ Busy(x, t) /\ ~ At(x, t, {"write"}),
         pc'[x] \in {"ready", "commit", "abort"}
  PROVE  WriterOK(x)'
  <1>1. WriterOK(x)
    BY Zenon DEF IInv
  <1>2. \A t \in Slot : ~ Busy(x, t)'
    BY Zenon DEF Busy, At, Replacing
  <1>3. \A t \in Slot : Pending(x, t)' => Written(x, t)'
    <2> SUFFICES ASSUME NEW t \in Slot, Pending(x, t)' PROVE Written(x, t)'
      BY Zenon
    <2>1. t # s /\ Pending(x, t)
      BY Zenon
    <2>2. \A u \in Slot \ {s} : header'[u] = header[u]
      BY Zenon DEF OthersSame
    <2> QED
      BY <1>2, <2>1, <2>2, WaitersKept, ZenonT(30)
  <1>4. \A u \in Slot : header'[u].txn = x => Accounted(x, u)'
    <2> SUFFICES ASSUME NEW u \in Slot, header'[u].txn = x PROVE Accounted(x, u)'
      BY ZenonT(30)
    <2>1. u # s /\ header'[u] = header[u] /\ header[u].txn = x
      BY ZenonT(30) DEF OthersSame
    <2>2. Accounted(x, u) /\ ~ At(x, u, {"write"})
      BY <1>1, <2>1, ZenonT(30) DEF WriterOK
    <2>3. CASE Pending(x, u)
      BY <2>1, <2>3, Zenon DEF Accounted
    <2>4. CASE ~ Pending(x, u)
      <3>1. header[u].next # s
        BY <2>2, <2>4, Zenon DEF Accounted
      <3>2. \A t \in Slot \ {s} : Pending(x, t) =>
              /\ Pending(x, t)' /\ header'[t].prev = header[t].prev
              /\ rw_set'[x][t] = rw_set[x][t] /\ ~ Busy(x, t)'
        BY <1>2, Zenon DEF OthersSame
      <3> QED
        BY <2>1, <2>2, <3>1, <3>2, AccountedKept, Zenon
    <2> QED
      BY <2>3, <2>4, Zenon
  <1>5. \A t \in Slot : header'[t].begin = header[t].begin
    BY Zenon DEF OthersSame
  <1> QED
    BY <1>1, <1>3, <1>4, <1>5, ZenonT(30) DEF WriterOK, Replacing, TimestampsReads

LEMMA ReleaseStep ==
  ASSUME IInv, TypeInv', NEW x \in Txn, ControlStep(x), NEW s \in Slot,
         header[s].txn = x, OthersSame(s), LinksKept(s),
         header'[s].begin = header[s].begin, header'[s].prev = header[s].prev,
         header'[s].reader = header[s].reader,
         header[s].end \in {INVALID_CID, MAX_CID, x},
         \/ header'[s].end = header[s].end
         \/ header[s].end # x /\ header'[s].end = MAX_CID,
         \/ header'[s].txn = INVALID_TXN_ID /\ header[s].begin = MAX_CID
            /\ header[s].reader = 0 /\ header[s].next = NULL
         \/ /\ header'[s].txn = INITIAL_TXN_ID /\ header[s].begin # MAX_CID
            /\ header'[s].end # INVALID_CID
            /\ header'[s].end = MAX_CID =>
                 header[s].prev = NULL /\ head[header[s].entry] = s,
         UNCHANGED <<head, index, read_id, returned>>, next_slot <= next_slot',
         rw_set'[x] = rw_set[x], ~ Pending(x, s)',
         \A t \in Slot \ {s} : Pending(x, t)' <=> Pending(x, t),
         \/ ~ Pending(x, s) \/ ~ Writes(x, s) \/ At(x, s, {"c_release", "a_release"}),
         \A t \in Slot \ {s} : ~ Busy(x, t) /\ ~ At(x, t, {"write"}),
         pc'[x] \in {"ready", "commit", "abort"}, pc[x] \notin {"idle", "a_unlink"},
         NEW G \in SUBSET Slot, gc_set'[x] = gc_set[x] \union G,
         \A u \in G : Garbage(x, u)' /\ \A y \in Txn \ {x} : ~ Garbage(y, u)
  PROVE  Kept
  <1> TypeInv
    BY Zenon DEF IInv
  <1>1. TimestampsReads(x) /\ header[s] # EmptyHeader
    BY SnapshotOwnsNothing, EmptyFields, TxnNot, Zenon
  <1>2. OwnStep(x, s)
    BY <1>1, IdsDiffer, ZenonT(30) DEF OwnStep
  <1>3. Step(x)
    <2>1. /\ next_slot \in Int /\ next_slot' \in Int
          /\ \A e \in index' : head'[e] \in Slot /\ e \in index
      BY Counter, CounterNext, Heads, Zenon
    <2>2. \A t \in Slot : header'[t] = header[t] \/ OwnStep(x, t)
      BY <1>2, Zenon DEF OthersSame
    <2> QED
      BY <2>1, <2>2, Zenon DEF Step, StoreStep
  <1>4. WriterOK(x)'
    <2>1. header'[s].txn # x /\ (header[s].begin # MAX_CID \/ header[s].next = NULL)
      BY TxnNot, Zenon
    <2> QED
      BY <2>1, Released, ZenonT(30)
  <1>5. ReaderOK(x)'
    BY <1>3, ReaderDone, Zenon DEF Finishing, Committing, Replacing
  <1>6. SlotOK(s)'
    <2>1. header'[s].txn = INITIAL_TXN_ID =>
            /\ header'[s].begin # MAX_CID /\ header'[s].end # INVALID_CID
            /\ header'[s].end = MAX_CID =>
                 header'[s].prev = NULL /\ head'[header[s].entry] = s
      BY IdsDiffer, ZenonT(30)
    <2>2. ~ (header'[s].txn = INVALID_TXN_ID /\ header'[s].begin # MAX_CID)
      BY IdsDiffer, Zenon
    <2>3. header'[s].end \notin {INVALID_CID, MAX_CID} =>
            header'[s].end = header[s].end /\ header'[s].prev = header[s].prev
      BY ZenonT(30)
    <2> QED
      BY <1>1, <1>3, <2>1, <2>2, <2>3, SlotChanges, ZenonT(30)
  <1>7. (\A t, u \in Slot : ListOK(t, u))'
    BY <1>3, ListSame, ZenonT(30) DEF OthersSame
  <1>8. \A y \in Txn : GarbageOK(y)'
    BY <1>3, GarbageKept, ZenonT(30)
  <1>9. \A t \in Slot : header'[t] = header[t] \/ SlotOK(t)'
    BY <1>6, Zenon DEF OthersSame
  <1> QED
    BY <1>3, <1>4, <1>5, <1>7, <1>8, <1>9, StepKeeps, ZenonT(30)
=============================================================================
