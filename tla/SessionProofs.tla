---------------------------- MODULE SessionProofs ---------------------------
(***************************************************************************)
(* Proofs about PacketManager and its TrafficCop, for any number of        *)
(* sessions, of transactions and of prepared statements.                   *)
(***************************************************************************)
EXTENDS PacketManager, Integers, TLAPS

Entry == [txn : Txn, result : {"SUCCESS", "ABORTED"}]
Plan == [stage : {"check", "execute"}, txn : Txn, single : BOOLEAN]
Statements == (Name \union {PrepareName}) \X QueryType

\* The transaction of a statement: its own, outside a block, or the block's.
PlanTop ==
  \A s \in Session : plan[s] # NoPlan =>
    IF plan[s].single THEN tcop_txn_state_[s] = <<>>
    ELSE tcop_txn_state_[s] # <<>> /\ plan[s].txn = Top(s).txn

\* A block that is marked as aborted has no transaction any more.
AbortedEnded ==
  \A s \in Session : \A i \in DOMAIN tcop_txn_state_[s] :
    tcop_txn_state_[s][i].result = "ABORTED" => tcop_txn_state_[s][i].txn \notin running

IInv == TypeOK /\ PlanTop /\ AbortedEnded
-----------------------------------------------------------------------------
(* Sequences: the stack of transactions and the list of the cache. *)

LEMMA Sliced ==
  ASSUME NEW E, NEW q \in Seq(E), NEW m \in 1 .. Len(q) + 1, NEW n \in m - 1 .. Len(q)
  PROVE  /\ SubSeq(q, m, n) \in Seq(E) /\ Len(SubSeq(q, m, n)) = n - m + 1
         /\ \A i \in 1 .. n - m + 1 : SubSeq(q, m, n)[i] = q[m + i - 1]
<1>1. Len(q) \in Nat /\ m \in Int /\ n \in Int
  OBVIOUS
<1>2. \A i \in m .. n : q[i] \in E
  BY <1>1
<1> QED
  BY <1>1, <1>2

LEMMA Joined ==
  ASSUME NEW E, NEW u \in Seq(E), NEW v \in Seq(E)
  PROVE  /\ u \o v \in Seq(E) /\ Len(u \o v) = Len(u) + Len(v)
         /\ \A i \in 1 .. Len(u) + Len(v) :
              (u \o v)[i] = IF i <= Len(u) THEN u[i] ELSE v[i - Len(u)]
OBVIOUS

LEMMA Popped ==
  ASSUME NEW E, NEW q \in Seq(E), q # <<>>
  PROVE  /\ Len(q) \in Nat /\ Len(q) > 0 /\ DOMAIN q = 1 .. Len(q) /\ q[Len(q)] \in E
         /\ SubSeq(q, 1, Len(q) - 1) \in Seq(E)
         /\ Len(SubSeq(q, 1, Len(q) - 1)) = Len(q) - 1
         /\ DOMAIN SubSeq(q, 1, Len(q) - 1) = 1 .. Len(q) - 1
         /\ \A i \in 1 .. Len(q) - 1 : SubSeq(q, 1, Len(q) - 1)[i] = q[i]
<1>1. Len(q) \in Nat /\ Len(q) > 0 /\ DOMAIN q = 1 .. Len(q) /\ q[Len(q)] \in E
  OBVIOUS
<1>2. 1 \in 1 .. Len(q) + 1 /\ Len(q) - 1 \in 1 - 1 .. Len(q) /\ (Len(q) - 1) - 1 + 1 = Len(q) - 1
  BY <1>1
<1>3. /\ SubSeq(q, 1, Len(q) - 1) \in Seq(E)
      /\ Len(SubSeq(q, 1, Len(q) - 1)) = Len(q) - 1
      /\ \A i \in 1 .. Len(q) - 1 : SubSeq(q, 1, Len(q) - 1)[i] = q[1 + i - 1]
  BY <1>2, Sliced
<1>4. DOMAIN SubSeq(q, 1, Len(q) - 1) = 1 .. Len(q) - 1
  BY <1>3
<1> QED
  BY <1>1, <1>3, <1>4

LEMMA Pushed ==
  ASSUME NEW E, NEW q \in Seq(E), NEW e \in E
  PROVE  /\ Append(q, e) \in Seq(E) /\ Append(q, e) # <<>>
         /\ Len(Append(q, e)) = Len(q) + 1 /\ DOMAIN Append(q, e) = 1 .. Len(q) + 1
         /\ Append(q, e)[Len(q) + 1] = e
         /\ \A i \in 1 .. Len(q) : Append(q, e)[i] = q[i]
OBVIOUS

\* The result of the entry on top is overwritten.
LEMMA Marked ==
  ASSUME NEW q \in Seq(Entry), q # <<>>, NEW p,
         p = [q EXCEPT ![Len(q)].result = "ABORTED"]
  PROVE  /\ p \in Seq(Entry) /\ Len(p) = Len(q) /\ p # <<>> /\ DOMAIN p = DOMAIN q
         /\ \A i \in DOMAIN q : p[i].txn = q[i].txn
         /\ \A i \in DOMAIN q : i # Len(q) => p[i] = q[i]
         /\ p[Len(q)].result = "ABORTED"
<1>1. Len(q) \in DOMAIN q /\ DOMAIN q = 1 .. Len(q) /\ Len(q) \in Nat /\ q[Len(q)] \in Entry
  BY Popped
<1>2. DOMAIN p = DOMAIN q /\ \A i \in DOMAIN q : i # Len(q) => p[i] = q[i]
  BY <1>1, Zenon
<1>3. p[Len(q)] = [q[Len(q)] EXCEPT !.result = "ABORTED"]
  BY <1>1, Zenon
<1>4. p[Len(q)] \in Entry /\ p[Len(q)].txn = q[Len(q)].txn /\ p[Len(q)].result = "ABORTED"
  BY <1>1, <1>3, Zenon DEF Entry
<1>5. \A i \in DOMAIN q : q[i] \in Entry
  BY <1>1
<1>6. p \in [1 .. Len(q) -> Entry]
  BY <1>1, <1>2, <1>4, <1>5, Zenon
<1>7. p \in Seq(Entry) /\ Len(p) = Len(q)
  BY <1>1, <1>6
<1> QED
  BY <1>1, <1>2, <1>4, <1>7
-----------------------------------------------------------------------------
(* The cache *)

Distinct(cache) == \A i, j \in DOMAIN cache : cache[i][1] = cache[j][1] => i = j

\* An entry is spliced out of a list.
LEMMA Spliced ==
  ASSUME NEW E, NEW q \in Seq(E), NEW k \in 1 .. Len(q), NEW w,
         w = SubSeq(q, 1, k - 1) \o SubSeq(q, k + 1, Len(q))
  PROVE  /\ w \in Seq(E) /\ Len(w) = Len(q) - 1
         /\ \A i \in 1 .. Len(q) - 1 : w[i] = IF i < k THEN q[i] ELSE q[i + 1]
<1>0. Len(q) \in Nat /\ k \in Nat
  OBVIOUS
<1>1. PICK u : u = SubSeq(q, 1, k - 1)
  BY Zenon
<1>2. PICK v : v = SubSeq(q, k + 1, Len(q))
  BY Zenon
<1>3. u \in Seq(E) /\ Len(u) = k - 1 /\ \A i \in 1 .. k - 1 : u[i] = q[i]
  <2>1. 1 \in 1 .. Len(q) + 1 /\ k - 1 \in 1 - 1 .. Len(q) /\ (k - 1) - 1 + 1 = k - 1
    BY <1>0
  <2>2. u \in Seq(E) /\ Len(u) = k - 1 /\ \A i \in 1 .. k - 1 : u[i] = q[1 + i - 1]
    BY <1>1, <2>1, Sliced
  <2> QED
    BY <2>2
<1>4. v \in Seq(E) /\ Len(v) = Len(q) - k /\ \A i \in 1 .. Len(q) - k : v[i] = q[k + i]
  <2>1. /\ k + 1 \in 1 .. Len(q) + 1 /\ Len(q) \in (k + 1) - 1 .. Len(q)
        /\ Len(q) - (k + 1) + 1 = Len(q) - k
    BY <1>0
  <2>2. /\ v \in Seq(E) /\ Len(v) = Len(q) - k
        /\ \A i \in 1 .. Len(q) - k : v[i] = q[(k + 1) + i - 1]
    <3>1. PICK m : m = k + 1
      BY Zenon
    <3>2. m \in 1 .. Len(q) + 1 /\ Len(q) \in m - 1 .. Len(q) /\ v = SubSeq(q, m, Len(q))
      BY <1>2, <2>1, <3>1, Zenon
    <3>3. /\ v \in Seq(E) /\ Len(v) = Len(q) - m + 1
          /\ \A i \in 1 .. Len(q) - m + 1 : v[i] = q[m + i - 1]
      BY <3>2, Sliced, ZenonT(30)
    <3> QED
      BY <2>1, <3>1, <3>3, Zenon
  <2>3. \A i \in 1 .. Len(q) - k : (k + 1) + i - 1 = k + i
    BY <1>0
  <2> QED
    BY <2>2, <2>3, Zenon
<1>5. /\ w \in Seq(E) /\ Len(w) = Len(u) + Len(v)
      /\ \A i \in 1 .. Len(u) + Len(v) : w[i] = IF i <= Len(u) THEN u[i] ELSE v[i - Len(u)]
  <2>1. w = u \o v
    BY <1>1, <1>2, Zenon
  <2>2. /\ u \o v \in Seq(E) /\ Len(u \o v) = Len(u) + Len(v)
        /\ \A i \in 1 .. Len(u) + Len(v) :
             (u \o v)[i] = IF i <= Len(u) THEN u[i] ELSE v[i - Len(u)]
    BY <1>3, <1>4, Joined, Zenon
  <2> QED
    BY <2>1, <2>2, Zenon
<1>6. Len(u) + Len(v) = Len(q) - 1
  BY <1>0, <1>3, <1>4
<1>7. ASSUME NEW i \in 1 .. Len(q) - 1 PROVE w[i] = IF i < k THEN q[i] ELSE q[i + 1]
  <2>1. CASE i < k
    <3>1. i <= Len(u) /\ i \in 1 .. k - 1
      BY <1>0, <1>3, <2>1
    <3> QED
      BY <1>3, <1>5, <1>6, <2>1, <3>1, Zenon
  <2>2. CASE ~(i < k)
    <3>1. ~(i <= Len(u)) /\ i - (k - 1) \in 1 .. Len(q) - k /\ k + (i - (k - 1)) = i + 1
      BY <1>0, <1>3, <2>2
    <3>2. v[i - (k - 1)] = q[i + 1]
      BY <1>4, <3>1, Zenon
    <3> QED
      BY <1>3, <1>5, <1>6, <2>2, <3>1, <3>2, Zenon
  <2> QED
    BY <2>1, <2>2, Zenon
<1> QED
  BY <1>5, <1>6, <1>7, Zenon

\* Splicing an entry out keeps the others, in their order.
LEMMA WithoutList ==
  ASSUME NEW cache \in Seq(Statements), Distinct(cache), NEW n
  PROVE  /\ Without(cache, n) \in Seq(Statements)
         /\ Distinct(Without(cache, n))
         /\ \A i \in DOMAIN Without(cache, n) : Without(cache, n)[i][1] # n
         /\ Len(Without(cache, n)) = IF Contains(cache, n) THEN Len(cache) - 1 ELSE Len(cache)
<1>1. CASE ~Contains(cache, n)
  BY <1>1, Zenon DEF Without, Contains
<1>2. CASE Contains(cache, n)
  <2>1. PICK k : k = PlaceOf(cache, n)
    BY Zenon
  <2>2. k \in DOMAIN cache /\ cache[k][1] = n
    BY <1>2, <2>1, Zenon DEF Contains, PlaceOf
  <2>3. k \in 1 .. Len(cache) /\ Len(cache) \in Nat /\ DOMAIN cache = 1 .. Len(cache)
    BY <2>2
  <2>4. PICK w : w = Without(cache, n)
    BY Zenon
  <2>5. w = SubSeq(cache, 1, k - 1) \o SubSeq(cache, k + 1, Len(cache))
    BY <1>2, <2>1, <2>4, Zenon DEF Without
  <2>6. /\ w \in Seq(Statements) /\ Len(w) = Len(cache) - 1
        /\ \A i \in 1 .. Len(cache) - 1 : w[i] = IF i < k THEN cache[i] ELSE cache[i + 1]
    BY <2>3, <2>5, Spliced, ZenonT(30)
  <2>7. DOMAIN w = 1 .. Len(cache) - 1
    BY <2>6
  <2> DEFINE P(i) == IF i < k THEN i ELSE i + 1
  <2>8. \A i \in 1 .. Len(cache) - 1 : P(i) \in DOMAIN cache /\ P(i) # k /\ w[i] = cache[P(i)]
    BY <2>3, <2>6
  <2>9. \A i, j \in 1 .. Len(cache) - 1 : P(i) = P(j) => i = j
    BY <2>3
  <2> HIDE DEF P
  <2>10. \A i \in 1 .. Len(cache) - 1 : w[i][1] # n
    BY <2>2, <2>8 DEF Distinct
  <2>11. Distinct(w)
    BY <2>7, <2>8, <2>9 DEF Distinct
  <2> QED
    BY <1>2, <2>4, <2>6, <2>7, <2>10, <2>11, Zenon
<1> QED
  BY <1>1, <1>2, Zenon

\* What the entry goes in front of.
LEMMA InFront ==
  ASSUME NEW cache \in Seq(Statements), Distinct(cache), NEW n \in Name \union {PrepareName},
         NEW q \in QueryType
  PROVE  LET new == <<<<n, q>>>> \o Without(cache, n)
         IN /\ new \in Seq(Statements) /\ Distinct(new)
            /\ Len(new) = IF Contains(cache, n) THEN Len(cache) ELSE Len(cache) + 1
<1> DEFINE w == Without(cache, n)
           new == <<<<n, q>>>> \o w
<1>1. /\ w \in Seq(Statements) /\ Distinct(w) /\ \A i \in DOMAIN w : w[i][1] # n
      /\ Len(w) = IF Contains(cache, n) THEN Len(cache) - 1 ELSE Len(cache)
  BY WithoutList, Zenon
<1>2. Len(w) \in Nat /\ Len(cache) \in Nat /\ <<<<n, q>>>> \in Seq(Statements)
  BY <1>1 DEF Statements
<1> HIDE DEF w
<1>3. /\ new \in Seq(Statements) /\ Len(new) = Len(w) + 1
      /\ DOMAIN new = 1 .. Len(w) + 1
  BY <1>1, <1>2
<1>4. new[1] = <<n, q>> /\ \A i \in 2 .. Len(w) + 1 : new[i] = w[i - 1] /\ i - 1 \in DOMAIN w
  BY <1>1, <1>2
<1>5. Distinct(new)
  <2> SUFFICES ASSUME NEW i \in 1 .. Len(w) + 1, NEW j \in 1 .. Len(w) + 1, new[i][1] = new[j][1]
               PROVE  i = j
    BY <1>3, Zenon DEF Distinct
  <2>1. CASE i = 1 \/ j = 1
    BY <1>1, <1>2, <1>4, <2>1
  <2>2. CASE i # 1 /\ j # 1
    <3>1. /\ i - 1 \in DOMAIN w /\ j - 1 \in DOMAIN w /\ w[i - 1][1] = w[j - 1][1]
      BY <1>2, <1>4, <2>2
    <3>2. i - 1 = j - 1
      BY <1>1, <3>1, Zenon DEF Distinct
    <3> QED
      BY <1>2, <3>2
  <2> QED
    BY <2>1, <2>2, Zenon
<1> QED
  BY <1>1, <1>2, <1>3, <1>5 DEF w

\* Cache::insert keeps the keys distinct and the size within the capacity.
LEMMA Inserted ==
  ASSUME NEW cache \in Seq(Statements), Distinct(cache), NEW n \in Name \union {PrepareName},
         NEW q \in QueryType
  PROVE  /\ CacheInsert(cache, n, q) \in Seq(Statements) /\ Distinct(CacheInsert(cache, n, q))
         /\ Len(CacheInsert(cache, n, q)) <= CACHE_SIZE
<1> DEFINE new == <<<<n, q>>>> \o Without(cache, n)
           k == IF Len(new) > CACHE_SIZE THEN CACHE_SIZE ELSE Len(new)
<1>1. new \in Seq(Statements) /\ Distinct(new)
  BY InFront, Zenon
<1>2. CacheInsert(cache, n, q) = SubSeq(new, 1, k)
  BY Zenon DEF CacheInsert
<1> HIDE DEF new
<1>3. k \in Nat /\ k <= Len(new) /\ k <= CACHE_SIZE /\ DOMAIN new = 1 .. Len(new) /\ Len(new) \in Nat
  BY <1>1, SessionAssumption
<1>4. SubSeq(new, 1, k) \in Seq(Statements) /\ Len(SubSeq(new, 1, k)) = k
      /\ DOMAIN SubSeq(new, 1, k) = 1 .. k /\ \A i \in 1 .. k : SubSeq(new, 1, k)[i] = new[i]
  BY <1>1, <1>3
<1>5. Distinct(SubSeq(new, 1, k))
  BY <1>1, <1>3, <1>4 DEF Distinct
<1> QED
  BY <1>2, <1>3, <1>4, <1>5, Zenon
-----------------------------------------------------------------------------
(* The traffic cop *)

TcopInv == TcopTypeOK /\ PlanTop /\ AbortedEnded

\* A step of the traffic cop: between statements, or within one.
BlockCall(s) ==
  \/ BeginQueryHelper(s)
  \/ \E result : CommitQueryHelper(s, result)
  \/ \E result : AbortQueryHelper(s, result)
  \/ StartPlan(s)
BlockStep(s) == BlockCall(s) \/ TcopReset(s)
PlanStep(s) ==
  \/ CheckPlan(s)
  \/ SkipPlan(s)
  \/ \E result : FinishPlan(s, result)

\* The type of the stack of a session.
LEMMA Stack ==
  ASSUME TcopTypeOK, NEW s \in Session
  PROVE  /\ tcop_txn_state_[s] \in Seq(Entry) /\ Len(tcop_txn_state_[s]) \in Nat
         /\ DOMAIN tcop_txn_state_[s] = 1 .. Len(tcop_txn_state_[s])
         /\ Len(tcop_txn_state_[s]) <= MaxDepth
         /\ \A i \in DOMAIN tcop_txn_state_[s] :
              /\ tcop_txn_state_[s][i] \in Entry /\ tcop_txn_state_[s][i].txn \in Txn
              /\ tcop_txn_state_[s][i].result \in {"SUCCESS", "ABORTED"}
         /\ tcop_txn_state_[s] # <<>> =>
              /\ Len(tcop_txn_state_[s]) \in DOMAIN tcop_txn_state_[s]
              /\ Top(s) = tcop_txn_state_[s][Len(tcop_txn_state_[s])] /\ Top(s) \in Entry
         /\ plan[s] # NoPlan =>
              /\ plan[s].stage \in {"check", "execute"} /\ plan[s].txn \in Txn
              /\ plan[s].single \in BOOLEAN /\ plan[s] \in Plan
         /\ plan[s] = NoPlan => plan[s].stage = "none"
<1>1. /\ tcop_txn_state_[s] \in Seq(Entry) /\ Len(tcop_txn_state_[s]) <= MaxDepth
      /\ plan[s] \in {NoPlan} \union Plan
  BY Zenon DEF TcopTypeOK, Entry, Plan
<1>2. /\ Len(tcop_txn_state_[s]) \in Nat
      /\ DOMAIN tcop_txn_state_[s] = 1 .. Len(tcop_txn_state_[s])
      /\ \A i \in DOMAIN tcop_txn_state_[s] : tcop_txn_state_[s][i] \in Entry
  BY <1>1
<1>3. \A e \in Entry : e.txn \in Txn /\ e.result \in {"SUCCESS", "ABORTED"}
  BY Zenon DEF Entry
<1>4. \A p \in Plan : /\ p.stage \in {"check", "execute"} /\ p.txn \in Txn
                      /\ p.single \in BOOLEAN
  BY Zenon DEF Plan
<1>5. tcop_txn_state_[s] # <<>> =>
        /\ Len(tcop_txn_state_[s]) \in DOMAIN tcop_txn_state_[s]
        /\ Top(s) = tcop_txn_state_[s][Len(tcop_txn_state_[s])] /\ Top(s) \in Entry
  BY <1>1, <1>2, Popped DEF Top
<1>6. plan[s] = NoPlan => plan[s].stage = "none"
  BY DEF NoPlan
<1> QED
  BY <1>1, <1>2, <1>3, <1>4, <1>5, <1>6, Zenon

\* A new transaction is one that nobody points to.
LEMMA Fresh ==
  ASSUME NEW t, BeginTransaction(t), NEW z \in Session
  PROVE  /\ t \in Txn /\ t \notin running /\ running' = running \union {t}
         /\ \A i \in DOMAIN tcop_txn_state_[z] : tcop_txn_state_[z][i].txn # t
         /\ plan[z] # NoPlan => plan[z].txn # t
BY DEF BeginTransaction, Referenced

\* What has been aborted was a session's.
LEMMA AbortedTyped ==
  ASSUME TcopTypeOK, NEW s \in Session, BlockStep(s) \/ PlanStep(s)
  PROVE  aborted' \subseteq Txn
<1>1. /\ aborted \subseteq Txn
      /\ tcop_txn_state_[s] # <<>> => Top(s).txn \in Txn
      /\ plan[s] # NoPlan => plan[s].txn \in Txn
      /\ plan[s] = NoPlan => plan[s].stage = "none"
  BY Stack, Zenon DEF TcopTypeOK, Entry
<1>2. ASSUME NEW t \in Txn, AbortTransaction(t) PROVE aborted' \subseteq Txn
  BY <1>1, <1>2, Zenon DEF AbortTransaction
<1>3. ASSUME NEW t, BeginTransaction(t) \/ CommitTransaction(t) \/ UNCHANGED txnVars
      PROVE  aborted' \subseteq Txn
  BY <1>1, <1>3, Zenon DEF BeginTransaction, CommitTransaction, txnVars
<1>4. CASE BlockStep(s)
  BY <1>1, <1>2, <1>3, <1>4, ZenonT(30)
  DEF BlockStep, BlockCall, BeginQueryHelper, CommitQueryHelper, AbortQueryHelper, StartPlan,
      TcopReset
<1>5. CASE PlanStep(s)
  BY <1>1, <1>2, <1>3, <1>5, ZenonT(30)
  DEF PlanStep, CheckPlan, SkipPlan, FinishPlan, ThrowPlan, AbortPlan, CommitPlan
<1> QED
  BY <1>4, <1>5, Zenon

\* A step for one session: the invariant is what it is for that session, and
\* a transaction that becomes running is new.
LEMMA OneSession ==
  ASSUME TcopInv, NEW s \in Session, NEW q \in Seq(Entry), Len(q) <= MaxDepth,
         NEW p \in {NoPlan} \union Plan,
         tcop_txn_state_' = [tcop_txn_state_ EXCEPT ![s] = q],
         plan' = [plan EXCEPT ![s] = p],
         default_state' \in {"INVALID", "SUCCESS", "ABORTED"},
         aborted' \subseteq Txn,
         \/ running' \subseteq running
         \/ \E t \in Txn : BeginTransaction(t),
         p # NoPlan => IF p.single THEN q = <<>> ELSE q # <<>> /\ p.txn = q[Len(q)].txn,
         \A i \in DOMAIN q : q[i].result = "ABORTED" => q[i].txn \notin running'
  PROVE  TcopInv'
<1>1. /\ tcop_txn_state_ \in [Session -> Seq(Entry)] /\ plan \in [Session -> {NoPlan} \union Plan]
      /\ running \subseteq Txn
  BY Zenon DEF TcopInv, TcopTypeOK, Entry, Plan
<1>2. /\ tcop_txn_state_'[s] = q /\ plan'[s] = p
      /\ \A z \in Session : z # s =>
           tcop_txn_state_'[z] = tcop_txn_state_[z] /\ plan'[z] = plan[z]
  BY <1>1, Zenon
<1>3. TcopTypeOK'
  <2>1. tcop_txn_state_' \in [Session -> Seq(Entry)] /\ plan' \in [Session -> {NoPlan} \union Plan]
    BY <1>1, Zenon
  <2>2. \A z \in Session : Len(tcop_txn_state_'[z]) <= MaxDepth
    BY <1>2, Zenon DEF TcopInv, TcopTypeOK
  <2>3. running' \subseteq Txn
    BY <1>1 DEF BeginTransaction
  <2> QED
    BY <2>1, <2>2, <2>3, Zenon DEF TcopTypeOK, Entry, Plan
<1>4. PlanTop'
  <2> SUFFICES ASSUME NEW z \in Session, plan'[z] # NoPlan
               PROVE  IF plan'[z].single THEN tcop_txn_state_'[z] = <<>>
                      ELSE tcop_txn_state_'[z] # <<>> /\ plan'[z].txn = Top(z)'.txn
    BY Zenon DEF PlanTop
  <2>1. CASE z = s
    BY <1>2, <2>1, Zenon DEF Top
  <2>2. CASE z # s
    BY <1>2, <2>2, Zenon DEF TcopInv, PlanTop, Top
  <2> QED
    BY <2>1, <2>2, Zenon
<1>5. AbortedEnded'
  <2> SUFFICES ASSUME NEW z \in Session, NEW i \in DOMAIN tcop_txn_state_'[z],
                      tcop_txn_state_'[z][i].result = "ABORTED"
               PROVE  tcop_txn_state_'[z][i].txn \notin running'
    BY Zenon DEF AbortedEnded
  <2>1. CASE z = s
    BY <1>2, <2>1
  <2>2. CASE z # s
    <3>1. /\ i \in DOMAIN tcop_txn_state_[z] /\ tcop_txn_state_'[z][i] = tcop_txn_state_[z][i]
          /\ tcop_txn_state_[z][i].txn \notin running
      BY <1>2, <2>2, Zenon DEF TcopInv, AbortedEnded
    <3>2. CASE running' \subseteq running
      BY <3>1, <3>2, Zenon
    <3>3. CASE \E t \in Txn : BeginTransaction(t)
      BY <3>1, <3>3, Fresh
    <3> QED
      BY <3>2, <3>3, Zenon
  <2> QED
    BY <2>1, <2>2, Zenon
<1> QED
  BY <1>3, <1>4, <1>5, Zenon DEF TcopInv

\* What a COMMIT or ROLLBACK leaves on the stack.
LEMMA PoppedStack ==
  ASSUME TcopInv, NEW s \in Session, tcop_txn_state_[s] # <<>>, plan[s] = NoPlan,
         tcop_txn_state_' = Pop(s), UNCHANGED <<default_state, plan>>, running' \subseteq running,
         aborted' \subseteq Txn
  PROVE  TcopInv'
<1> DEFINE q == SubSeq(tcop_txn_state_[s], 1, Len(tcop_txn_state_[s]) - 1)
<1>1. /\ tcop_txn_state_[s] \in Seq(Entry) /\ Len(tcop_txn_state_[s]) \in Nat
      /\ DOMAIN tcop_txn_state_[s] = 1 .. Len(tcop_txn_state_[s])
      /\ Len(tcop_txn_state_[s]) <= MaxDepth
  BY Stack, Zenon DEF TcopInv
<1>2. /\ q \in Seq(Entry) /\ Len(q) = Len(tcop_txn_state_[s]) - 1
      /\ DOMAIN q = 1 .. Len(tcop_txn_state_[s]) - 1
      /\ \A i \in 1 .. Len(tcop_txn_state_[s]) - 1 : q[i] = tcop_txn_state_[s][i]
  BY <1>1, Popped, Zenon
<1>3. tcop_txn_state_' = [tcop_txn_state_ EXCEPT ![s] = q]
  BY Zenon DEF Pop
<1> HIDE DEF q
<1>4. Len(q) <= MaxDepth
  BY <1>1, <1>2, TcopAssumption
<1>5. plan' = [plan EXCEPT ![s] = NoPlan]
  BY Zenon DEF TcopInv, TcopTypeOK
<1>6. default_state' \in {"INVALID", "SUCCESS", "ABORTED"}
  BY Zenon DEF TcopInv, TcopTypeOK
<1>7. \A i \in DOMAIN q : q[i].result = "ABORTED" => q[i].txn \notin running'
  <2>1. \A i \in DOMAIN q : i \in DOMAIN tcop_txn_state_[s] /\ q[i] = tcop_txn_state_[s][i]
    BY <1>1, <1>2
  <2> QED
    BY <2>1, Zenon DEF TcopInv, AbortedEnded
<1> QED
  BY <1>2, <1>3, <1>4, <1>5, <1>6, <1>7, OneSession, Zenon

\* The queries that begin and end a block, and the end of the connection.
LEMMA BlockStepInv ==
  ASSUME TcopInv, NEW s \in Session, plan[s] = NoPlan, BlockStep(s)
  PROVE  TcopInv'
<1>0. /\ tcop_txn_state_[s] \in Seq(Entry) /\ Len(tcop_txn_state_[s]) \in Nat
      /\ DOMAIN tcop_txn_state_[s] = 1 .. Len(tcop_txn_state_[s])
      /\ Len(tcop_txn_state_[s]) <= MaxDepth
  BY Stack, Zenon DEF TcopInv
<1>a. aborted' \subseteq Txn
  BY AbortedTyped, Zenon DEF TcopInv
<1>1. /\ tcop_txn_state_ = [tcop_txn_state_ EXCEPT ![s] = tcop_txn_state_[s]]
      /\ plan = [plan EXCEPT ![s] = NoPlan]
      /\ default_state \in {"INVALID", "SUCCESS", "ABORTED"}
  BY Zenon DEF TcopInv, TcopTypeOK
<1>2. CASE BeginQueryHelper(s)
  <2>1. PICK t \in Txn : /\ BeginTransaction(t)
                         /\ tcop_txn_state_' = [tcop_txn_state_ EXCEPT ![s] =
                              Append(tcop_txn_state_[s], [txn |-> t, result |-> "SUCCESS"])]
    BY <1>2, Zenon DEF BeginQueryHelper
  <2> DEFINE e == [txn |-> t, result |-> "SUCCESS"]
             q == Append(tcop_txn_state_[s], e)
  <2>2. e \in Entry /\ e.result # "ABORTED"
    BY Zenon DEF Entry
  <2> HIDE DEF e
  <2>3. /\ q \in Seq(Entry) /\ Len(q) = Len(tcop_txn_state_[s]) + 1
        /\ DOMAIN q = 1 .. Len(tcop_txn_state_[s]) + 1
        /\ q[Len(tcop_txn_state_[s]) + 1] = e
        /\ \A i \in 1 .. Len(tcop_txn_state_[s]) : q[i] = tcop_txn_state_[s][i]
    BY <1>0, <2>2, Pushed
  <2>4. tcop_txn_state_' = [tcop_txn_state_ EXCEPT ![s] = q]
    BY <2>1, Zenon DEF e
  <2> HIDE DEF q
  <2>5. Len(q) <= MaxDepth
    BY <1>0, <1>2, <2>3, TcopAssumption DEF BeginQueryHelper
  <2>6. \A i \in DOMAIN q : q[i].result = "ABORTED" => q[i].txn \notin running'
    <3> SUFFICES ASSUME NEW i \in DOMAIN q, q[i].result = "ABORTED" PROVE q[i].txn \notin running'
      BY Zenon
    <3>1. i \in DOMAIN tcop_txn_state_[s] /\ q[i] = tcop_txn_state_[s][i]
      BY <1>0, <2>2, <2>3
    <3>2. q[i].txn \notin running /\ q[i].txn # t /\ running' = running \union {t}
      BY <2>1, <3>1, Fresh, Zenon DEF TcopInv, AbortedEnded
    <3> QED
      BY <3>2, Zenon
  <2>7. plan' = [plan EXCEPT ![s] = NoPlan] /\ default_state' = default_state
    BY <1>1, <1>2, Zenon DEF BeginQueryHelper
  <2>8. /\ NoPlan \in {NoPlan} \union Plan
        /\ default_state' \in {"INVALID", "SUCCESS", "ABORTED"}
    BY <1>1, <2>7, Zenon
  <2>9. q \in Seq(Entry) /\ \E u \in Txn : BeginTransaction(u)
    BY <2>1, <2>3, Zenon
  <2> QED
    BY <2>4, <2>5, <2>6, <2>7, <2>8, <2>9, <1>a, OneSession, ZenonT(30)
<1>3. ASSUME NEW result, CommitQueryHelper(s, result) \/ AbortQueryHelper(s, result)
      PROVE  TcopInv'
  <2>1. CASE tcop_txn_state_[s] = <<>>
    <3>1. UNCHANGED tcopVars
      BY <1>3, <2>1, Zenon DEF CommitQueryHelper, AbortQueryHelper, tcopVars, txnVars
    <3> QED
      BY <3>1, Zenon DEF tcopVars, txnVars, TcopInv, TcopTypeOK, PlanTop, AbortedEnded, Top
  <2>2. CASE tcop_txn_state_[s] # <<>>
    <3>1. /\ tcop_txn_state_' = Pop(s) /\ UNCHANGED <<default_state, plan>>
          /\ running' \subseteq running
      BY <1>3, <2>2, Zenon DEF CommitQueryHelper, AbortQueryHelper, CommitTransaction, AbortTransaction, txnVars
    <3> QED
      BY <2>2, <3>1, <1>a, PoppedStack, Zenon
  <2> QED
    BY <2>1, <2>2, Zenon
<1>4. CASE TcopReset(s)
  <2>1. /\ <<>> \in Seq(Entry) /\ Len(<<>>) = 0 /\ DOMAIN <<>> = {} /\ 0 <= MaxDepth
    BY TcopAssumption
  <2>2. /\ tcop_txn_state_' = [tcop_txn_state_ EXCEPT ![s] = <<>>]
        /\ UNCHANGED <<default_state, running, plan>>
    BY <1>4, Zenon DEF TcopReset, txnVars
  <2> QED
    BY <1>1, <2>1, <2>2, <1>a, OneSession, Zenon
<1>5. CASE StartPlan(s)
  <2>1. CASE tcop_txn_state_[s] = <<>>
    <3>1. PICK t \in Txn :
            /\ BeginTransaction(t)
            /\ plan' = [plan EXCEPT ![s] = [stage |-> "check", txn |-> t, single |-> TRUE]]
      BY <1>5, <2>1, Zenon DEF StartPlan, txnVars
    <3>2. /\ tcop_txn_state_' = [tcop_txn_state_ EXCEPT ![s] = tcop_txn_state_[s]]
          /\ default_state' = "SUCCESS"
      BY <1>1, <1>5, <2>1, Zenon DEF StartPlan, txnVars
    <3>3. DOMAIN tcop_txn_state_[s] = {}
      BY <2>1
    <3>4. PICK p : p = [stage |-> "check", txn |-> t, single |-> TRUE]
      BY Zenon
    <3>5. p \in Plan /\ p.single
      BY <3>4, Zenon DEF Plan
    <3>6. plan' = [plan EXCEPT ![s] = p]
      BY <3>1, <3>4, Zenon
    <3> QED
      BY <1>0, <2>1, <3>1, <3>2, <3>3, <3>5, <3>6, <1>a, OneSession, Zenon
  <2>2. CASE tcop_txn_state_[s] # <<>>
    <3>1. /\ tcop_txn_state_' = [tcop_txn_state_ EXCEPT ![s] = tcop_txn_state_[s]]
          /\ UNCHANGED <<default_state, running>>
          /\ plan' = [plan EXCEPT ![s] = [stage |-> "check", txn |-> Top(s).txn, single |-> FALSE]]
      BY <1>1, <1>5, <2>2, Zenon DEF StartPlan, txnVars
    <3>2. Top(s) = tcop_txn_state_[s][Len(tcop_txn_state_[s])] /\ Top(s).txn \in Txn
      BY <2>2, Stack, Zenon DEF TcopInv, Entry
    <3>3. PICK p : p = [stage |-> "check", txn |-> Top(s).txn, single |-> FALSE]
      BY Zenon
    <3>4. p \in Plan /\ ~p.single /\ p.txn = Top(s).txn
      BY <3>2, <3>3, Zenon DEF Plan
    <3>5. plan' = [plan EXCEPT ![s] = p]
      BY <3>1, <3>3, Zenon
    <3>6. \A i \in DOMAIN tcop_txn_state_[s] : tcop_txn_state_[s][i].result = "ABORTED" =>
            tcop_txn_state_[s][i].txn \notin running'
      BY <3>1, Zenon DEF TcopInv, AbortedEnded
    <3>7. running' \subseteq running /\ default_state' \in {"INVALID", "SUCCESS", "ABORTED"}
      BY <1>1, <3>1, Zenon
    <3>8. p # NoPlan => IF p.single THEN tcop_txn_state_[s] = <<>>
            ELSE tcop_txn_state_[s] # <<>>
                   /\ p.txn = tcop_txn_state_[s][Len(tcop_txn_state_[s])].txn
      BY <2>2, <3>2, <3>4, Zenon
    <3>9. tcop_txn_state_' = [tcop_txn_state_ EXCEPT ![s] = tcop_txn_state_[s]]
      BY <3>1, Zenon
    <3> QED
      BY <1>0, <3>4, <3>5, <3>6, <3>7, <3>8, <3>9, <1>a, OneSession, Zenon
  <2> QED
    BY <2>1, <2>2, Zenon
<1> QED
  BY <1>2, <1>3, <1>4, <1>5, Zenon DEF BlockStep, BlockCall

\* The steps of ExecuteStatementPlan.
LEMMA PlanStepInv ==
  ASSUME TcopInv, NEW s \in Session, PlanStep(s)
  PROVE  TcopInv' /\ plan[s] # NoPlan
<1>0. /\ tcop_txn_state_[s] \in Seq(Entry) /\ Len(tcop_txn_state_[s]) \in Nat
      /\ DOMAIN tcop_txn_state_[s] = 1 .. Len(tcop_txn_state_[s])
      /\ Len(tcop_txn_state_[s]) <= MaxDepth
      /\ plan[s] = NoPlan => plan[s].stage = "none"
  BY Stack, Zenon DEF TcopInv
<1>a. aborted' \subseteq Txn
  BY AbortedTyped, Zenon DEF TcopInv
<1>1. /\ tcop_txn_state_ = [tcop_txn_state_ EXCEPT ![s] = tcop_txn_state_[s]]
      /\ default_state \in {"INVALID", "SUCCESS", "ABORTED"}
      /\ \A i \in DOMAIN tcop_txn_state_[s] : tcop_txn_state_[s][i].result = "ABORTED" =>
           tcop_txn_state_[s][i].txn \notin running
  BY Zenon DEF TcopInv, TcopTypeOK, AbortedEnded
<1>2. plan[s] # NoPlan
  BY <1>0, Zenon DEF PlanStep, CheckPlan, SkipPlan, FinishPlan
<1>3. /\ plan[s] \in Plan /\ plan[s].single \in BOOLEAN
      /\ IF plan[s].single THEN tcop_txn_state_[s] = <<>>
         ELSE tcop_txn_state_[s] # <<>> /\ plan[s].txn = Top(s).txn
  BY <1>2, Stack, Zenon DEF TcopInv, PlanTop
<1>4. CASE CheckPlan(s)
  <2>1. PICK p : p = [plan[s] EXCEPT !.stage = "execute"]
    BY Zenon
  <2>2. p \in Plan /\ p.single = plan[s].single /\ p.txn = plan[s].txn
    BY <1>3, <2>1, Zenon DEF Plan
  <2>3. /\ plan' = [plan EXCEPT ![s] = p]
        /\ UNCHANGED <<tcop_txn_state_, default_state, running>>
    BY <1>4, <2>1, Zenon DEF CheckPlan, txnVars
  <2>4. p # NoPlan => IF p.single THEN tcop_txn_state_[s] = <<>>
          ELSE tcop_txn_state_[s] # <<>>
                 /\ p.txn = tcop_txn_state_[s][Len(tcop_txn_state_[s])].txn
    BY <1>3, <2>2, Zenon DEF Top
  <2>5. /\ tcop_txn_state_' = [tcop_txn_state_ EXCEPT ![s] = tcop_txn_state_[s]]
        /\ running' \subseteq running /\ default_state' \in {"INVALID", "SUCCESS", "ABORTED"}
        /\ \A i \in DOMAIN tcop_txn_state_[s] : tcop_txn_state_[s][i].result = "ABORTED" =>
             tcop_txn_state_[s][i].txn \notin running'
    BY <1>1, <2>3, Zenon
  <2>6. plan' = [plan EXCEPT ![s] = p]
    BY <2>3, Zenon
  <2> QED
    BY <1>0, <1>2, <2>2, <2>4, <2>5, <2>6, <1>a, OneSession, Zenon
<1>5. CASE SkipPlan(s)
  <2>1. /\ plan' = [plan EXCEPT ![s] = NoPlan]
        /\ UNCHANGED <<tcop_txn_state_, default_state, running>>
    BY <1>5, Zenon DEF SkipPlan, txnVars
  <2>2. /\ tcop_txn_state_' = [tcop_txn_state_ EXCEPT ![s] = tcop_txn_state_[s]]
        /\ running' \subseteq running /\ default_state' \in {"INVALID", "SUCCESS", "ABORTED"}
        /\ \A i \in DOMAIN tcop_txn_state_[s] : tcop_txn_state_[s][i].result = "ABORTED" =>
             tcop_txn_state_[s][i].txn \notin running'
    BY <1>1, <2>1, Zenon
  <2>3. plan' = [plan EXCEPT ![s] = NoPlan]
    BY <2>1, Zenon
  <2> QED
    BY <1>0, <1>2, <2>2, <2>3, <1>a, OneSession, Zenon
<1>6. ASSUME NEW result, FinishPlan(s, result) PROVE TcopInv'
  <2>1. plan' = [plan EXCEPT ![s] = NoPlan]
    BY <1>6, Zenon DEF FinishPlan
  <2>2. CASE UNCHANGED tcop_txn_state_
    <3>1. running' \subseteq running /\ default_state' \in {"INVALID", "SUCCESS", "ABORTED"}
      BY <1>1, <1>6, Zenon DEF FinishPlan, ThrowPlan, AbortPlan, CommitPlan, CommitTransaction, AbortTransaction, txnVars
    <3>2. \A i \in DOMAIN tcop_txn_state_[s] : tcop_txn_state_[s][i].result = "ABORTED" =>
            tcop_txn_state_[s][i].txn \notin running'
      BY <1>1, <3>1, Zenon
    <3> QED
      BY <1>0, <1>1, <2>1, <2>2, <3>1, <3>2, <1>a, OneSession, Zenon
  <2>3. CASE ~UNCHANGED tcop_txn_state_
    <3>1. /\ ~plan[s].single /\ running' = running \ {plan[s].txn} /\ UNCHANGED default_state
          /\ tcop_txn_state_' = [tcop_txn_state_ EXCEPT
               ![s][Len(tcop_txn_state_[s])].result = "ABORTED"]
      BY <1>6, <2>3, Zenon DEF FinishPlan, ThrowPlan, AbortPlan, CommitPlan, CommitTransaction, AbortTransaction, txnVars
    <3>2. PICK q : q = [tcop_txn_state_[s] EXCEPT ![Len(tcop_txn_state_[s])].result = "ABORTED"]
      BY Zenon
    <3>3. tcop_txn_state_' = [tcop_txn_state_ EXCEPT ![s] = q]
      BY <3>1, <3>2, Zenon
    <3>4. tcop_txn_state_[s] # <<>> /\ plan[s].txn = tcop_txn_state_[s][Len(tcop_txn_state_[s])].txn
      BY <1>3, <3>1, Zenon DEF Top
    <3>5. /\ q \in Seq(Entry) /\ Len(q) = Len(tcop_txn_state_[s])
          /\ DOMAIN q = DOMAIN tcop_txn_state_[s]
          /\ \A i \in DOMAIN q : q[i].txn = tcop_txn_state_[s][i].txn
          /\ \A i \in DOMAIN q : i # Len(q) => q[i] = tcop_txn_state_[s][i]
      BY <1>0, <3>2, <3>4, Marked
    <3>6. \A i \in DOMAIN q : q[i].result = "ABORTED" => q[i].txn \notin running'
      BY <1>1, <3>1, <3>4, <3>5
    <3> QED
      BY <1>0, <1>1, <2>1, <3>1, <3>3, <3>5, <3>6, <1>a, OneSession, Zenon
  <2> QED
    BY <2>2, <2>3, Zenon
<1> QED
  BY <1>2, <1>4, <1>5, <1>6, Zenon DEF PlanStep
-----------------------------------------------------------------------------
(* The packet manager *)

ProtocolOK ==
  /\ client \in Clients
  /\ txn_state_ \in [Session -> {"IDLE", "BLOCK"}]
  /\ skipped_stmt_ \in [Session -> BOOLEAN]
  /\ skipped_query_string_ \in [Session -> {"", "query"}]
  /\ skipped_query_type_ \in [Session -> BlockType]
CacheOK ==
  /\ unnamed_statement_ \in [Session -> QueryType \union {NONE}]
  /\ portals_ \in [Session -> {"BEGIN", "COMMIT", "ROLLBACK", "OTHER", NONE}]
  /\ statement_cache_ \in [Session -> Seq(Statements)]
  /\ \A s \in Session : Len(statement_cache_[s]) <= CACHE_SIZE /\ Distinct(statement_cache_[s])
RequestOK ==
  /\ request \in [Session -> Protocols \union {NONE}]
  /\ reply \in {NoReply} \union
       [status : Results, session : Session, protocol : Protocols, complete : BOOLEAN]
  /\ \A s \in Session : (request[s] = NONE) = (plan[s] = NoPlan)

LEMMA Types == TypeOK <=> TcopTypeOK /\ ProtocolOK /\ CacheOK /\ RequestOK
BY Zenon DEF TypeOK, ProtocolOK, CacheOK, RequestOK, Statements, Distinct

\* Between messages there is no plan.
LEMMA ReadyIdle ==
  ASSUME TypeOK, NEW s \in Session
  PROVE  Ready(s) <=> plan[s] = NoPlan
BY Zenon DEF TypeOK, Ready

\* Every step is a step of one session's traffic cop, or none of theirs.
LEMMA Classified ==
  ASSUME TypeOK, [Next]_vars
  PROVE  \/ UNCHANGED tcopVars
         \/ \E s \in Session : plan[s] = NoPlan /\ (BlockCall(s) \/ Reset(s))
         \/ \E s \in Session : PlanStep(s) /\ RunPlan(s)
<1>1. ASSUME NEW s \in Session, Ready(s), ExecQueryMessage(s)
      PROVE  UNCHANGED tcopVars \/ BlockCall(s)
  BY <1>1, Zenon
  DEF ExecQueryMessage, QueryTxn, TxnQuery, QueryOther, QueryPrepare, QueryExecute,
      QueryExecuteTxn, BlockCall
<1>2. ASSUME NEW s \in Session, Ready(s), ExtendedMessage(s)
      PROVE  UNCHANGED tcopVars \/ BlockCall(s)
  BY <1>2, Zenon
  DEF ExtendedMessage, ParseSkipped, Parse, Bind, ExecuteSkipped, ExecuteTxn, TxnQuery,
      ExecuteOther, CloseStatement, ClosePortal, BlockCall
<1>3. ASSUME NEW s \in Session, RunPlan(s) PROVE PlanStep(s)
  BY <1>3, Zenon DEF RunPlan, PlanStep
<1>4. CASE UNCHANGED vars
  BY <1>4, Zenon DEF vars
<1> QED
  BY <1>1, <1>2, <1>3, <1>4, ReadyIdle, Zenon DEF Next

LEMMA TcopInvStep ==
  ASSUME TypeOK, TcopInv, [Next]_vars PROVE TcopInv'
<1>1. CASE UNCHANGED tcopVars
  BY <1>1, Zenon DEF tcopVars, txnVars, TcopInv, TcopTypeOK, PlanTop, AbortedEnded, Top
<1> QED
  BY <1>1, Classified, BlockStepInv, PlanStepInv, Zenon DEF BlockStep, Reset

\* The state of the protocol.
LEMMA ProtocolStep ==
  ASSUME TypeOK, [Next]_vars PROVE ProtocolOK'
<1>1. ProtocolOK
  BY Types, Zenon
<1>2. ASSUME NEW s \in Session, NEW q, CompleteCommand(s, q)
      PROVE  txn_state_' \in [Session -> {"IDLE", "BLOCK"}]
  BY <1>1, <1>2, Zenon DEF CompleteCommand, ProtocolOK
<1>3. ASSUME NEW s \in Session, ExecQueryMessage(s) PROVE ProtocolOK'
  <2>1. ASSUME NEW q, QueryTxn(s, q) PROVE ProtocolOK'
    BY <1>1, <1>2, <2>1, Zenon DEF QueryTxn, ProtocolOK, skipVars
  <2>2. CASE QueryOther(s) \/ \E n \in {PrepareName} : QueryExecute(s, n) \/ QueryExecuteTxn(s, n)
    BY <1>1, <2>2, Zenon DEF QueryOther, QueryExecute, QueryExecuteTxn, ProtocolOK, skipVars
  <2>3. CASE \E q \in {"BEGIN", "COMMIT", "ROLLBACK", "OTHER"} : QueryPrepare(s, q)
    BY <1>1, <2>3, Zenon DEF QueryPrepare, ProtocolOK
  <2> QED
    BY <1>3, <2>1, <2>2, <2>3, Zenon DEF ExecQueryMessage
<1>4. ASSUME NEW s \in Session, ExtendedMessage(s) PROVE ProtocolOK'
  <2>1. ASSUME NEW q \in QueryType \union {""}, ParseSkipped(s, q) PROVE ProtocolOK'
    <3>1. AsBlockType(q) \in BlockType
      BY Zenon DEF AsBlockType, BlockType
    <3> QED
      BY <1>1, <2>1, <3>1, Zenon DEF ParseSkipped, ProtocolOK
  <2>2. CASE \E n \in Name, q \in QueryType : Parse(s, n, q)
    BY <1>1, <2>2, Zenon DEF Parse, ProtocolOK
  <2>3. CASE \E n \in Name : Bind(s, n)
    BY <1>1, <2>3, Zenon DEF Bind, ProtocolOK
  <2>4. CASE ExecuteSkipped(s)
    <3>1. txn_state_' \in [Session -> {"IDLE", "BLOCK"}]
      BY <1>1, <1>2, <2>4, Zenon DEF ExecuteSkipped, ProtocolOK
    <3> QED
      BY <1>1, <2>4, <3>1, Zenon DEF ExecuteSkipped, ProtocolOK
  <2>5. CASE ExecuteTxn(s)
    <3>1. txn_state_' \in [Session -> {"IDLE", "BLOCK"}]
      BY <1>1, <1>2, <2>5, Zenon DEF ExecuteTxn, ProtocolOK
    <3> QED
      BY <1>1, <2>5, <3>1, Zenon DEF ExecuteTxn, ProtocolOK, skipVars
  <2>6. CASE ExecuteOther(s) \/ CloseStatement(s) \/ ClosePortal(s)
    BY <1>1, <2>6, Zenon DEF ExecuteOther, CloseStatement, ClosePortal, ProtocolOK, skipVars
  <2> QED
    BY <1>4, <2>1, <2>2, <2>3, <2>4, <2>5, <2>6, Zenon DEF ExtendedMessage
<1>5. ASSUME NEW s \in Session, Reset(s) PROVE ProtocolOK'
  BY <1>1, <1>5, Zenon DEF Reset, ProtocolOK
<1>6. ASSUME NEW s \in Session, RunPlan(s) PROVE ProtocolOK'
  BY <1>1, <1>6, Zenon DEF RunPlan, Answer, ProtocolOK, skipVars
<1>7. CASE UNCHANGED vars
  BY <1>1, <1>7, Zenon DEF vars, ProtocolOK, skipVars
<1> QED
  BY <1>3, <1>4, <1>5, <1>6, <1>7, Zenon DEF Next

\* What a lookup finds is a statement.
LEMMA Found ==
  ASSUME CacheOK, NEW s \in Session, NEW n \in Name \union {PrepareName}, Cached(s, n)
  PROVE  /\ CacheFind(s, n) \in QueryType
         /\ Touch(s, n) => \E c \in Seq(Statements) :
              /\ statement_cache_' = [statement_cache_ EXCEPT ![s] = c]
              /\ Len(c) <= CACHE_SIZE /\ Distinct(c)
<1>1. statement_cache_[s] \in Seq(Statements) /\ Distinct(statement_cache_[s])
      /\ Len(statement_cache_[s]) <= CACHE_SIZE
  BY Zenon DEF CacheOK
<1>2. PICK i : i = PlaceOf(statement_cache_[s], n)
  BY Zenon
<1>3. i \in DOMAIN statement_cache_[s]
  BY <1>2, Zenon DEF Cached, Contains, PlaceOf
<1>4. CacheFind(s, n) \in QueryType
  BY <1>1, <1>2, <1>3 DEF CacheFind, Statements
<1>5. PICK c : c = <<<<n, CacheFind(s, n)>>>> \o Without(statement_cache_[s], n)
  BY Zenon
<1>6. c \in Seq(Statements) /\ Distinct(c) /\ Len(c) = Len(statement_cache_[s])
  BY <1>1, <1>4, <1>5, InFront, Zenon DEF Cached
<1>7. Touch(s, n) => statement_cache_' = [statement_cache_ EXCEPT ![s] = c]
  BY <1>5, Zenon DEF Touch
<1> QED
  BY <1>1, <1>4, <1>6, <1>7, Zenon

\* The statements of a session.
LEMMA CacheStep ==
  ASSUME TypeOK, [Next]_vars PROVE CacheOK'
<1>1. CacheOK
  BY Types, Zenon
<1>2. ASSUME NEW s \in Session, NEW c \in Seq(Statements), Len(c) <= CACHE_SIZE, Distinct(c),
             statement_cache_' = [statement_cache_ EXCEPT ![s] = c],
             unnamed_statement_' \in [Session -> QueryType \union {NONE}],
             portals_' \in [Session -> {"BEGIN", "COMMIT", "ROLLBACK", "OTHER", NONE}]
      PROVE  CacheOK'
  BY <1>1, <1>2, Zenon DEF CacheOK
<1>3. ASSUME UNCHANGED statement_cache_,
             unnamed_statement_' \in [Session -> QueryType \union {NONE}],
             portals_' \in [Session -> {"BEGIN", "COMMIT", "ROLLBACK", "OTHER", NONE}]
      PROVE  CacheOK'
  BY <1>1, <1>3, Zenon DEF CacheOK
<1>4. /\ unnamed_statement_ \in [Session -> QueryType \union {NONE}]
      /\ portals_ \in [Session -> {"BEGIN", "COMMIT", "ROLLBACK", "OTHER", NONE}]
  BY <1>1, Zenon DEF CacheOK
<1>5. CASE UNCHANGED cacheVars
  BY <1>1, <1>5, Zenon DEF CacheOK, cacheVars
<1>6. ASSUME NEW s \in Session, NEW n \in Name \union {PrepareName}, NEW q \in QueryType
      PROVE  /\ CacheInsert(statement_cache_[s], n, q) \in Seq(Statements)
             /\ Distinct(CacheInsert(statement_cache_[s], n, q))
             /\ Len(CacheInsert(statement_cache_[s], n, q)) <= CACHE_SIZE
  BY <1>1, Inserted, Zenon DEF CacheOK
<1>7. ASSUME NEW s \in Session, ExecQueryMessage(s) PROVE CacheOK'
  <2>1. ASSUME NEW q, QueryTxn(s, q) PROVE CacheOK'
    BY <1>5, <2>1, Zenon DEF QueryTxn
  <2>2. CASE QueryOther(s)
    BY <1>5, <2>2, Zenon DEF QueryOther
  <2>3. ASSUME NEW q \in {"BEGIN", "COMMIT", "ROLLBACK", "OTHER"}, QueryPrepare(s, q) PROVE CacheOK'
    <3>1. CASE statement_cache_' = [statement_cache_ EXCEPT ![s] =
                 CacheInsert(statement_cache_[s], PrepareName, q)]
      BY <1>2, <1>4, <1>6, <2>3, <3>1, Zenon DEF QueryPrepare, QueryType
    <3>2. CASE UNCHANGED statement_cache_
      BY <1>3, <1>4, <2>3, <3>2, Zenon DEF QueryPrepare
    <3> QED
      BY <2>3, <3>1, <3>2, Zenon DEF QueryPrepare
  <2>4. ASSUME NEW n \in {PrepareName}, QueryExecute(s, n) \/ QueryExecuteTxn(s, n)
        PROVE  CacheOK'
    BY <1>1, <1>2, <1>4, <2>4, Found, Zenon DEF QueryExecute, QueryExecuteTxn
  <2> QED
    BY <1>7, <2>1, <2>2, <2>3, <2>4, Zenon DEF ExecQueryMessage
<1>8. ASSUME NEW s \in Session, ExtendedMessage(s) PROVE CacheOK'
  <2>1. ASSUME NEW q, ParseSkipped(s, q) PROVE CacheOK'
    BY <1>5, <2>1, Zenon DEF ParseSkipped
  <2>2. ASSUME NEW n \in Name, NEW q \in QueryType, Parse(s, n, q) PROVE CacheOK'
    <3>1. unnamed_statement_' \in [Session -> QueryType \union {NONE}] /\ UNCHANGED portals_
      BY <1>4, <2>2, Zenon DEF Parse
    <3>2. CASE statement_cache_' = [statement_cache_ EXCEPT ![s] =
                 CacheInsert(statement_cache_[s], n, q)]
      BY <1>2, <1>4, <1>6, <3>1, <3>2, Zenon
    <3>3. CASE UNCHANGED statement_cache_
      BY <1>3, <1>4, <3>1, <3>3, Zenon
    <3> QED
      BY <2>2, <3>2, <3>3, Zenon DEF Parse
  <2>3. ASSUME NEW n \in Name, Bind(s, n) PROVE CacheOK'
    <3>1. /\ n = "" => unnamed_statement_[s] # NONE /\ UNCHANGED statement_cache_
          /\ n # "" => Cached(s, n) /\ Touch(s, n)
          /\ UNCHANGED unnamed_statement_
      BY <2>3, Zenon DEF Bind
    <3>2. Bound(s, n) \in QueryType
      BY <1>1, <1>4, <3>1, Found, Zenon DEF Bound
    <3>3. HardcodedExecuteFilter(s, Bound(s, n)) =>
            Bound(s, n) \in {"BEGIN", "COMMIT", "ROLLBACK", "OTHER", NONE}
      BY <3>2, Zenon DEF HardcodedExecuteFilter, QueryType
    <3>4. portals_' \in [Session -> {"BEGIN", "COMMIT", "ROLLBACK", "OTHER", NONE}]
      BY <1>4, <2>3, <3>3, Zenon DEF Bind
    <3>5. CASE n = ""
      BY <1>3, <1>4, <3>1, <3>4, <3>5, Zenon
    <3>6. CASE n # ""
      BY <1>1, <1>2, <1>4, <3>1, <3>4, <3>6, Found, Zenon
    <3> QED
      BY <3>5, <3>6, Zenon
  <2>4. CASE ExecuteSkipped(s) \/ ExecuteTxn(s) \/ ExecuteOther(s)
    BY <1>5, <2>4, Zenon DEF ExecuteSkipped, ExecuteTxn, ExecuteOther
  <2>5. CASE CloseStatement(s) \/ ClosePortal(s)
    <3>1. /\ UNCHANGED statement_cache_
          /\ unnamed_statement_' \in [Session -> QueryType \union {NONE}]
          /\ portals_' \in [Session -> {"BEGIN", "COMMIT", "ROLLBACK", "OTHER", NONE}]
      BY <1>4, <2>5, Zenon DEF CloseStatement, ClosePortal
    <3> QED
      BY <1>3, <3>1, Zenon
  <2> QED
    BY <1>8, <2>1, <2>2, <2>3, <2>4, <2>5, Zenon DEF ExtendedMessage
<1>9. ASSUME NEW s \in Session, Reset(s) PROVE CacheOK'
  <2>1. <<>> \in Seq(Statements) /\ Len(<<>>) <= CACHE_SIZE /\ Distinct(<<>>)
    BY SessionAssumption DEF Distinct
  <2>2. /\ statement_cache_' = [statement_cache_ EXCEPT ![s] = <<>>]
        /\ unnamed_statement_' \in [Session -> QueryType \union {NONE}]
        /\ portals_' \in [Session -> {"BEGIN", "COMMIT", "ROLLBACK", "OTHER", NONE}]
    BY <1>4, <1>9, Zenon DEF Reset
  <2> QED
    BY <1>2, <2>1, <2>2, Zenon
<1>10. ASSUME NEW s \in Session, RunPlan(s) PROVE CacheOK'
  BY <1>5, <1>10, Zenon DEF RunPlan, Answer
<1>11. CASE UNCHANGED vars
  BY <1>5, <1>11, Zenon DEF vars
<1> QED
  BY <1>7, <1>8, <1>9, <1>10, <1>11, Zenon DEF Next

\* The statement a session waits for is the one whose plan runs.
LEMMA RequestStep ==
  ASSUME TypeOK, TcopInv, [Next]_vars PROVE RequestOK'
<1>1. RequestOK /\ TcopTypeOK
  BY Types, Zenon
<1>a. ASSUME NEW s \in Session, NEW protocol \in Protocols, NEW result \in Results,
             NEW complete \in BOOLEAN, Reply(s, protocol, result, complete)
      PROVE  reply' \in [status : Results, session : Session, protocol : Protocols,
                         complete : BOOLEAN]
  BY <1>a, Zenon DEF Reply
<1>2. ASSUME UNCHANGED <<request, plan>>,
             Silent \/ UNCHANGED reply \/
               \E s \in Session, protocol \in Protocols, result \in Results, c \in BOOLEAN :
                 Reply(s, protocol, result, c)
      PROVE  RequestOK'
  <2>1. reply' \in {NoReply} \union
          [status : Results, session : Session, protocol : Protocols, complete : BOOLEAN]
    <3>1. CASE Silent
      BY <3>1, Zenon DEF Silent
    <3>2. CASE UNCHANGED reply
      BY <1>1, <3>2, Zenon DEF RequestOK
    <3>3. CASE \E s \in Session, protocol \in Protocols, result \in Results, c \in BOOLEAN :
                 Reply(s, protocol, result, c)
      BY <1>a, <3>3, Zenon
    <3> QED
      BY <1>2, <3>1, <3>2, <3>3, Zenon
  <2> QED
    BY <1>1, <1>2, <2>1, Zenon DEF RequestOK
<1>3. ASSUME NEW s \in Session, StartPlan(s), NEW r \in Protocols,
             request' = [request EXCEPT ![s] = r], Silent
      PROVE  RequestOK'
  <2>1. PICK t, b : plan' = [plan EXCEPT ![s] = [stage |-> "check", txn |-> t, single |-> b]]
    BY <1>3, Zenon DEF StartPlan, txnVars
  <2>2. plan'[s].stage = "check" /\ \A z \in Session \ {s} : plan'[z] = plan[z]
    BY <1>1, <2>1, Zenon DEF TcopTypeOK
  <2>3. plan'[s] # NoPlan /\ r # NONE
    BY <2>2 DEF NoPlan, NONE, Protocols
  <2> QED
    BY <1>1, <1>3, <2>2, <2>3, Zenon DEF RequestOK, Silent
<1>4. ASSUME NEW s \in Session, NEW q, NEW result, TxnQuery(s, q, result) PROVE UNCHANGED plan
  BY <1>4, Zenon DEF TxnQuery, BeginQueryHelper, CommitQueryHelper, AbortQueryHelper
<1>5. ASSUME NEW s \in Session, ExecQueryMessage(s) PROVE RequestOK'
  <2>1. ASSUME NEW q, QueryTxn(s, q) PROVE RequestOK'
    <3>1. PICK result \in Results : TxnQuery(s, q, result) /\ Reply(s, "simple", result, TRUE)
      BY <2>1, Zenon DEF QueryTxn
    <3> QED
      BY <1>2, <1>4, <2>1, <3>1, Zenon DEF QueryTxn, Protocols
  <2>2. CASE QueryOther(s)
    BY <1>3, <2>2, Zenon DEF QueryOther, Protocols
  <2>3. ASSUME NEW q, QueryPrepare(s, q) PROVE RequestOK'
    BY <1>2, <2>3, Zenon DEF QueryPrepare, tcopVars
  <2>4. ASSUME NEW n, QueryExecute(s, n) PROVE RequestOK'
    BY <1>3, <2>4, Zenon DEF QueryExecute, Protocols
  <2>5. ASSUME NEW n, QueryExecuteTxn(s, n) PROVE RequestOK'
    <3>1. PICK result \in Results : /\ TxnQuery(s, CacheFind(s, n), result)
                                   /\ Reply(s, "execute", result, result = "SUCCESS")
      BY <2>5, Zenon DEF QueryExecuteTxn
    <3> QED
      BY <1>2, <1>4, <2>5, <3>1, Zenon DEF QueryExecuteTxn, Protocols
  <2> QED
    BY <1>5, <2>1, <2>2, <2>3, <2>4, <2>5, Zenon DEF ExecQueryMessage
<1>6. ASSUME NEW s \in Session, ExtendedMessage(s) PROVE RequestOK'
  <2>1. CASE ExecuteTxn(s)
    <3>1. PICK result \in Results : /\ TxnQuery(s, portals_[s], result)
                                   /\ Reply(s, "extended", result, result # "ABORTED")
      BY <2>1, Zenon DEF ExecuteTxn
    <3> QED
      BY <1>2, <1>4, <2>1, <3>1, Zenon DEF ExecuteTxn, Protocols
  <2>2. CASE ExecuteOther(s)
    BY <1>3, <2>2, Zenon DEF ExecuteOther, Protocols
  <2>3. CASE Silent /\ UNCHANGED <<request, tcopVars>>
    BY <1>2, <2>3, Zenon DEF tcopVars
  <2> QED
    BY <1>6, <2>1, <2>2, <2>3, ZenonT(30)
    DEF ExtendedMessage, ParseSkipped, Parse, Bind, ExecuteSkipped, CloseStatement, ClosePortal
<1>7. ASSUME NEW s \in Session, Reset(s) PROVE RequestOK'
  BY <1>2, <1>7, Zenon DEF Reset, TcopReset
<1>8. ASSUME NEW s \in Session, RunPlan(s) PROVE RequestOK'
  <2>1. plan[s] # NoPlan
    BY <1>8, PlanStepInv, Zenon DEF RunPlan, PlanStep
  <2>2. request[s] \in Protocols
    BY <1>1, <2>1, Zenon DEF RequestOK
  <2>3. CASE CheckPlan(s) /\ Silent /\ UNCHANGED request
    <3>1. plan[s] \in Plan /\ plan' = [plan EXCEPT ![s].stage = "execute"]
      BY <1>1, <2>1, <2>3, Stack, Zenon DEF CheckPlan, txnVars
    <3>2. plan'[s].stage = "execute" /\ \A z \in Session \ {s} : plan'[z] = plan[z]
      BY <1>1, <3>1, Zenon DEF TcopTypeOK, Plan
    <3>3. plan'[s] # NoPlan
      BY <3>2 DEF NoPlan
    <3> QED
      BY <1>1, <2>1, <2>3, <3>2, <3>3, Zenon DEF RequestOK, Silent
  <2>4. ASSUME NEW result \in Results, Answer(s, result), plan' = [plan EXCEPT ![s] = NoPlan]
        PROVE  RequestOK'
    <3>1. reply' \in [status : Results, session : Session, protocol : Protocols,
                      complete : BOOLEAN]
      <4>1. (IF request[s] = "simple" THEN result # "FAILURE" ELSE result = "SUCCESS") \in BOOLEAN
        BY Zenon
      <4> QED
        BY <1>a, <2>2, <2>4, <4>1, Zenon DEF Answer
    <3> QED
      BY <1>1, <2>4, <3>1, Zenon DEF Answer, RequestOK, TcopTypeOK
  <2> QED
    BY <1>8, <2>3, <2>4, Zenon DEF RunPlan, SkipPlan, FinishPlan, Results
<1>9. CASE UNCHANGED vars
  BY <1>2, <1>9, Zenon DEF vars, tcopVars
<1> QED
  BY <1>5, <1>6, <1>7, <1>8, <1>9, Zenon DEF Next

LEMMA SessionInit == Init => IInv
<1> SUFFICES ASSUME Init PROVE IInv
  BY Zenon
<1>0. /\ \A E : <<>> \in Seq(E)
      /\ Len(<<>>) = 0 /\ DOMAIN <<>> = {}
  OBVIOUS
<1>1. TcopTypeOK /\ PlanTop /\ AbortedEnded
  <2>1. tcop_txn_state_ \in [Session -> Seq([txn : Txn, result : {"SUCCESS", "ABORTED"}])]
    BY <1>0, Zenon DEF Init, TcopInit
  <2>2. \A s \in Session : Len(tcop_txn_state_[s]) <= MaxDepth
    <3>1. 0 <= MaxDepth
      BY TcopAssumption
    <3>2. \A s \in Session : tcop_txn_state_[s] = <<>>
      BY Zenon DEF Init, TcopInit
    <3> QED
      BY <1>0, <3>1, <3>2, Zenon
  <2>3. TcopTypeOK
    BY <2>1, <2>2, Zenon DEF Init, TcopInit, TcopTypeOK
  <2> QED
    BY <1>0, <2>3, Zenon DEF Init, TcopInit, PlanTop, AbortedEnded
<1>2. ProtocolOK
  <2>1. PICK q \in BlockType : skipped_query_type_ =
          [s \in Session |-> IF client[s] = "extended" THEN q ELSE "OTHER"]
    BY Zenon DEF Init
  <2>2. skipped_query_type_ \in [Session -> BlockType]
    BY <2>1, Zenon DEF BlockType
  <2> QED
    BY <2>2, Zenon DEF Init, ProtocolOK
<1>3. CacheOK
  <2>1. statement_cache_ \in [Session -> Seq(Statements)]
    BY <1>0, Zenon DEF Init
  <2>2. \A s \in Session : statement_cache_[s] = <<>>
    BY Zenon DEF Init
  <2>3. \A s \in Session : Len(statement_cache_[s]) <= CACHE_SIZE /\ Distinct(statement_cache_[s])
    BY <1>0, <2>2, SessionAssumption DEF Distinct
  <2> QED
    BY <2>1, <2>3, Zenon DEF Init, CacheOK
<1>4. RequestOK
  BY Zenon DEF Init, TcopInit, RequestOK
<1> QED
  BY <1>1, <1>2, <1>3, <1>4, Types, Zenon DEF IInv

LEMMA SessionStep == IInv /\ [Next]_vars => IInv'
<1> SUFFICES ASSUME IInv, [Next]_vars PROVE IInv'
  BY Zenon
<1>1. TypeOK /\ TcopInv
  BY Types, Zenon DEF IInv, TcopInv
<1>2. TcopInv'
  BY <1>1, TcopInvStep, Zenon
<1>3. ProtocolOK' /\ CacheOK' /\ RequestOK'
  BY <1>1, ProtocolStep, CacheStep, RequestStep, Zenon
<1>4. TypeOK' <=> TcopTypeOK' /\ ProtocolOK' /\ CacheOK' /\ RequestOK'
  BY Zenon DEF TypeOK, ProtocolOK, CacheOK, RequestOK, Statements, Distinct
<1> QED
  BY <1>2, <1>3, <1>4, Zenon DEF IInv, TcopInv

LEMMA SessionInvariant == Spec => []IInv
BY SessionInit, SessionStep, PTL DEF Spec

\* Every value has its type: above all, a statement cache never holds more
\* than its capacity nor two statements of one name, and a session waits for
\* an answer exactly as long as a plan of its runs.
THEOREM SessionsTyped == Spec => []TypeOK
<1>1. IInv => TypeOK
  BY Zenon DEF IInv
<1> QED
  BY <1>1, SessionInvariant, PTL
-----------------------------------------------------------------------------
(* Transactions of a session: who holds one, and how one is lost *)

\* A step for one session leaves the others alone.
LEMMA Others ==
  ASSUME TcopInv, NEW s \in Session, BlockStep(s) \/ PlanStep(s),
         NEW z \in Session, z # s
  PROVE  tcop_txn_state_'[z] = tcop_txn_state_[z] /\ plan'[z] = plan[z]
<1>1. /\ DOMAIN tcop_txn_state_ = Session /\ DOMAIN plan = Session
      /\ tcop_txn_state_ = [x \in Session |-> tcop_txn_state_[x]]
      /\ plan = [x \in Session |-> plan[x]]
  BY Zenon DEF TcopInv, TcopTypeOK
<1>2. CASE BlockStep(s)
  BY <1>1, <1>2, Zenon
  DEF BlockStep, BlockCall, BeginQueryHelper, CommitQueryHelper, AbortQueryHelper, TcopReset,
      StartPlan, Pop
<1>3. CASE PlanStep(s)
  BY <1>1, <1>3, Zenon
  DEF PlanStep, CheckPlan, SkipPlan, FinishPlan, ThrowPlan, AbortPlan, CommitPlan
<1> QED
  BY <1>2, <1>3, Zenon

\* COMMIT and ROLLBACK end the transaction on top; of a block that is marked
\* as aborted it has been ended before.
LEMMA PopEffect ==
  ASSUME TcopInv, NEW s \in Session, NEW result,
         CommitQueryHelper(s, result) \/ AbortQueryHelper(s, result),
         tcop_txn_state_[s] # <<>>
  PROVE  /\ running' = running \ {Top(s).txn} /\ UNCHANGED <<plan, default_state>>
         /\ Len(tcop_txn_state_'[s]) = Len(tcop_txn_state_[s]) - 1
         /\ DOMAIN tcop_txn_state_'[s] = 1 .. Len(tcop_txn_state_[s]) - 1
         /\ \A i \in 1 .. Len(tcop_txn_state_[s]) - 1 :
              i \in DOMAIN tcop_txn_state_[s] /\ tcop_txn_state_'[s][i] = tcop_txn_state_[s][i]
<1>1. /\ tcop_txn_state_[s] \in Seq(Entry) /\ Len(tcop_txn_state_[s]) \in DOMAIN tcop_txn_state_[s]
      /\ DOMAIN tcop_txn_state_[s] = 1 .. Len(tcop_txn_state_[s])
      /\ Top(s) = tcop_txn_state_[s][Len(tcop_txn_state_[s])]
  BY Stack, Zenon DEF TcopInv
<1>2. /\ tcop_txn_state_' = Pop(s) /\ UNCHANGED <<plan, default_state>>
      /\ \/ running' = running \ {Top(s).txn}
         \/ Top(s).result = "ABORTED" /\ UNCHANGED running
  BY Zenon DEF CommitQueryHelper, AbortQueryHelper, CommitTransaction, AbortTransaction, txnVars
<1>3. Top(s).result = "ABORTED" => running = running \ {Top(s).txn}
  BY <1>1, Zenon DEF TcopInv, AbortedEnded
<1>4. PICK q : q = SubSeq(tcop_txn_state_[s], 1, Len(tcop_txn_state_[s]) - 1)
  BY Zenon
<1>5. tcop_txn_state_'[s] = q
  BY <1>2, <1>4, Zenon DEF Pop, TcopInv, TcopTypeOK
<1>6. /\ Len(q) = Len(tcop_txn_state_[s]) - 1 /\ DOMAIN q = 1 .. Len(tcop_txn_state_[s]) - 1
      /\ \A i \in 1 .. Len(tcop_txn_state_[s]) - 1 : q[i] = tcop_txn_state_[s][i]
  BY <1>1, <1>4, Popped, Zenon
<1>7. \A i \in 1 .. Len(tcop_txn_state_[s]) - 1 : i \in DOMAIN tcop_txn_state_[s]
  BY <1>1
<1> QED
  BY <1>2, <1>3, <1>5, <1>6, <1>7, Zenon

\* BEGIN puts a new transaction on top.
LEMMA PushEffect ==
  ASSUME TcopInv, NEW s \in Session, BeginQueryHelper(s)
  PROVE  /\ UNCHANGED <<plan, default_state>>
         /\ \E t \in Txn :
              /\ BeginTransaction(t)
              /\ Len(tcop_txn_state_'[s]) = Len(tcop_txn_state_[s]) + 1
              /\ DOMAIN tcop_txn_state_'[s] = 1 .. Len(tcop_txn_state_[s]) + 1
              /\ tcop_txn_state_'[s][Len(tcop_txn_state_[s]) + 1] = [txn |-> t, result |-> "SUCCESS"]
              /\ \A i \in 1 .. Len(tcop_txn_state_[s]) :
                   tcop_txn_state_'[s][i] = tcop_txn_state_[s][i]
<1>1. tcop_txn_state_[s] \in Seq(Entry)
  BY Stack, Zenon DEF TcopInv
<1>2. PICK t \in Txn : /\ BeginTransaction(t)
                       /\ tcop_txn_state_' = [tcop_txn_state_ EXCEPT ![s] =
                            Append(tcop_txn_state_[s], [txn |-> t, result |-> "SUCCESS"])]
  BY Zenon DEF BeginQueryHelper
<1>3. PICK e : e = [txn |-> t, result |-> "SUCCESS"]
  BY Zenon
<1>4. e \in Entry
  BY <1>3, Zenon DEF Entry
<1>5. tcop_txn_state_'[s] = Append(tcop_txn_state_[s], e)
  BY <1>2, <1>3, Zenon DEF TcopInv, TcopTypeOK
<1>6. /\ Len(tcop_txn_state_'[s]) = Len(tcop_txn_state_[s]) + 1
      /\ DOMAIN tcop_txn_state_'[s] = 1 .. Len(tcop_txn_state_[s]) + 1
      /\ tcop_txn_state_'[s][Len(tcop_txn_state_[s]) + 1] = e
      /\ \A i \in 1 .. Len(tcop_txn_state_[s]) :
           tcop_txn_state_'[s][i] = tcop_txn_state_[s][i]
  BY <1>1, <1>4, <1>5, Pushed
<1> QED
  BY <1>2, <1>3, <1>6, Zenon DEF BeginQueryHelper

\* A plan that ends leaves the entries of the stack where they are; the one
\* on top may be marked as aborted.
LEMMA EndEffect ==
  ASSUME TcopInv, NEW s \in Session, plan[s] # NoPlan, NEW result,
         SkipPlan(s) \/ FinishPlan(s, result)
  PROVE  /\ plan'[s] = NoPlan
         /\ Len(tcop_txn_state_'[s]) = Len(tcop_txn_state_[s])
         /\ DOMAIN tcop_txn_state_'[s] = DOMAIN tcop_txn_state_[s]
         /\ \A i \in DOMAIN tcop_txn_state_[s] :
              tcop_txn_state_'[s][i].txn = tcop_txn_state_[s][i].txn
         /\ \/ UNCHANGED <<tcop_txn_state_, running>>
            \/ running' = running \ {plan[s].txn} /\ plan[s].single /\ UNCHANGED tcop_txn_state_
            \/ running' = running \ {plan[s].txn} /\ "init_failure" \in Outcome
                 /\ UNCHANGED tcop_txn_state_
            \/ /\ running' = running \ {plan[s].txn} /\ ~plan[s].single
               /\ tcop_txn_state_[s] # <<>>
               /\ tcop_txn_state_'[s][Len(tcop_txn_state_[s])].result = "ABORTED"
               /\ \A i \in DOMAIN tcop_txn_state_[s] : i # Len(tcop_txn_state_[s]) =>
                    tcop_txn_state_'[s][i] = tcop_txn_state_[s][i]
<1>1. plan'[s] = NoPlan
  BY Zenon DEF SkipPlan, FinishPlan, TcopInv, TcopTypeOK
<1>2. CASE /\ running' = running \ {plan[s].txn} /\ ~plan[s].single
           /\ tcop_txn_state_' = [tcop_txn_state_ EXCEPT
                ![s][Len(tcop_txn_state_[s])].result = "ABORTED"]
  <2>1. PICK q : q = [tcop_txn_state_[s] EXCEPT ![Len(tcop_txn_state_[s])].result = "ABORTED"]
    BY Zenon
  <2>2. tcop_txn_state_'[s] = q
    BY <1>2, <2>1, Zenon DEF TcopInv, TcopTypeOK
  <2>3. tcop_txn_state_[s] \in Seq(Entry) /\ tcop_txn_state_[s] # <<>>
    BY <1>2, Stack, Zenon DEF TcopInv, PlanTop
  <2> QED
    BY <1>1, <1>2, <2>1, <2>2, <2>3, Marked
<1>3. CASE UNCHANGED tcop_txn_state_ /\
           \/ UNCHANGED running
           \/ running' = running \ {plan[s].txn} /\ plan[s].single
           \/ running' = running \ {plan[s].txn} /\ "init_failure" \in Outcome
  BY <1>1, <1>3, Zenon
<1> QED
  BY <1>2, <1>3, Zenon DEF SkipPlan, FinishPlan, ThrowPlan, AbortPlan, CommitPlan, CommitTransaction, AbortTransaction, txnVars

\* The steps by which one is lost.
LEMMA LossStep ==
  ASSUME TypeOK, TcopInv, [Next]_vars, NEW s \in Session,
         NEW t \in Referenced(s) \intersect running, t \in running' \ Referenced(s)'
  PROVE  \/ plan[s] = NoPlan /\ Reset(s)
         \/ /\ plan[s] # NoPlan /\ plan[s].single /\ t = plan[s].txn
            /\ \/ plan[s].stage = "execute" /\ Answers(s, "FAILURE")
               \/ /\ plan[s].stage = "check" /\ default_state = "ABORTED"
                  /\ Answers(s, "ABORTED")
<1>1. /\ \/ \E i \in DOMAIN tcop_txn_state_[s] : t = tcop_txn_state_[s][i].txn
         \/ plan[s] # NoPlan /\ t = plan[s].txn
      /\ \A i \in DOMAIN tcop_txn_state_'[s] : t # tcop_txn_state_'[s][i].txn
      /\ plan'[s] # NoPlan => t # plan'[s].txn
      /\ t \in running /\ t \in running'
  BY ZenonT(30) DEF Referenced
<1>2. /\ tcop_txn_state_[s] \in Seq(Entry) /\ Len(tcop_txn_state_[s]) \in Nat
      /\ DOMAIN tcop_txn_state_[s] = 1 .. Len(tcop_txn_state_[s])
      /\ tcop_txn_state_[s] # <<>> =>
           /\ Len(tcop_txn_state_[s]) \in DOMAIN tcop_txn_state_[s]
           /\ Top(s) = tcop_txn_state_[s][Len(tcop_txn_state_[s])]
      /\ plan[s] # NoPlan => plan[s].single \in BOOLEAN /\ plan[s] \in Plan
  BY Stack, Zenon DEF TcopInv
<1>3. CASE UNCHANGED tcopVars
  BY <1>1, <1>3, Zenon DEF tcopVars, txnVars
<1>4. ASSUME NEW z \in Session, z # s, BlockStep(z) \/ PlanStep(z)
      PROVE  FALSE
  BY <1>1, <1>4, Others, ZenonT(30)
<1>5. ASSUME plan[s] = NoPlan, BlockCall(s) PROVE FALSE
  <2>1. PICK i \in DOMAIN tcop_txn_state_[s] : t = tcop_txn_state_[s][i].txn
    BY <1>1, <1>5, Zenon
  <2>2. CASE BeginQueryHelper(s)
    <3>1. i \in 1 .. Len(tcop_txn_state_[s]) /\ i \in 1 .. Len(tcop_txn_state_[s]) + 1
      BY <1>2, <2>1
    <3>2. i \in DOMAIN tcop_txn_state_'[s] /\ tcop_txn_state_'[s][i] = tcop_txn_state_[s][i]
      BY <2>2, <3>1, PushEffect, Zenon
    <3> QED
      BY <1>1, <2>1, <3>2, Zenon
  <2>3. ASSUME NEW result, CommitQueryHelper(s, result) \/ AbortQueryHelper(s, result)
        PROVE  FALSE
    <3>1. tcop_txn_state_[s] # <<>>
      BY <1>2, <2>1
    <3>2. t # Top(s).txn
      BY <1>1, <2>3, <3>1, PopEffect, Zenon
    <3>3. i \in 1 .. Len(tcop_txn_state_[s]) - 1
      BY <1>2, <2>1, <3>1, <3>2
    <3> QED
      BY <1>1, <2>1, <2>3, <3>1, <3>3, PopEffect, ZenonT(30)
  <2>4. CASE StartPlan(s)
    BY <1>1, <2>1, <2>4, ZenonT(30) DEF StartPlan, txnVars
  <2> QED
    BY <1>5, <2>2, <2>3, <2>4, Zenon DEF BlockCall
<1>6. ASSUME PlanStep(s), RunPlan(s)
      PROVE  /\ plan[s] # NoPlan /\ plan[s].single /\ t = plan[s].txn
             /\ \/ plan[s].stage = "execute" /\ Answers(s, "FAILURE")
                \/ /\ plan[s].stage = "check" /\ default_state = "ABORTED"
                   /\ Answers(s, "ABORTED")
  <2>1. plan[s] # NoPlan
    BY <1>6, PlanStepInv, Zenon
  <2>2. ~CheckPlan(s)
    <3> SUFFICES ASSUME CheckPlan(s) PROVE FALSE
      BY Zenon
    <3>1. plan'[s] = [plan[s] EXCEPT !.stage = "execute"] /\ UNCHANGED tcop_txn_state_
      BY Zenon DEF CheckPlan, txnVars, TcopInv, TcopTypeOK
    <3>2. plan'[s].txn = plan[s].txn /\ plan'[s].stage = "execute"
      BY <1>2, <2>1, <3>1, Zenon DEF Plan
    <3>3. plan'[s] # NoPlan
      BY <3>2 DEF NoPlan
    <3> QED
      BY <1>1, <3>1, <3>2, <3>3, Zenon
  <2>3. PICK result : \/ SkipPlan(s) /\ Answer(s, "ABORTED")
                      \/ FinishPlan(s, result) /\ Answer(s, result)
    BY <1>6, <2>2, ZenonT(30) DEF RunPlan
  <2>4. \A i \in DOMAIN tcop_txn_state_[s] : t # tcop_txn_state_[s][i].txn
    BY <1>1, <2>1, <2>3, EndEffect, ZenonT(30)
  <2>5. t = plan[s].txn
    BY <1>1, <2>4, Zenon
  <2>6. plan[s].single
    BY <1>2, <2>1, <2>4, <2>5, ZenonT(30) DEF TcopInv, PlanTop
  <2>7. ASSUME NEW status, Answer(s, status) PROVE Answers(s, status)
    BY <2>7, Zenon DEF Answer, Reply, Answers
  <2>8. CASE SkipPlan(s) /\ Answer(s, "ABORTED")
    BY <2>1, <2>5, <2>6, <2>7, <2>8, Zenon DEF SkipPlan, CurrState
  <2>9. CASE FinishPlan(s, result) /\ Answer(s, result)
    <3>1. t \notin running \ {plan[s].txn}
      BY <2>5, Zenon
    <3>2. plan[s].stage = "execute" /\ result = "FAILURE"
      BY <1>1, <2>6, <2>9, <3>1, ZenonT(30)
      DEF FinishPlan, ThrowPlan, AbortPlan, CommitPlan, CommitTransaction, AbortTransaction
    <3> QED
      BY <2>1, <2>5, <2>6, <2>7, <2>9, <3>2, Zenon
  <2> QED
    BY <2>3, <2>8, <2>9, Zenon
<1> QED
  BY <1>3, <1>4, <1>5, <1>6, Classified, Zenon DEF BlockStep, Reset

\* There is no other way to lose a transaction that runs: whatever the
\* outcomes of the plans and however the sessions interleave on the state
\* they share, it is a closed connection, a plan that throws outside a block,
\* with a FAILURE for an answer, or the abort of another thread between the
\* start of a single statement and its test of the shared state.
THEOREM TransactionsAreLostOnly == Spec => LostOnly
<1>1. IInv /\ [Next]_vars =>
        [\A s \in Session : \A t \in Referenced(s) \intersect running :
           t \in running' \ Referenced(s)' =>
             \/ plan[s] = NoPlan /\ Reset(s)
             \/ /\ plan[s] # NoPlan /\ plan[s].single /\ t = plan[s].txn
                /\ \/ plan[s].stage = "execute" /\ Answers(s, "FAILURE")
                   \/ /\ plan[s].stage = "check" /\ default_state = "ABORTED"
                      /\ Answers(s, "ABORTED")]_vars
  <2> SUFFICES ASSUME IInv, [Next]_vars, NEW s \in Session,
                      NEW t \in Referenced(s) \intersect running, t \in running' \ Referenced(s)'
               PROVE  \/ plan[s] = NoPlan /\ Reset(s)
                      \/ /\ plan[s] # NoPlan /\ plan[s].single /\ t = plan[s].txn
                         /\ \/ plan[s].stage = "execute" /\ Answers(s, "FAILURE")
                            \/ /\ plan[s].stage = "check" /\ default_state = "ABORTED"
                               /\ Answers(s, "ABORTED")
    BY Zenon
  <2>1. TypeOK /\ TcopInv
    BY Types, Zenon DEF IInv, TcopInv
  <2> QED
    BY <2>1, LossStep, Zenon
<1> QED
  BY <1>1, SessionInvariant, PTL DEF Spec, LostOnly
-----------------------------------------------------------------------------
(* Pointers to transactions *)

\* The executors of every plan start: DInit of the plan's executor tree does
\* not return false.
ExecutorsStart == "init_failure" \notin Outcome

Live(s) ==
  /\ \A i, j \in DOMAIN tcop_txn_state_[s] :
       tcop_txn_state_[s][i].txn = tcop_txn_state_[s][j].txn => i = j
  /\ \A i \in DOMAIN tcop_txn_state_[s] :
       tcop_txn_state_[s][i].result # "ABORTED" => tcop_txn_state_[s][i].txn \in running
  /\ plan[s] # NoPlan
       /\ (plan[s].single \/ plan[s].stage = "execute" \/ Top(s).result # "ABORTED")
       => plan[s].txn \in running
Apart == \A s, z \in Session : s # z => Referenced(s) \intersect Referenced(z) = {}

LEMMA LiveApart == PointersLive <=> (\A s \in Session : Live(s)) /\ Apart
BY Zenon DEF PointersLive, Live, Apart

LEMMA KeptLive == PointersLive /\ UNCHANGED tcopVars => PointersLive'
<1> SUFFICES ASSUME PointersLive, UNCHANGED tcopVars PROVE PointersLive'
  BY Zenon
<1>1. \A z \in Session : Referenced(z)' = Referenced(z) /\ Top(z)' = Top(z)
  BY Zenon DEF tcopVars, Referenced, Top
<1>2. Apart'
  BY <1>1, LiveApart, Zenon DEF Apart
<1>3. \A z \in Session : Live(z)'
  BY <1>1, LiveApart, ZenonT(30) DEF Live, tcopVars, txnVars
<1>4. (\A z \in Session : Live(z)') /\ Apart' => PointersLive'
  BY ZenonT(30) DEF PointersLive, Live, Apart
<1> QED
  BY <1>2, <1>3, <1>4, Zenon

LEMMA PlanFields ==
  ASSUME NEW t, NEW b, NEW p, p = [stage |-> "check", txn |-> t, single |-> b]
  PROVE  p.stage = "check" /\ p.txn = t /\ p.single = b
BY ZenonT(30)

\* A session starts a plan of a transaction that runs.
LEMMA StartLive ==
  ASSUME NEW s \in Session, Live(s), UNCHANGED tcop_txn_state_, running \subseteq running',
         \/ plan'[s].txn \in running'
         \/ plan'[s].single = FALSE /\ plan'[s].stage = "check" /\ Top(s)'.result = "ABORTED"
  PROVE  Live(s)'
<1>1. \A i, j \in DOMAIN tcop_txn_state_'[s] :
        tcop_txn_state_'[s][i].txn = tcop_txn_state_'[s][j].txn => i = j
  BY ZenonT(30) DEF Live
<1>2. \A i \in DOMAIN tcop_txn_state_'[s] :
       tcop_txn_state_'[s][i].result # "ABORTED" => tcop_txn_state_'[s][i].txn \in running'
  BY Zenon DEF Live
<1> QED
  BY <1>1, <1>2, ZenonT(30) DEF Live

\* A step for one session that ends just its own transactions, and takes
\* none but its own and new ones.
LEMMA OneLive ==
  ASSUME PointersLive, NEW s \in Session, Live(s)',
         \A z \in Session : z # s =>
           tcop_txn_state_'[z] = tcop_txn_state_[z] /\ plan'[z] = plan[z],
         running \ running' \subseteq Referenced(s),
         \A t \in Referenced(s)' :
           t \in Referenced(s) \/ \A z \in Session : t \notin Referenced(z)
  PROVE  PointersLive'
<1>1. \A z \in Session : z # s => Referenced(z)' = Referenced(z)
  <2> SUFFICES ASSUME NEW z \in Session, z # s PROVE Referenced(z)' = Referenced(z)
    BY ZenonT(30)
  <2>1. tcop_txn_state_'[z] = tcop_txn_state_[z] /\ plan'[z] = plan[z]
    BY ZenonT(30)
  <2> QED
    BY ONLY <2>1 DEF Referenced
<1>2. Apart'
  <2>1. \A z \in Session : z # s => Referenced(s)' \intersect Referenced(z) = {}
    BY LiveApart, Zenon DEF Apart
  <2> SUFFICES ASSUME NEW x \in Session, NEW z \in Session, x # z
               PROVE  Referenced(x)' \intersect Referenced(z)' = {}
    BY Zenon DEF Apart
  <2>2. CASE x # s /\ z # s
    BY <1>1, <2>2, LiveApart, Zenon DEF Apart
  <2>3. CASE x = s
    BY <1>1, <2>1, <2>3, Zenon
  <2>4. CASE z = s
    BY <1>1, <2>1, <2>4, SMTT(30)
  <2> QED
    BY <2>2, <2>3, <2>4, Zenon
<1>3. ASSUME NEW z \in Session, z # s PROVE Live(z)'
  <2>1. Live(z) /\ Referenced(z) \intersect (running \ running') = {}
    BY <1>3, LiveApart, ZenonT(30) DEF Apart
  <2>2. \A i \in DOMAIN tcop_txn_state_[z] : tcop_txn_state_[z][i].txn \in Referenced(z)
    BY ZenonT(30) DEF Referenced
  <2>3. plan[z] # NoPlan => plan[z].txn \in Referenced(z)
    BY ZenonT(30) DEF Referenced
  <2>4. Top(z)' = Top(z)
    BY <1>3, Zenon DEF Top
  <2> QED
    BY <1>3, <2>1, <2>2, <2>3, <2>4, ZenonT(30) DEF Live
<1>4. (\A z \in Session : Live(z)') /\ Apart' => PointersLive'
  BY Zenon DEF PointersLive, Live, Apart
<1> QED
  BY <1>2, <1>3, <1>4, Zenon

\* The queries that begin and end a block.
LEMMA BlockLive ==
  ASSUME TcopInv, PointersLive, NEW s \in Session, plan[s] = NoPlan, BlockStep(s)
  PROVE  PointersLive'
<1>0. \A z \in Session : z # s =>
        tcop_txn_state_'[z] = tcop_txn_state_[z] /\ plan'[z] = plan[z]
  BY Others, ZenonT(30)
<1>1. /\ tcop_txn_state_[s] \in Seq(Entry) /\ Len(tcop_txn_state_[s]) \in Nat
      /\ DOMAIN tcop_txn_state_[s] = 1 .. Len(tcop_txn_state_[s])
      /\ tcop_txn_state_[s] # <<>> =>
           /\ Len(tcop_txn_state_[s]) \in DOMAIN tcop_txn_state_[s]
           /\ Top(s) = tcop_txn_state_[s][Len(tcop_txn_state_[s])]
  BY Stack, ZenonT(30) DEF TcopInv
<1>2. Live(s)
  BY LiveApart, Zenon
<1>3. /\ Referenced(s) = {tcop_txn_state_[s][i].txn : i \in DOMAIN tcop_txn_state_[s]}
      /\ plan'[s] = NoPlan =>
           Referenced(s)' = {tcop_txn_state_'[s][i].txn : i \in DOMAIN tcop_txn_state_'[s]}
  BY ZenonT(30) DEF Referenced
<1>4. CASE BeginQueryHelper(s)
  <2> DEFINE n == Len(tcop_txn_state_[s])
  <2>1. PICK t \in Txn :
          /\ BeginTransaction(t)
          /\ DOMAIN tcop_txn_state_'[s] = 1 .. n + 1
          /\ tcop_txn_state_'[s][n + 1] = [txn |-> t, result |-> "SUCCESS"]
          /\ \A i \in 1 .. n : tcop_txn_state_'[s][i] = tcop_txn_state_[s][i]
    BY <1>4, PushEffect, Zenon
  <2>2. UNCHANGED plan /\ running' = running \union {t}
        /\ \A z \in Session : t \notin Referenced(z)
    BY <1>4, <2>1, Zenon DEF BeginQueryHelper, BeginTransaction
  <2>3. ASSUME NEW i \in DOMAIN tcop_txn_state_'[s]
        PROVE  \/ i \in DOMAIN tcop_txn_state_[s] /\ tcop_txn_state_'[s][i] = tcop_txn_state_[s][i]
               \/ i = n + 1 /\ tcop_txn_state_'[s][i].txn = t
    <3>1. i \in 1 .. n \/ i = n + 1
      BY <1>1, <2>1, SMTT(30)
    <3>2. tcop_txn_state_'[s][n + 1].txn = t
      BY <2>1, SMTT(30)
    <3> QED
      BY <1>1, <2>1, <3>1, <3>2, Zenon
  <2>4. \A i \in DOMAIN tcop_txn_state_[s] : tcop_txn_state_[s][i].txn # t
    BY <1>3, <2>2, Zenon
  <2>5. Live(s)'
    <3>1. ASSUME NEW i \in DOMAIN tcop_txn_state_'[s], NEW j \in DOMAIN tcop_txn_state_'[s],
                 tcop_txn_state_'[s][i].txn = tcop_txn_state_'[s][j].txn
          PROVE  i = j
      BY <1>2, <2>3, <2>4, <3>1, ZenonT(30) DEF Live
    <3>2. ASSUME NEW i \in DOMAIN tcop_txn_state_'[s], tcop_txn_state_'[s][i].result # "ABORTED"
          PROVE  tcop_txn_state_'[s][i].txn \in running'
      BY <1>2, <2>2, <2>3, <3>2, ZenonT(30) DEF Live
    <3> QED
      BY <2>2, <3>1, <3>2, ZenonT(30) DEF Live
  <2>6. \A u \in Referenced(s)' :
          u \in Referenced(s) \/ \A z \in Session : u \notin Referenced(z)
    <3>1. plan'[s] = NoPlan
      BY <2>2, Zenon
    <3>2. \A i \in DOMAIN tcop_txn_state_'[s] :
            tcop_txn_state_'[s][i].txn \in Referenced(s) \union {t}
      BY <1>3, <2>3, Zenon
    <3>3. Referenced(s)' \subseteq Referenced(s) \union {t}
      <4>1. Referenced(s)' = {tcop_txn_state_'[s][i].txn : i \in DOMAIN tcop_txn_state_'[s]}
        BY <1>3, <3>1, Zenon
      <4> QED
        BY <3>2, <4>1, Zenon
    <3> QED
      BY <2>2, <3>3, Zenon
  <2> QED
    BY <1>0, <2>2, <2>5, <2>6, OneLive, ZenonT(30)
<1>5. ASSUME NEW result, CommitQueryHelper(s, result) \/ AbortQueryHelper(s, result)
      PROVE  PointersLive'
  <2>1. CASE tcop_txn_state_[s] = <<>>
    <3>1. UNCHANGED tcopVars
      BY <1>5, <2>1, ZenonT(30) DEF CommitQueryHelper, AbortQueryHelper, tcopVars, txnVars
    <3> QED
      BY <3>1, KeptLive, Zenon
  <2>2. CASE tcop_txn_state_[s] # <<>>
    <3>1. /\ running' = running \ {Top(s).txn} /\ UNCHANGED plan
          /\ DOMAIN tcop_txn_state_'[s] = 1 .. Len(tcop_txn_state_[s]) - 1
          /\ \A i \in 1 .. Len(tcop_txn_state_[s]) - 1 :
              i \in DOMAIN tcop_txn_state_[s] /\ tcop_txn_state_'[s][i] = tcop_txn_state_[s][i]
      BY <1>5, <2>2, PopEffect, ZenonT(30)
    <3>2. \A i \in DOMAIN tcop_txn_state_'[s] :
            /\ i \in DOMAIN tcop_txn_state_[s] /\ tcop_txn_state_'[s][i] = tcop_txn_state_[s][i]
            /\ i # Len(tcop_txn_state_[s])
      BY <1>1, <3>1
    <3>3. Live(s)'
      BY <1>1, <1>2, <2>2, <3>1, <3>2, Zenon DEF Live
    <3>4. Top(s).txn \in Referenced(s) /\ Referenced(s)' \subseteq Referenced(s)
      BY <1>1, <1>3, <2>2, <3>1, <3>2, Zenon
    <3> QED
      BY <1>0, <3>1, <3>3, <3>4, OneLive, ZenonT(30)
  <2> QED
    BY <2>1, <2>2, ZenonT(30)
<1>6. CASE TcopReset(s)
  <2>1. tcop_txn_state_'[s] = <<>> /\ UNCHANGED <<plan, running>>
    BY <1>6, Zenon DEF TcopReset, txnVars, TcopInv, TcopTypeOK
  <2>2. DOMAIN tcop_txn_state_'[s] = {}
    <3>1. DOMAIN <<>> = {}
      BY SMTT(30)
    <3> QED
      BY <2>1, <3>1, Zenon
  <2>3. Live(s)' /\ Referenced(s)' = {}
    BY <1>3, <2>1, <2>2, ZenonT(30) DEF Live
  <2> QED
    BY <1>0, <2>1, <2>3, OneLive, ZenonT(30)
<1>7. CASE StartPlan(s)
  <2>1. CASE tcop_txn_state_[s] = <<>>
    <3>1. PICK t \in Txn :
            /\ BeginTransaction(t) /\ UNCHANGED tcop_txn_state_
            /\ plan' = [plan EXCEPT ![s] = [stage |-> "check", txn |-> t, single |-> TRUE]]
      BY <1>7, <2>1, ZenonT(30) DEF StartPlan, txnVars
    <3>2. plan'[s] = [stage |-> "check", txn |-> t, single |-> TRUE]
      BY <3>1, Zenon DEF TcopInv, TcopTypeOK
    <3>3. /\ plan'[s].txn = t /\ running' = running \union {t}
          /\ \A z \in Session : t \notin Referenced(z)
      BY <3>1, <3>2 DEF BeginTransaction
    <3>4. Live(s)'
      <4>1. /\ UNCHANGED tcop_txn_state_ /\ running \subseteq running'
            /\ plan'[s].txn \in running'
        BY <3>1, <3>3
      <4> QED
        BY <1>2, <4>1, StartLive, Zenon
    <3>5. Referenced(s)' \subseteq Referenced(s) \union {t}
      BY <1>3, <3>1, <3>3, ZenonT(30) DEF Referenced
    <3> QED
      BY <1>0, <3>3, <3>4, <3>5, OneLive, ZenonT(30)
  <2>2. CASE tcop_txn_state_[s] # <<>>
    <3>1. /\ UNCHANGED <<tcop_txn_state_, running>>
          /\ plan' = [plan EXCEPT ![s] = [stage |-> "check", txn |-> Top(s).txn, single |-> FALSE]]
      BY <1>7, <2>2, Zenon DEF StartPlan, txnVars
    <3>2. plan'[s] = [stage |-> "check", txn |-> Top(s).txn, single |-> FALSE]
      BY <3>1, ZenonT(30) DEF TcopInv, TcopTypeOK
    <3>3. plan'[s].txn = Top(s).txn /\ plan'[s].stage = "check" /\ plan'[s].single = FALSE
      BY ONLY <3>2
    <3>4. Top(s)' = Top(s)
      BY <3>1, Zenon DEF Top
    <3>5. Live(s)'
      <4>1. Top(s).result # "ABORTED" => Top(s).txn \in running
        BY <1>1, <1>2, <2>2, ZenonT(30) DEF Live
      <4>2. /\ UNCHANGED tcop_txn_state_ /\ running \subseteq running'
            /\ \/ plan'[s].txn \in running'
               \/ plan'[s].single = FALSE /\ plan'[s].stage = "check" /\ Top(s)'.result = "ABORTED"
        BY <3>1, <3>3, <3>4, <4>1
      <4> QED
        BY <1>2, <4>2, StartLive, Zenon
    <3>6. Referenced(s)' \subseteq Referenced(s)
      BY <1>1, <1>3, <2>2, <3>1, <3>3, ZenonT(30) DEF Referenced
    <3> QED
      BY <1>0, <3>1, <3>5, <3>6, OneLive, ZenonT(30)
  <2> QED
    BY <2>1, <2>2, Zenon
<1> QED
  BY <1>4, <1>5, <1>6, <1>7, ZenonT(30) DEF BlockStep, BlockCall

\* The three parts of ExecuteStatementPlan.
LEMMA PlanLive ==
  ASSUME TcopInv, PointersLive, ExecutorsStart, NEW s \in Session, PlanStep(s)
  PROVE  PointersLive'
<1>0. /\ \A z \in Session : z # s =>
           tcop_txn_state_'[z] = tcop_txn_state_[z] /\ plan'[z] = plan[z]
      /\ plan[s] # NoPlan
  BY Others, PlanStepInv, Zenon
<1>1. /\ tcop_txn_state_[s] \in Seq(Entry) /\ Len(tcop_txn_state_[s]) \in Nat
      /\ DOMAIN tcop_txn_state_[s] = 1 .. Len(tcop_txn_state_[s])
      /\ tcop_txn_state_[s] # <<>> =>
           /\ Len(tcop_txn_state_[s]) \in DOMAIN tcop_txn_state_[s]
           /\ Top(s) = tcop_txn_state_[s][Len(tcop_txn_state_[s])]
      /\ plan[s].single \in BOOLEAN /\ plan[s] \in Plan
  BY <1>0, Stack, ZenonT(30) DEF TcopInv
<1>2. Live(s)
  BY LiveApart, Zenon
<1>3. /\ plan[s].txn \in Referenced(s)
      /\ {tcop_txn_state_[s][i].txn : i \in DOMAIN tcop_txn_state_[s]} \subseteq Referenced(s)
  BY <1>0, ZenonT(30) DEF Referenced
<1>4. CASE CheckPlan(s)
  <2>1. plan'[s] = [plan[s] EXCEPT !.stage = "execute"]
        /\ UNCHANGED <<tcop_txn_state_, running, default_state>>
    BY <1>4, Zenon DEF CheckPlan, txnVars, TcopInv, TcopTypeOK
  <2>2. plan'[s].txn = plan[s].txn /\ plan'[s].single = plan[s].single
    BY <1>1, <2>1, Zenon DEF Plan
  <2>3. plan[s].single \/ Top(s).result # "ABORTED"
    BY <1>1, <1>4, Zenon DEF CheckPlan, CurrState
  <2>4. plan[s].txn \in running
    BY <1>0, <1>2, <2>3, ZenonT(30) DEF Live
  <2>5. Live(s)'
    BY <1>2, <2>1, <2>2, <2>4, Zenon DEF Live
  <2>6. Referenced(s)' \subseteq Referenced(s)
    BY <1>0, <2>1, <2>2, Zenon DEF Referenced
  <2> QED
    BY <1>0, <2>1, <2>5, <2>6, OneLive, Zenon
<1>5. ASSUME NEW result, SkipPlan(s) \/ FinishPlan(s, result) PROVE PointersLive'
  <2>1. /\ plan'[s] = NoPlan
        /\ DOMAIN tcop_txn_state_'[s] = DOMAIN tcop_txn_state_[s]
        /\ \A i \in DOMAIN tcop_txn_state_[s] :
              tcop_txn_state_'[s][i].txn = tcop_txn_state_[s][i].txn
    BY <1>0, <1>5, EndEffect, ZenonT(30)
  <2>2. \/ UNCHANGED <<tcop_txn_state_, running>>
        \/ running' = running \ {plan[s].txn} /\ plan[s].single /\ UNCHANGED tcop_txn_state_
        \/ /\ running' = running \ {plan[s].txn} /\ ~plan[s].single
           /\ tcop_txn_state_[s] # <<>>
           /\ tcop_txn_state_'[s][Len(tcop_txn_state_[s])].result = "ABORTED"
           /\ \A i \in DOMAIN tcop_txn_state_[s] : i # Len(tcop_txn_state_[s]) =>
                tcop_txn_state_'[s][i] = tcop_txn_state_[s][i]
    BY <1>0, <1>5, EndEffect, ZenonT(30) DEF ExecutorsStart
  <2>3. \A i \in DOMAIN tcop_txn_state_'[s] :
          tcop_txn_state_'[s][i].result # "ABORTED" => tcop_txn_state_'[s][i].txn \in running'
    <3>1. CASE UNCHANGED <<tcop_txn_state_, running>>
      BY <1>2, <3>1, ZenonT(30) DEF Live
    <3>2. CASE plan[s].single /\ UNCHANGED tcop_txn_state_
      <4>1. tcop_txn_state_[s] = <<>>
        BY <1>0, <3>2, Zenon DEF TcopInv, PlanTop
      <4>2. DOMAIN tcop_txn_state_[s] = {}
        BY <4>1, SMTT(30)
      <4> QED
        BY <2>1, <4>2, ZenonT(30)
    <3>3. CASE /\ running' = running \ {plan[s].txn} /\ ~plan[s].single
               /\ tcop_txn_state_[s] # <<>>
               /\ tcop_txn_state_'[s][Len(tcop_txn_state_[s])].result = "ABORTED"
               /\ \A i \in DOMAIN tcop_txn_state_[s] : i # Len(tcop_txn_state_[s]) =>
                    tcop_txn_state_'[s][i] = tcop_txn_state_[s][i]
      <4>1. plan[s].txn = tcop_txn_state_[s][Len(tcop_txn_state_[s])].txn
        BY <1>0, <1>1, <3>3, ZenonT(30) DEF TcopInv, PlanTop
      <4>2. ASSUME NEW i \in DOMAIN tcop_txn_state_'[s],
                   tcop_txn_state_'[s][i].result # "ABORTED"
            PROVE  tcop_txn_state_'[s][i].txn \in running'
        <5>1. /\ i \in DOMAIN tcop_txn_state_[s] /\ i # Len(tcop_txn_state_[s])
              /\ tcop_txn_state_'[s][i] = tcop_txn_state_[s][i]
          BY <2>1, <3>3, <4>2, Zenon
        <5>2. tcop_txn_state_[s][i].txn \in running
          BY <1>2, <4>2, <5>1, Zenon DEF Live
        <5>3. tcop_txn_state_[s][i].txn # plan[s].txn
          BY <1>1, <1>2, <3>3, <4>1, <5>1, Zenon DEF Live
        <5> QED
          BY <3>3, <5>1, <5>2, <5>3, Zenon
      <4> QED
        BY <4>2, Zenon
    <3> QED
      BY <2>2, <3>1, <3>2, <3>3, Zenon
  <2>4. Live(s)'
    BY <1>2, <2>1, <2>3, ZenonT(30) DEF Live
  <2>5. Referenced(s)' \subseteq Referenced(s)
    BY <1>3, <2>1, Zenon DEF Referenced
  <2>6. running \ running' \subseteq Referenced(s)
    BY <1>3, <2>2, ZenonT(30)
  <2> QED
    BY <1>0, <2>4, <2>5, <2>6, OneLive, ZenonT(30)
<1> QED
  BY <1>4, <1>5, Zenon DEF PlanStep

\* As long as the executors of every plan start, no session uses or ends a
\* transaction that was ended before, and none that is another's, however
\* their statements interleave.
THEOREM PointersStayLive == ASSUME ExecutorsStart PROVE Spec => []PointersLive
<1>1. Init => PointersLive
  <2> SUFFICES ASSUME Init PROVE PointersLive
    BY Zenon
  <2>1. \A s \in Session : tcop_txn_state_[s] = <<>> /\ plan[s] = NoPlan
    BY Zenon DEF Init, TcopInit
  <2>2. \A s \in Session : DOMAIN tcop_txn_state_[s] = {}
    BY <2>1
  <2>3. \A s \in Session : Referenced(s) = {}
    BY <2>1, <2>2, Zenon DEF Referenced
  <2> QED
    BY <2>1, <2>2, <2>3, Zenon DEF PointersLive
<1>2. IInv /\ PointersLive /\ [Next]_vars => PointersLive'
  <2> SUFFICES ASSUME IInv, PointersLive, [Next]_vars PROVE PointersLive'
    BY Zenon
  <2>1. TypeOK /\ TcopInv
    BY Types, Zenon DEF IInv, TcopInv
  <2>2. CASE UNCHANGED tcopVars
    BY <2>2, KeptLive, Zenon
  <2>3. ASSUME NEW s \in Session, plan[s] = NoPlan, BlockCall(s) \/ Reset(s) PROVE PointersLive'
    BY <2>1, <2>3, BlockLive, Zenon DEF BlockStep, Reset
  <2>4. ASSUME NEW s \in Session, PlanStep(s) PROVE PointersLive'
    BY <2>1, <2>4, PlanLive, Zenon
  <2> QED
    BY <2>1, <2>2, <2>3, <2>4, Classified, Zenon
<1> QED
  BY <1>1, <1>2, SessionInvariant, PTL DEF Spec
-----------------------------------------------------------------------------
(* What the client is told *)

\* A transaction that was aborted does not run.
Ended == running \intersect aborted = {}

LEMMA EndedStep == ASSUME TypeOK, Ended, [Next]_vars PROVE Ended'
<1>1. ASSUME NEW t, \/ BeginTransaction(t) \/ CommitTransaction(t) \/ AbortTransaction(t)
                    \/ UNCHANGED txnVars
      PROVE  Ended'
  BY <1>1, Zenon DEF Ended, BeginTransaction, CommitTransaction, AbortTransaction, txnVars
<1>2. CASE UNCHANGED tcopVars
  BY <1>1, <1>2, Zenon DEF tcopVars
<1>3. ASSUME NEW s \in Session, BlockCall(s) \/ Reset(s) PROVE Ended'
  BY <1>1, <1>3, ZenonT(30)
  DEF BlockCall, BeginQueryHelper, CommitQueryHelper, AbortQueryHelper, StartPlan, Reset, TcopReset
<1>4. ASSUME NEW s \in Session, PlanStep(s) PROVE Ended'
  BY <1>1, <1>4, ZenonT(30)
  DEF PlanStep, CheckPlan, SkipPlan, FinishPlan, ThrowPlan, AbortPlan, CommitPlan
<1> QED
  BY <1>2, <1>3, <1>4, Classified, Zenon

\* BEGIN, COMMIT and ROLLBACK with another result than ABORTED conclude no
\* transaction that was aborted.
LEMMA TxnReport ==
  ASSUME TcopInv, PointersLive, Ended, NEW s \in Session, plan[s] = NoPlan,
         NEW q, NEW result, TxnQuery(s, q, result), result # "ABORTED"
  PROVE  Concluded(s) \intersect aborted' = {}
<1>1. /\ DOMAIN tcop_txn_state_[s] = 1 .. Len(tcop_txn_state_[s])
      /\ Len(tcop_txn_state_[s]) \in Nat
      /\ tcop_txn_state_[s] # <<>> =>
           /\ Len(tcop_txn_state_[s]) \in DOMAIN tcop_txn_state_[s]
           /\ Top(s) = tcop_txn_state_[s][Len(tcop_txn_state_[s])]
  BY Stack, ZenonT(30) DEF TcopInv
<1>2. /\ Concluded(s) = Referenced(s) \ Referenced(s)'
      /\ Referenced(s) = {tcop_txn_state_[s][i].txn : i \in DOMAIN tcop_txn_state_[s]}
      /\ {tcop_txn_state_'[s][i].txn : i \in DOMAIN tcop_txn_state_'[s]} \subseteq Referenced(s)'
  BY ZenonT(30) DEF Concluded, Referenced
<1>3. CASE BeginQueryHelper(s)
  <2>1. \A i \in DOMAIN tcop_txn_state_[s] :
          i \in 1 .. Len(tcop_txn_state_[s]) /\ i \in 1 .. Len(tcop_txn_state_[s]) + 1
    BY ONLY <1>1
  <2>2. \A i \in DOMAIN tcop_txn_state_[s] :
          i \in DOMAIN tcop_txn_state_'[s] /\ tcop_txn_state_'[s][i] = tcop_txn_state_[s][i]
    BY <1>3, <2>1, PushEffect, Zenon
  <2> QED
    BY <1>2, <2>2, ZenonT(30)
<1>4. CASE tcop_txn_state_' = tcop_txn_state_
  BY <1>2, <1>4, ZenonT(30)
<1>5. ASSUME tcop_txn_state_[s] # <<>>, CommitQueryHelper(s, result) \/ AbortQueryHelper(s, result)
      PROVE  Concluded(s) \intersect aborted' = {}
  <2>1. Top(s).result # "ABORTED" /\ CommitTransaction(Top(s).txn)
    BY <1>5, ZenonT(30) DEF CommitQueryHelper, AbortQueryHelper
  <2>2. Top(s).txn \in running
    BY <1>1, <1>5, <2>1, Zenon DEF PointersLive
  <2>3. Top(s).txn \notin aborted'
    BY <2>1, <2>2, Zenon DEF CommitTransaction, Ended
  <2>4. /\ DOMAIN tcop_txn_state_'[s] = 1 .. Len(tcop_txn_state_[s]) - 1
        /\ \A i \in 1 .. Len(tcop_txn_state_[s]) - 1 : tcop_txn_state_'[s][i] = tcop_txn_state_[s][i]
    BY <1>5, PopEffect, Zenon
  <2>5. \A i \in DOMAIN tcop_txn_state_[s] :
          i = Len(tcop_txn_state_[s]) \/ i \in 1 .. Len(tcop_txn_state_[s]) - 1
    BY ONLY <1>1
  <2>6. \A i \in DOMAIN tcop_txn_state_[s] :
          tcop_txn_state_[s][i].txn = Top(s).txn \/ tcop_txn_state_[s][i].txn \in Referenced(s)'
    BY <1>1, <1>2, <1>5, <2>4, <2>5, ZenonT(30)
  <2> QED
    BY <1>2, <2>3, <2>6, ZenonT(30)
<1> QED
  BY <1>3, <1>4, <1>5, ZenonT(30) DEF TxnQuery, CommitQueryHelper, AbortQueryHelper

\* The steps that report a statement as completed, other than of a simple query.
LEMMA ReportStep ==
  ASSUME TypeOK, TcopInv, PointersLive, Ended, Next, NEW s \in Session,
         NEW protocol \in {"extended", "execute"}, Completes(s, protocol)
  PROVE  Concluded(s) \intersect aborted' = {}
<1>1. ~Silent
  <2>1. NoReply.status \notin Results
    BY DEF NoReply, NONE, Results
  <2> QED
    BY <2>1, Zenon DEF Silent, Completes, Answers
<1>2. ASSUME NEW z, NEW p, NEW result, NEW c, Reply(z, p, result, c)
      PROVE  z = s /\ p = protocol /\ c
  BY <1>2, Zenon DEF Reply, Completes, Answers
<1>3. "simple" # protocol
  OBVIOUS
<1>4. ASSUME NEW z \in Session, Ready(z), ExecQueryMessage(z)
      PROVE  Concluded(s) \intersect aborted' = {}
  <2>1. PICK n : QueryExecuteTxn(z, n)
    BY <1>1, <1>2, <1>3, <1>4, ZenonT(30)
    DEF ExecQueryMessage, QueryTxn, QueryOther, QueryPrepare, QueryExecute
  <2>2. PICK result \in Results : /\ TxnQuery(z, CacheFind(z, n), result)
                                 /\ Reply(z, "execute", result, result = "SUCCESS")
    BY <2>1, Zenon DEF QueryExecuteTxn
  <2>3. z = s /\ result = "SUCCESS"
    BY <1>2, <2>2, Zenon
  <2>4. result # "ABORTED" /\ plan[s] = NoPlan
    BY <1>4, <2>3, ReadyIdle, Zenon
  <2> QED
    BY <2>2, <2>3, <2>4, TxnReport, Zenon
<1>5. ASSUME NEW z \in Session, Ready(z), ExtendedMessage(z)
      PROVE  Concluded(s) \intersect aborted' = {}
  <2>1. ExecuteTxn(z)
    BY <1>1, <1>5, ZenonT(30)
    DEF ExtendedMessage, ParseSkipped, Parse, Bind, ExecuteSkipped, ExecuteOther,
        CloseStatement, ClosePortal
  <2>2. PICK result \in Results : /\ TxnQuery(z, portals_[z], result)
                                 /\ Reply(z, "extended", result, result # "ABORTED")
    BY <2>1, Zenon DEF ExecuteTxn
  <2>3. z = s /\ result # "ABORTED"
    BY <1>2, <2>2, Zenon
  <2>4. plan[s] = NoPlan
    BY <1>5, <2>3, ReadyIdle, Zenon
  <2> QED
    BY <2>2, <2>3, <2>4, TxnReport, Zenon
<1>6. ASSUME NEW z \in Session, RunPlan(z) PROVE Concluded(s) \intersect aborted' = {}
  <2>1. PICK result : /\ (SkipPlan(z) /\ result = "ABORTED") \/ FinishPlan(z, result)
                      /\ Answer(z, result)
    BY <1>1, <1>6, Zenon DEF RunPlan
  <2>2. z = s /\ result = "SUCCESS"
    BY <1>2, <1>3, <2>1, Zenon DEF Answer
  <2>3. plan[s] # NoPlan
    BY <1>6, <2>2, PlanStepInv, Zenon DEF RunPlan, PlanStep
  <2>4. FinishPlan(s, "SUCCESS")
    BY <2>1, <2>2, Zenon
  <2>5. /\ plan[s].stage = "execute" /\ UNCHANGED <<tcop_txn_state_, aborted>>
    BY <2>4, ZenonT(30)
    DEF FinishPlan, ThrowPlan, AbortPlan, CommitPlan, CommitTransaction, txnVars
  <2>6. plan[s].txn \notin aborted'
    BY <2>3, <2>5, Zenon DEF PointersLive, Ended
  <2>7. Concluded(s) \subseteq {plan[s].txn}
    BY <2>3, <2>5, ZenonT(30) DEF Concluded, Referenced
  <2> QED
    BY <2>6, <2>7, Zenon
<1>7. ASSUME NEW z \in Session, Reset(z) PROVE FALSE
  BY <1>1, <1>7, Zenon DEF Reset
<1> QED
  BY <1>4, <1>5, <1>6, <1>7, Zenon DEF Next

\* As long as the executors of every plan start, no statement of the extended
\* protocol and no EXECUTE is reported as completed when the transaction it ran
\* in, or was to commit, has been aborted: not by the COMMIT of a block that lost
\* a conflict in an earlier statement either, whatever the other sessions do to
\* the state that they share.
THEOREM AbortsAreReported == ASSUME ExecutorsStart PROVE Spec => AbortReported
<1>1. Init => Ended
  BY Zenon DEF Init, TcopInit, Ended
<1>2. IInv /\ Ended /\ [Next]_vars => Ended'
  <2>1. IInv => TypeOK
    BY Zenon DEF IInv
  <2> QED
    BY <2>1, EndedStep, Zenon
<1>3. IInv /\ PointersLive /\ Ended /\ [Next]_vars =>
        [\A s \in Session :
           Completes(s, "extended") \/ Completes(s, "execute") =>
             Concluded(s) \intersect aborted' = {}]_vars
  <2> SUFFICES ASSUME IInv, PointersLive, Ended, Next, NEW s \in Session,
                      Completes(s, "extended") \/ Completes(s, "execute")
               PROVE  Concluded(s) \intersect aborted' = {}
    BY Zenon
  <2>1. TypeOK /\ TcopInv
    BY Types, Zenon DEF IInv, TcopInv
  <2> QED
    BY <2>1, ReportStep, Zenon
<1> QED
  BY <1>1, <1>2, <1>3, SessionInvariant, PointersStayLive, PTL DEF Spec, AbortReported
=============================================================================
