----------------------------- MODULE TrafficCop -----------------------------
(***************************************************************************)
(* The traffic cop: one per connection, it begins, ends and remembers the  *)
(* transactions of the connection's statements.                            *)
(*                                                                         *)
(* A statement outside a transaction block is a transaction of its own;    *)
(* ExecuteStatementPlan keeps its state in a static variable that the      *)
(* traffic cops of all worker threads share, so that its three parts are   *)
(* steps of their own here: everything up to the test of the state, the    *)
(* execution, and what follows it.                                         *)
(***************************************************************************)
EXTENDS Naturals, Sequences, FiniteSets

CONSTANTS Session,   \* connections, each served by a worker thread of its own
          Txn,       \* Transaction objects that exist at one time
          Outcome,   \* what the execution of a plan may come to
          MaxDepth   \* bound: transactions nested in one connection

Outcomes == {"success", "conflict", "exception", "init_failure"}

ASSUME TcopAssumption == Outcome \subseteq Outcomes /\ MaxDepth \in Nat

VARIABLES
  tcop_txn_state_, \* the stack of (transaction, result so far); top at the end
  default_state,   \* second of the static pair of GetDefaultTxnState
  running,         \* transactions begun and not ended
  aborted,         \* history: objects whose transaction AbortTransaction ended
  plan             \* the call of ExecuteStatementPlan a session is in

txnVars == <<running, aborted>>
tcopVars == <<tcop_txn_state_, default_state, txnVars, plan>>

NoPlan == [stage |-> "none"]

TcopInit ==
  /\ tcop_txn_state_ = [s \in Session |-> <<>>]
  /\ default_state = "INVALID"
  /\ running = {}
  /\ aborted = {}
  /\ plan = [s \in Session |-> NoPlan]

Top(s) == tcop_txn_state_[s][Len(tcop_txn_state_[s])]
Pop(s) == [tcop_txn_state_ EXCEPT ![s] = SubSeq(@, 1, Len(@) - 1)]

\* The Transaction objects a session holds a pointer to.
Referenced(s) ==
  {tcop_txn_state_[s][i].txn : i \in DOMAIN tcop_txn_state_[s]}
    \union (IF plan[s] = NoPlan THEN {} ELSE {plan[s].txn})

\* BeginTransaction returns a new object: not one that somebody points to.
BeginTransaction(t) ==
  /\ t \in Txn \ (running \union UNION {Referenced(s) : s \in Session})
  /\ running' = running \union {t}
  /\ aborted' = aborted \ {t}

\* CommitTransaction and AbortTransaction delete the object.
CommitTransaction(t) ==
  /\ running' = running \ {t}
  /\ UNCHANGED aborted

AbortTransaction(t) ==
  /\ running' = running \ {t}
  /\ aborted' = aborted \union {t}
-----------------------------------------------------------------------------
BeginQueryHelper(s) ==
  /\ Len(tcop_txn_state_[s]) < MaxDepth
  /\ \E t \in Txn :
       /\ BeginTransaction(t)
       /\ tcop_txn_state_' = [tcop_txn_state_ EXCEPT
            ![s] = Append(@, [txn |-> t, result |-> "SUCCESS"])]
  /\ UNCHANGED <<default_state, plan>>

\* The entry is read through a reference after it was popped; the element
\* of the deque keeps its bytes.
CommitQueryHelper(s, result) ==
  /\ UNCHANGED <<default_state, plan>>
  /\ \/ /\ tcop_txn_state_[s] = <<>>
        /\ result = "NOOP"
        /\ UNCHANGED <<tcop_txn_state_, txnVars>>
     \/ /\ tcop_txn_state_[s] # <<>>
        /\ tcop_txn_state_' = Pop(s)
        /\ \/ Top(s).result # "ABORTED" /\ CommitTransaction(Top(s).txn) /\ result = "SUCCESS"
           \/ Top(s).result = "ABORTED" /\ UNCHANGED txnVars /\ result = "ABORTED"

AbortQueryHelper(s, result) ==
  /\ UNCHANGED <<default_state, plan>>
  /\ \/ /\ tcop_txn_state_[s] = <<>>
        /\ result = "NOOP"
        /\ UNCHANGED <<tcop_txn_state_, txnVars>>
     \/ /\ tcop_txn_state_[s] # <<>>
        /\ tcop_txn_state_' = Pop(s)
        /\ result = "ABORTED"
        /\ \/ Top(s).result # "ABORTED" /\ AbortTransaction(Top(s).txn)
           \/ Top(s).result = "ABORTED" /\ UNCHANGED txnVars

\* The connection is closed: the stack is swapped away.
TcopReset(s) ==
  /\ tcop_txn_state_' = [tcop_txn_state_ EXCEPT ![s] = <<>>]
  /\ UNCHANGED <<default_state, txnVars, plan>>
-----------------------------------------------------------------------------
\* ExecuteStatementPlan, up to the test of the state.
StartPlan(s) ==
  /\ plan[s] = NoPlan
  /\ UNCHANGED tcop_txn_state_
  /\ \/ /\ tcop_txn_state_[s] = <<>>
        /\ default_state' = "SUCCESS"
        /\ \E t \in Txn :
             /\ BeginTransaction(t)
             /\ plan' = [plan EXCEPT ![s] = [stage |-> "check", txn |-> t, single |-> TRUE]]
     \/ /\ tcop_txn_state_[s] # <<>>
        /\ plan' = [plan EXCEPT
             ![s] = [stage |-> "check", txn |-> Top(s).txn, single |-> FALSE]]
        /\ UNCHANGED <<default_state, txnVars>>

\* curr_state.second of the call a session is in.
CurrState(s) == IF plan[s].single THEN default_state ELSE Top(s).result

\* Mutant: the state is not tested.
CheckPlanNot(s) ==
  /\ plan[s].stage = "check"
  /\ plan' = [plan EXCEPT ![s].stage = "execute"]
  /\ UNCHANGED <<tcop_txn_state_, default_state, txnVars>>

\* The plan is executed: the state does not say that the transaction aborted.
CheckPlan(s) ==
  /\ plan[s].stage = "check"
  /\ CurrState(s) # "ABORTED"
  /\ plan' = [plan EXCEPT ![s].stage = "execute"]
  /\ UNCHANGED <<tcop_txn_state_, default_state, txnVars>>

\* "otherwise, we have already aborted".
SkipPlan(s) ==
  /\ plan[s].stage = "check"
  /\ CurrState(s) = "ABORTED"
  /\ plan' = [plan EXCEPT ![s] = NoPlan]
  /\ UNCHANGED <<tcop_txn_state_, default_state, txnVars>>

\* The execution raised an exception, which ExecuteStatement catches.
ThrowPlan(s, outcome, result) ==
  /\ outcome = "exception"
  /\ result = "FAILURE"
  /\ UNCHANGED <<tcop_txn_state_, default_state, txnVars>>

\* Mutant: the block is not marked as aborted.
AbortPlanUnmarked(s, outcome, result) ==
  /\ outcome = "conflict"
  /\ result = "ABORTED"
  /\ AbortTransaction(plan[s].txn)
  /\ UNCHANGED <<tcop_txn_state_, default_state>>

\* The transaction lost a conflict: it is aborted, and so is the block.
AbortPlan(s, outcome, result) ==
  /\ outcome = "conflict"
  /\ result = "ABORTED"
  /\ AbortTransaction(plan[s].txn)
  /\ \/ /\ plan[s].single
        /\ default_state' = "ABORTED"
        /\ UNCHANGED tcop_txn_state_
     \/ /\ ~plan[s].single
        /\ tcop_txn_state_' = [tcop_txn_state_ EXCEPT
             ![s][Len(tcop_txn_state_[s])].result = "ABORTED"]
        /\ UNCHANGED default_state

\* Mutant: a statement of its own is not committed.
CommitPlanNever(s, outcome, result) ==
  /\ outcome = "success"
  /\ result = "SUCCESS"
  /\ UNCHANGED <<tcop_txn_state_, default_state, txnVars>>

\* A statement of its own, and one whose executors did not start, commits.
CommitPlan(s, outcome, result) ==
  /\ outcome \in {"success", "init_failure"}
  /\ result = "SUCCESS"
  /\ UNCHANGED <<tcop_txn_state_, default_state>>
  /\ \/ /\ plan[s].single \/ outcome = "init_failure"
        /\ CommitTransaction(plan[s].txn)
     \/ /\ ~plan[s].single /\ outcome = "success"
        /\ UNCHANGED txnVars

FinishPlan(s, result) ==
  /\ plan[s].stage = "execute"
  /\ plan' = [plan EXCEPT ![s] = NoPlan]
  /\ \E outcome \in Outcome :
       \/ ThrowPlan(s, outcome, result)
       \/ AbortPlan(s, outcome, result)
       \/ CommitPlan(s, outcome, result)
-----------------------------------------------------------------------------
TcopTypeOK ==
  /\ tcop_txn_state_ \in [Session -> Seq([txn : Txn, result : {"SUCCESS", "ABORTED"}])]
  /\ \A s \in Session : Len(tcop_txn_state_[s]) <= MaxDepth
  /\ plan \in [Session ->
       {NoPlan} \union [stage : {"check", "execute"}, txn : Txn, single : BOOLEAN]]
  /\ default_state \in {"INVALID", "SUCCESS", "ABORTED"}
  /\ running \subseteq Txn /\ aborted \subseteq Txn

\* No two sessions, and no two entries of one, share a transaction; and
\* every pointer a statement or a COMMIT may follow is to a transaction that
\* runs: none is used after CommitTransaction or AbortTransaction deleted it,
\* and none is ended twice.
PointersLive ==
  /\ \A s \in Session :
       /\ \A i, j \in DOMAIN tcop_txn_state_[s] :
            tcop_txn_state_[s][i].txn = tcop_txn_state_[s][j].txn => i = j
       /\ \A i \in DOMAIN tcop_txn_state_[s] :
            tcop_txn_state_[s][i].result # "ABORTED" => tcop_txn_state_[s][i].txn \in running
       /\ plan[s] # NoPlan
            /\ (plan[s].single \/ plan[s].stage = "execute" \/ Top(s).result # "ABORTED")
            => plan[s].txn \in running
  /\ \A s, z \in Session : s # z => Referenced(s) \intersect Referenced(z) = {}
=============================================================================
