---------------------------- MODULE EpochManager ----------------------------
(***************************************************************************)
(* What an epoch manager promises to the garbage collector: a transaction  *)
(* runs in one epoch from its begin to its end, and the epochs reported as *)
(* expired are past, hold no running transaction and admit no new one.     *)
(* Of transactions that read snapshots, and those that share a thread with *)
(* them, nothing is promised: they enter any epoch and hold none back.     *)
(***************************************************************************)
EXTENDS Integers

CONSTANTS Txn,       \* transaction slots
          Unguarded, \* those that nothing is promised of: of threads with snapshots
          MaxEpoch   \* bound: the epoch stops here

VARIABLES epoch,    \* the current epoch
          running,  \* the epoch of each transaction, 0 when it is not running
          expired   \* the last epoch reported as expired

epochVars == <<epoch, running, expired>>

EpochInit ==
  /\ epoch = 1
  /\ running = [x \in Txn |-> 0]
  /\ expired = 0

Advance ==
  /\ epoch < MaxEpoch
  /\ epoch' = epoch + 1
  /\ UNCHANGED <<running, expired>>

Enter(x) ==
  /\ running[x] = 0
  /\ \E e \in 1 .. epoch :
       /\ x \in Unguarded \/ expired < e
       /\ running' = [running EXCEPT ![x] = e]
  /\ UNCHANGED <<epoch, expired>>

Exit(x) ==
  /\ running[x] # 0
  /\ running' = [running EXCEPT ![x] = 0]
  /\ UNCHANGED <<epoch, expired>>

Expire ==
  /\ \E e \in expired + 1 .. epoch - 1 :
       /\ \A x \in Txn \ Unguarded : running[x] # 0 => e < running[x]
       /\ expired' = e
  /\ UNCHANGED <<epoch, running>>

EpochNext == Advance \/ Expire \/ \E x \in Txn : Enter(x) \/ Exit(x)

EpochSpec == EpochInit /\ [][EpochNext]_epochVars
=============================================================================
