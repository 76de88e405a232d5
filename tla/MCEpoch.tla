------------------------------ MODULE MCEpoch ------------------------------
(* Instances of the epoch manager for TLC. *)
EXTENDS DecentralizedEpochManager

\* Transactions x1 and x2 share thread t1, x3 has t2 to itself.
MCThreadOf == [x \in Txn |-> IF x = "x3" THEN "t2" ELSE "t1"]

\* All transactions SERIALIZABLE.
MCReadWrite == [x \in Txn |-> "SERIALIZABLE"]

\* One transaction of each level.
MCMixed ==
  [x \in Txn |-> CASE x = "x1" -> "READ_ONLY" [] x = "x2" -> "SNAPSHOT" [] OTHER -> "SERIALIZABLE"]
=============================================================================
