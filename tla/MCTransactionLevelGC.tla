------------------------ MODULE MCTransactionLevelGC ------------------------
(***************************************************************************)
(* Instances of TransactionLevelGC for TLC.                                *)
(***************************************************************************)
EXTENDS TransactionLevelGC, TLC

CONSTANTS s1, s2, s3, e1, e2, g1, x1, x2

OneTuple == (e1 :> s1)
OneGCThread == [x \in Txn |-> g1]

\* Transactions, and slots not used at first, are interchangeable.
Symmetry == Permutations(Slot \ {s1}) \union Permutations(Txn)
=============================================================================
