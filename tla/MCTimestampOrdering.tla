------------------------ MODULE MCTimestampOrdering ------------------------
(***************************************************************************)
(* Instances of TimestampOrdering for TLC.  Commit ids are even, so that   *)
(* snapshot ids fit between them.                                          *)
(***************************************************************************)
EXTENDS TimestampOrdering, TLC

TwoTxns == {4, 6}
ThreeTxns == {4, 6, 8}

AllSerializable == [x \in Txn |-> "SERIALIZABLE"]
AllReadCommitted == [x \in Txn |-> "READ_COMMITTED"]
\* A writer with a reader and a writer of snapshots.
ThreeLevels == (4 :> "SERIALIZABLE" @@ 6 :> "SNAPSHOT" @@ 8 :> "READ_ONLY")
LastReadOnly == (4 :> "SERIALIZABLE" @@ 6 :> "SERIALIZABLE" @@ 8 :> "READ_ONLY")

AllStatements == [x \in Txn |-> {"select", "update", "delete", "insert"}]
Writers == [x \in Txn |-> {"update", "delete"}]
Readers == [x \in Txn |-> IF x = 4 THEN {"update", "delete"} ELSE {"select"}]
LockAndRekey == (4 :> {"select", "select_for_update", "update"}
              @@ 6 :> {"select_for_update", "update_key"})
ForUpdate == [x \in Txn |-> {"select_for_update", "update"}]
WriterAndReader == (4 :> {"update"} @@ 6 :> {"select"})
Inserters == [x \in Txn |-> {"insert"}]
DeleteAndInsert == (4 :> {"delete"} @@ 6 :> {"insert"})
InsertThenUpdate == (4 :> {"insert"} @@ 6 :> {"update"} @@ 8 :> {"select"})
InsertThenRekey == [x \in Txn |-> {"insert", "update_key"}]
UpdateThenRekey == [x \in Txn |-> {"update", "update_key"}]
==============================================================================
