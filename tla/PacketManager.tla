--------------------------- MODULE PacketManager ----------------------------
(***************************************************************************)
(* The Postgres wire protocol of a connection, over its traffic cop.       *)
(*                                                                         *)
(* A session is a PacketManager.  One action is the handling of one        *)
(* message, except that a statement that runs a plan takes the steps of    *)
(* TrafficCop.  A query is abstracted to its QueryType, a statement to the *)
(* type of its query, and a reply to whether it reports success; result    *)
(* rows, parameters, formats and names of columns are left out.            *)
(***************************************************************************)
EXTENDS TrafficCop

CONSTANTS Clients,       \* the clients to consider: functions from Session
          Name,          \* names of prepared statements, "" the unnamed one
          CACHE_SIZE     \* capacity of the statement cache

\* What a client sends: nothing, simple queries (psql, libpqxx), PREPARE and
\* EXECUTE among them or not, or the messages of the extended protocol (JDBC).
ClientKind == {"none", "simple", "preparing", "extended"}

\* QueryType: SET stands for the statements that are skipped, OTHER for the
\* ones that run a plan.
QueryType == {"BEGIN", "COMMIT", "ROLLBACK", "SET", "OTHER"}

\* What a CompleteCommand tells apart: the types that begin or end a block.
BlockType == {"BEGIN", "COMMIT", "OTHER"}
AsBlockType(q) ==
  IF q = "BEGIN" THEN q ELSE IF q \in {"COMMIT", "ROLLBACK"} THEN "COMMIT" ELSE "OTHER"

\* The name under which a simple PREPARE caches its statement: the first
\* word of the query, for the stream that should yield the name holds just
\* that word.
PrepareName == "PREPARE"

ASSUME SessionAssumption ==
  /\ Clients \subseteq [Session -> ClientKind]
  /\ CACHE_SIZE \in Nat \ {0}

NONE == "NONE"

VARIABLES
  client,                \* the kind of the session's client; it does not change
  txn_state_,            \* NetworkTransactionStateType
  skipped_stmt_,
  skipped_query_string_, \* "" or "query"
  skipped_query_type_,   \* a member of BlockType
  unnamed_statement_,
  statement_cache_,      \* Cache: (name, statement), most recently used first
  portals_,              \* the statement of the one portal, "" by name
  request,               \* the kind of message whose statement runs a plan
  reply                  \* history: the answer that the last step sent

skipVars == <<skipped_stmt_, skipped_query_string_, skipped_query_type_>>
cacheVars == <<unnamed_statement_, statement_cache_, portals_>>
vars == <<tcopVars, client, txn_state_, skipVars, cacheVars, request, reply>>

NoReply == [status |-> NONE]

\* skipped_query_type_, which just the extended protocol reads, is not initialised.
Init ==
  /\ TcopInit
  /\ client \in Clients
  /\ txn_state_ = [s \in Session |-> "IDLE"]
  /\ skipped_stmt_ = [s \in Session |-> FALSE]
  /\ skipped_query_string_ = [s \in Session |-> ""]
  /\ \E q \in BlockType : skipped_query_type_ =
       [s \in Session |-> IF client[s] = "extended" THEN q ELSE "OTHER"]
  /\ unnamed_statement_ = [s \in Session |-> NONE]
  /\ statement_cache_ = [s \in Session |-> <<>>]
  /\ portals_ = [s \in Session |-> NONE]
  /\ request = [s \in Session |-> NONE]
  /\ reply = NoReply

\* The session waits for a message.
Ready(s) == request[s] = NONE
-----------------------------------------------------------------------------
(* Cache: the least recently used entry is evicted. *)

Contains(cache, n) == \E i \in DOMAIN cache : cache[i][1] = n
PlaceOf(cache, n) == CHOOSE i \in DOMAIN cache : cache[i][1] = n

\* The entry that the map finds is spliced out of the list.
Without(cache, n) ==
  LET i == PlaceOf(cache, n)
  IN IF Contains(cache, n) THEN SubSeq(cache, 1, i - 1) \o SubSeq(cache, i + 1, Len(cache))
     ELSE cache

\* Mutant: nothing is evicted.
CacheInsertAll(cache, n, q) == <<<<n, q>>>> \o Without(cache, n)

CacheInsert(cache, n, q) ==
  LET new == <<<<n, q>>>> \o Without(cache, n)
  IN SubSeq(new, 1, IF Len(new) > CACHE_SIZE THEN CACHE_SIZE ELSE Len(new))

Cached(s, n) == Contains(statement_cache_[s], n)
CacheFind(s, n) == statement_cache_[s][PlaceOf(statement_cache_[s], n)][2]

\* Looking an entry up makes it the most recently used one.
Touch(s, n) == statement_cache_' =
  [statement_cache_ EXCEPT ![s] = <<<<n, CacheFind(s, n)>>>> \o Without(@, n)]
-----------------------------------------------------------------------------
CompleteCommand(s, q) ==
  txn_state_' = [txn_state_ EXCEPT ![s] =
    IF q = "BEGIN" THEN "BLOCK" ELSE IF q \in {"COMMIT", "ROLLBACK"} THEN "IDLE" ELSE @]

HardcodedExecuteFilter(s, q) ==
  /\ q # "SET"
  /\ q = "BEGIN" => txn_state_[s] # "BLOCK"
  /\ q \in {"COMMIT", "ROLLBACK"} => txn_state_[s] # "IDLE"

\* The traffic cop's part of BEGIN, COMMIT and ROLLBACK.
TxnQuery(s, q, result) ==
  \/ q = "BEGIN" /\ BeginQueryHelper(s) /\ result = "SUCCESS"
  \/ q = "COMMIT" /\ CommitQueryHelper(s, result)
  \/ q = "ROLLBACK" /\ AbortQueryHelper(s, result)

Results == {"SUCCESS", "FAILURE", "ABORTED", "NOOP"}

\* How a statement may be sent: as a simple query, by the EXECUTE of one, or by
\* an Execute message.
Protocols == {"simple", "execute", "extended"}

\* A statement with this result is answered, by COMMAND_COMPLETE or otherwise.
Reply(s, protocol, result, complete) ==
  reply' = [status |-> result, session |-> s, protocol |-> protocol, complete |-> complete]

\* No statement is answered.
Silent == reply' = NoReply
-----------------------------------------------------------------------------
(* ExecQueryMessage: the simple query protocol. *)

\* BEGIN, COMMIT, ROLLBACK: any status but FAILURE is answered by
\* COMMAND_COMPLETE.
QueryTxn(s, q) ==
  /\ \E result \in Results :
       TxnQuery(s, q, result) /\ Reply(s, "simple", result, TRUE)
  /\ CompleteCommand(s, q)
  /\ UNCHANGED <<client, skipVars, cacheVars, request>>

\* Any other statement, once prepared.
QueryOther(s) ==
  /\ StartPlan(s)
  /\ request' = [request EXCEPT ![s] = "simple"]
  /\ Silent
  /\ UNCHANGED <<client, txn_state_, skipVars, cacheVars>>

\* PREPARE of a statement of any type: none is filtered, and what the extended
\* protocol skips runs a plan here.  When it cannot be planned the next Execute
\* message of the extended protocol would be skipped.
QueryPrepare(s, q) ==
  /\ \/ /\ statement_cache_' = [statement_cache_ EXCEPT
             ![s] = CacheInsert(@, PrepareName, q)]
        /\ UNCHANGED skipped_stmt_
     \/ /\ skipped_stmt_' = [skipped_stmt_ EXCEPT ![s] = TRUE]
        /\ q = "OTHER"
        /\ UNCHANGED statement_cache_
  /\ Silent
  /\ UNCHANGED <<client, tcopVars, txn_state_, skipped_query_string_, skipped_query_type_,
                 unnamed_statement_, portals_, request>>

\* EXECUTE of a statement that is cached ...
QueryExecute(s, n) ==
  /\ Cached(s, n)
  /\ CacheFind(s, n) = "OTHER"
  /\ StartPlan(s)
  /\ Touch(s, n)
  /\ request' = [request EXCEPT ![s] = "execute"]
  /\ Silent
  /\ UNCHANGED <<client, txn_state_, skipVars, unnamed_statement_, portals_>>

\* ... and of a cached BEGIN, COMMIT or ROLLBACK: any status but SUCCESS is an
\* error, and CompleteCommand, told that this was an EXECUTE, keeps txn_state_.
QueryExecuteTxn(s, n) ==
  /\ Cached(s, n)
  /\ \E result \in Results :
       /\ TxnQuery(s, CacheFind(s, n), result)
       /\ Reply(s, "execute", result, result = "SUCCESS")
  /\ Touch(s, n)
  /\ UNCHANGED <<client, txn_state_, skipVars, unnamed_statement_, portals_, request>>
-----------------------------------------------------------------------------
(* The extended query protocol. *)

\* ExecParseMessage of an empty query, or of one to be skipped.
ParseSkipped(s, q) ==
  /\ q = "" \/ ~HardcodedExecuteFilter(s, q)
  /\ skipped_stmt_' = [skipped_stmt_ EXCEPT ![s] = TRUE]
  /\ skipped_query_string_' = [skipped_query_string_ EXCEPT ![s] =
       IF q = "" THEN "" ELSE "query"]
  /\ skipped_query_type_' = [skipped_query_type_ EXCEPT ![s] = AsBlockType(q)]
  /\ Silent
  /\ UNCHANGED <<client, tcopVars, txn_state_, cacheVars, request>>

\* ExecParseMessage of any other query.  When it cannot be planned, what was
\* skipped last stays as it is.
Parse(s, n, q) ==
  /\ q # "" /\ HardcodedExecuteFilter(s, q)
  /\ \/ /\ skipped_stmt_' = [skipped_stmt_ EXCEPT ![s] = FALSE]
        /\ \/ /\ n = ""
              /\ unnamed_statement_' = [unnamed_statement_ EXCEPT ![s] = q]
              /\ UNCHANGED statement_cache_
           \/ /\ n # ""
              /\ statement_cache_' = [statement_cache_ EXCEPT ![s] = CacheInsert(@, n, q)]
              /\ UNCHANGED unnamed_statement_
     \/ /\ skipped_stmt_' = [skipped_stmt_ EXCEPT ![s] = TRUE]
        /\ q = "OTHER"
        /\ UNCHANGED <<unnamed_statement_, statement_cache_>>
  /\ Silent
  /\ UNCHANGED <<client, tcopVars, txn_state_, skipped_query_string_, skipped_query_type_,
                 portals_, request>>

\* The statement a Bind message names.
Bound(s, n) == IF n = "" THEN unnamed_statement_[s] ELSE CacheFind(s, n)

\* ExecBindMessage: a statement to be skipped leaves skipped_query_type_ as
\* it was.
Bind(s, n) ==
  /\ ~skipped_stmt_[s]
  /\ IF n = "" THEN unnamed_statement_[s] # NONE /\ UNCHANGED statement_cache_
               ELSE Cached(s, n) /\ Touch(s, n)
  /\ LET q == Bound(s, n)
     IN \/ /\ HardcodedExecuteFilter(s, q)
           /\ portals_' = [portals_ EXCEPT ![s] = q]
           /\ UNCHANGED <<skipped_stmt_, skipped_query_string_>>
        \/ /\ ~HardcodedExecuteFilter(s, q)
           /\ skipped_stmt_' = [skipped_stmt_ EXCEPT ![s] = TRUE]
           /\ skipped_query_string_' = [skipped_query_string_ EXCEPT ![s] = "query"]
           /\ UNCHANGED portals_
  /\ Silent
  /\ UNCHANGED <<client, tcopVars, txn_state_, skipped_query_type_, unnamed_statement_,
                 request>>

\* ExecExecuteMessage of a skipped statement: it is reported as completed.
ExecuteSkipped(s) ==
  /\ skipped_stmt_[s]
  /\ \/ /\ skipped_query_string_[s] = ""
        /\ UNCHANGED txn_state_
     \/ /\ skipped_query_string_[s] # ""
        /\ CompleteCommand(s, skipped_query_type_[s])
  /\ skipped_stmt_' = [skipped_stmt_ EXCEPT ![s] = FALSE]
  /\ Silent
  /\ UNCHANGED <<client, tcopVars, skipped_query_string_, skipped_query_type_, cacheVars,
                 request>>

\* ExecExecuteMessage of BEGIN, COMMIT, ROLLBACK: with status ABORTED there
\* is no CompleteCommand.
ExecuteTxn(s) ==
  /\ ~skipped_stmt_[s]
  /\ \E result \in Results :
       /\ TxnQuery(s, portals_[s], result)
       /\ Reply(s, "extended", result, result # "ABORTED")
       /\ IF result # "ABORTED" THEN CompleteCommand(s, portals_[s]) ELSE UNCHANGED txn_state_
  /\ UNCHANGED <<client, skipVars, cacheVars, request>>

\* ExecExecuteMessage of any other statement.
ExecuteOther(s) ==
  /\ ~skipped_stmt_[s]
  /\ portals_[s] = "OTHER"
  /\ StartPlan(s)
  /\ request' = [request EXCEPT ![s] = "extended"]
  /\ Silent
  /\ UNCHANGED <<client, txn_state_, skipVars, cacheVars>>

\* ExecCloseMessage.  Reading the name with length 0 leaves it empty, so that
\* the unnamed statement or the unnamed portal is closed, whatever the name.
CloseStatement(s) ==
  /\ unnamed_statement_' = [unnamed_statement_ EXCEPT ![s] = NONE]
  /\ Silent
  /\ UNCHANGED <<tcopVars, client, txn_state_, skipVars, statement_cache_, portals_, request>>

ClosePortal(s) ==
  /\ portals_' = [portals_ EXCEPT ![s] = NONE]
  /\ Silent
  /\ UNCHANGED <<client, tcopVars, txn_state_, skipVars, unnamed_statement_, statement_cache_,
                 request>>
-----------------------------------------------------------------------------
\* A statement that ran a plan is answered.  The simple protocol reports any
\* result but FAILURE as completed, the others just SUCCESS.
Answer(s, result) ==
  /\ Reply(s, request[s], result,
           IF request[s] = "simple" THEN result # "FAILURE" ELSE result = "SUCCESS")
  /\ request' = [request EXCEPT ![s] = NONE]
  /\ UNCHANGED <<client, txn_state_, skipVars, cacheVars>>

RunPlan(s) ==
  \/ CheckPlan(s) /\ Silent /\ UNCHANGED <<client, txn_state_, skipVars, cacheVars, request>>
  \/ SkipPlan(s) /\ Answer(s, "ABORTED")
  \/ \E result \in Results : FinishPlan(s, result) /\ Answer(s, result)

\* The connection is closed: on a Terminate message, on an error or the end
\* of its stream, or when a Describe message names no portal.  The object
\* serves the next connection of the same descriptor.
Reset(s) ==
  /\ TcopReset(s)
  /\ txn_state_' = [txn_state_ EXCEPT ![s] = "IDLE"]
  /\ skipped_stmt_' = [skipped_stmt_ EXCEPT ![s] = FALSE]
  /\ skipped_query_string_' = [skipped_query_string_ EXCEPT ![s] = ""]
  /\ unnamed_statement_' = [unnamed_statement_ EXCEPT ![s] = NONE]
  /\ statement_cache_' = [statement_cache_ EXCEPT ![s] = <<>>]
  /\ portals_' = [portals_ EXCEPT ![s] = NONE]
  /\ Silent
  /\ UNCHANGED <<client, skipped_query_type_, request>>

\* A message of the simple query protocol.
ExecQueryMessage(s) ==
  \/ \E q \in {"BEGIN", "COMMIT", "ROLLBACK"} : QueryTxn(s, q)
  \/ QueryOther(s)
  \/ /\ client[s] = "preparing"
     /\ \/ \E q \in {"BEGIN", "COMMIT", "ROLLBACK", "OTHER"} : QueryPrepare(s, q)
        \/ \E n \in {PrepareName} : QueryExecute(s, n) \/ QueryExecuteTxn(s, n)

\* A message of the extended query protocol.
ExtendedMessage(s) ==
  \/ \E q \in QueryType \union {""} : ParseSkipped(s, q)
  \/ \E n \in Name, q \in QueryType : Parse(s, n, q)
  \/ \E n \in Name : Bind(s, n)
  \/ ExecuteSkipped(s)
  \/ ExecuteTxn(s)
  \/ ExecuteOther(s)
  \/ CloseStatement(s)
  \/ ClosePortal(s)

Next == \E s \in Session :
  \/ /\ Ready(s)
     /\ \/ client[s] \in {"simple", "preparing"} /\ ExecQueryMessage(s)
        \/ client[s] = "extended" /\ ExtendedMessage(s)
        \/ client[s] # "none" /\ Reset(s)
  \/ RunPlan(s)

Spec == Init /\ [][Next]_vars
-----------------------------------------------------------------------------
TypeOK ==
  /\ TcopTypeOK
  /\ client \in Clients
  /\ txn_state_ \in [Session -> {"IDLE", "BLOCK"}]
  /\ skipped_stmt_ \in [Session -> BOOLEAN]
  /\ skipped_query_string_ \in [Session -> {"", "query"}]
  /\ skipped_query_type_ \in [Session -> BlockType]
  /\ unnamed_statement_ \in [Session -> QueryType \union {NONE}]
  /\ portals_ \in [Session -> {"BEGIN", "COMMIT", "ROLLBACK", "OTHER", NONE}]
  /\ statement_cache_ \in [Session -> Seq((Name \union {PrepareName}) \X QueryType)]
  /\ request \in [Session -> Protocols \union {NONE}]
  /\ reply \in {NoReply} \union
       [status : Results, session : Session, protocol : Protocols, complete : BOOLEAN]
  /\ \A s \in Session :
       /\ Len(statement_cache_[s]) <= CACHE_SIZE
       /\ \A i, j \in DOMAIN statement_cache_[s] :
            statement_cache_[s][i][1] = statement_cache_[s][j][1] => i = j
       /\ (request[s] = NONE) = (plan[s] = NoPlan)

\* The transactions that a step of the session, a statement's last or only one,
\* was about: the one its plan ran in, or the one a COMMIT or ROLLBACK took
\* from the stack.
Concluded(s) ==
  (Referenced(s) \ Referenced(s)') \union (IF plan[s] = NoPlan THEN {} ELSE {plan[s].txn})

\* The step answers a statement of the session, whose result it is.
Answers(s, result) == reply'.status = result /\ reply'.session = s

\* The step reports a statement of the session, sent this way, as completed.
Completes(s, protocol) ==
  /\ \E result \in Results : Answers(s, result)
  /\ reply'.protocol = protocol /\ reply'.complete

\* The extended protocol, and the EXECUTE of simple queries, never report a
\* statement as completed when AbortTransaction has ended the transaction it
\* ran in or was to commit, in this statement or in an earlier one of the block
\* ("Send an error response if the abort is not due to ROLLBACK query").
AbortReported ==
  [][\A s \in Session :
       Completes(s, "extended") \/ Completes(s, "execute") =>
         Concluded(s) \intersect aborted' = {}]_vars

\* The same of simple queries that run a plan; see the table of counterexamples.
SimpleAbortReported ==
  [][\A s \in Session :
       Completes(s, "simple") /\ plan[s] # NoPlan => plan[s].txn \notin aborted']_vars

\* A transaction that runs stays in the hands of its session until it is
\* ended.  There are three ways to lose one, and a step that loses one is of
\* these: the connection is closed (Reset), the plan of a single statement
\* throws, which the client is told as a failure, or another thread aborts a
\* single statement between the moment this one set the shared state and the
\* moment it looks at it, so that its client is told of an abort.
LostOnly ==
  [][\A s \in Session : \A t \in Referenced(s) \intersect running :
       t \in running' \ Referenced(s)' =>
         \/ plan[s] = NoPlan /\ Reset(s)
         \/ /\ plan[s] # NoPlan /\ plan[s].single /\ t = plan[s].txn
            /\ \/ plan[s].stage = "execute" /\ Answers(s, "FAILURE")
               \/ /\ plan[s].stage = "check" /\ default_state = "ABORTED"
                  /\ Answers(s, "ABORTED")]_vars

\* "covers weird JDBC edge case of sending double BEGIN statements. Don't
\* execute them": in a session of the extended protocol there is one
\* transaction at a time.
NoNestedBegin == \A s \in Session : client[s] = "extended" => Len(tcop_txn_state_[s]) <= 1

\* "After commit, we end the txn block", "After rollback, the txn block is
\* ended": a block without a transaction is not open.
BlockHasTransaction ==
  \A s \in Session :
    client[s] = "extended" /\ txn_state_[s] = "BLOCK" => tcop_txn_state_[s] # <<>>

\* "Abort all running transactions" (of the destructor): when nobody points
\* to a transaction it is not running.
AllAborted == running \subseteq UNION {Referenced(s) : s \in Session}
=============================================================================
