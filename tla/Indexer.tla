------------------------------ MODULE Indexer ------------------------------
(***************************************************************************)
(* The ChainIndexer of internal/indexer: the poll loop of Run, detectReorg *)
(* and handleReorg, the process that runs it (cmd/indexer) with its signal *)
(* handling, crash and restart, and the chain that moves between its RPC   *)
(* calls.  Every call to the node, and every transaction, is a step of its *)
(* own.  A database read has no writer to race with (the indexer is the    *)
(* only one) and shares the step of the RPC call that follows it.          *)
(*                                                                         *)
(* A definition marked [mutant] is no part of the specification: it is the *)
(* definition after it with a plausible mistake, kept to show that the     *)
(* property PROJECT.json names would notice.                               *)
(***************************************************************************)
EXTENDS Store, FiniteSets

CONSTANTS
  StartBlock,        \* START_BLOCK
  BlockBatchSize,    \* BLOCK_BATCH_SIZE
  Confirmations,     \* CONFIRMATIONS
  HeaderConcurrency, \* HEADER_CONCURRENCY, not positive meaning 1
  MaxLoopRetries,    \* maxLoopRetries, 5 in the code
  MaxReorgDepth,     \* maxReorgDepth, 128 in the code
  Faults,            \* the failures the environment is allowed, see FaultKinds
  MidBatchReorgs     \* whether a reorg may strike while a batch is being read

\* rpc:     a call to the node fails after the retries of the transport
\* db:      a statement fails, or a transaction that is not applied
\* lostack: a transaction is applied and its COMMIT is reported as failed
\* crash:   the process dies;   signal: it receives SIGTERM
FaultKinds == {"rpc", "db", "lostack", "crash", "signal"}

ASSUME ConfigAssumption ==
  /\ StartBlock \in Nat
  /\ BlockBatchSize \in Nat \ {0}
  /\ Confirmations \in Nat
  /\ HeaderConcurrency \in Int
  /\ MaxLoopRetries \in Nat \ {0}
  /\ MaxReorgDepth \in Nat \ {0}
  /\ Faults \subseteq FaultKinds
  /\ MidBatchReorgs \in BOOLEAN

VARIABLES
  pc,                \* the next call of Run or handleReorg
  cursor,            \* Run's cursor: the last block it takes as indexed
  consecutiveErrors,
  safeHead,          \* chainHead - Confirmations, of this iteration
  logs,              \* what FilterLogs returned for this batch
  headers,           \* the headers fetched so far for this batch
  ancestor,          \* handleReorg's walk back from cursor
  cancelled,         \* ctx.Done(): the process has received SIGTERM
  exit               \* why Run has returned

batchVars == <<logs, headers>>
loopVars == <<cursor, consecutiveErrors>>
procVars == <<pc, cursor, consecutiveErrors, safeHead, logs, headers, ancestor,
              cancelled, exit>>
vars == <<chainVars, tables, procVars>>

Steps == {"load", "head", "detect", "filter", "headers", "commit",
          "walk", "rollback", "sleep", "stopped"}

\* canceled is a return of context.Canceled itself, which main takes as
\* graceful; every other return makes main exit with status 1.
ExitReasons == {"running", "canceled", "load", "retries", "reorg", "deep", "crash"}

NoHeaders == [n \in {} |-> NoHash]

MinOf(a, b) == IF a < b THEN a ELSE b

From == cursor + 1
\* [mutant] a batch of one block too many
To_OneTooMany == MinOf(cursor + BlockBatchSize + 1, safeHead)
To == MinOf(cursor + BlockBatchSize, safeHead)
Batch == From..To

\* A context that is done fails the calls made with it.
CallFails(kind) == kind \in Faults \/ cancelled

ForgetBatch ==
  /\ safeHead' = 0
  /\ logs' = {}
  /\ headers' = NoHeaders
  /\ ancestor' = 0

ProcInit ==
  /\ pc = "load"
  /\ cursor = 0
  /\ consecutiveErrors = 0
  /\ safeHead = 0
  /\ logs = {}
  /\ headers = NoHeaders
  /\ ancestor = 0
  /\ cancelled = FALSE
  /\ exit = "running"

Init == ChainInit /\ StoreInit /\ ProcInit

(***************************************************************************)
(* How Run ends, and how an iteration ends in an error.                    *)
(***************************************************************************)
Stop(why) ==
  /\ pc' = "stopped"
  /\ exit' = why
  /\ ForgetBatch
  /\ UNCHANGED <<cursor, consecutiveErrors, cancelled>>

\* [mutant] the budget is compared with > for >=
LoopError_OneTooMany ==
  /\ consecutiveErrors' = consecutiveErrors + 1
  /\ IF consecutiveErrors' > MaxLoopRetries
       THEN pc' = "stopped" /\ exit' = "retries"
       ELSE pc' = "sleep" /\ UNCHANGED exit
  /\ ForgetBatch
  /\ UNCHANGED <<cursor, cancelled>>

\* handleLoopError, and what every caller does with its result.
LoopError ==
  /\ consecutiveErrors' = consecutiveErrors + 1
  /\ IF consecutiveErrors' >= MaxLoopRetries
       THEN pc' = "stopped" /\ exit' = "retries"
       ELSE pc' = "sleep" /\ UNCHANGED exit
  /\ ForgetBatch
  /\ UNCHANGED <<cursor, cancelled>>

(***************************************************************************)
(* Run: loading the cursor.                                                *)
(***************************************************************************)
\* [mutant] StartBlock - 1 is taken without the test of StartBlock > 0
StartingCursor_Unguarded(row) ==
  IF row.block = 0 THEN StartBlock - 1 ELSE row.block

StartingCursor(row) ==
  IF row.block = 0 /\ StartBlock > 0 THEN StartBlock - 1 ELSE row.block

LoadCursor ==
  /\ pc = "load"
  /\ ~ cancelled
  /\ cursor' = StartingCursor(cursorRow)
  /\ consecutiveErrors' = 0
  /\ pc' = "head"
  /\ UNCHANGED <<chainVars, tables, batchVars, safeHead, ancestor, cancelled, exit>>

LoadFails ==
  /\ pc = "load"
  /\ CallFails("db")
  /\ Stop("load")
  /\ UNCHANGED <<chainVars, tables>>

(***************************************************************************)
(* Run: the chain head.                                                    *)
(***************************************************************************)
\* [mutant] one confirmation is missing
ConfirmedHead_OneTooHigh == Height(tip) - Confirmations + 1

ConfirmedHead == Height(tip) - Confirmations

\* [mutant] the block at the safe head is left for the next poll
BehindChain_OneShort ==
  /\ Height(tip) >= Confirmations
  /\ cursor + 1 < ConfirmedHead

BehindChain ==
  /\ Height(tip) >= Confirmations
  /\ cursor < ConfirmedHead

GetHead ==
  /\ pc = "head"
  /\ ~ cancelled
  /\ BehindChain
  /\ safeHead' = ConfirmedHead
  /\ pc' = "detect"
  /\ UNCHANGED <<chainVars, tables, loopVars, batchVars, ancestor, cancelled, exit>>

\* The chain is too young for its confirmations, or everything is indexed.
NothingToDo ==
  /\ pc = "head"
  /\ ~ cancelled
  /\ ~ BehindChain
  /\ pc' = "sleep"
  /\ UNCHANGED <<chainVars, tables, loopVars, batchVars, safeHead, ancestor,
                 cancelled, exit>>

GetHeadFails ==
  /\ pc = "head"
  /\ CallFails("rpc")
  /\ LoopError
  /\ UNCHANGED <<chainVars, tables>>

(***************************************************************************)
(* detectReorg: the stored hash of the cursor block against the chain's.   *)
(***************************************************************************)
\* [mutant] a block without a stored hash is compared all the same
NeedsNoHeader_AlwaysCompares == cursor = 0

NeedsNoHeader == cursor = 0 \/ GetHash(indexedBlocks, cursor) = NoHash

\* [mutant] detectReorg takes any stored hash as matching
SameAsChain_AnyHash(n) == GetHash(indexedBlocks, n) # NoHash

SameAsChain(n) == GetHash(indexedBlocks, n) = HeaderAt(n)

DetectNoReorg ==
  /\ pc = "detect"
  /\ ~ cancelled
  /\ NeedsNoHeader \/ (HasHeader(cursor) /\ SameAsChain(cursor))
  /\ pc' = "filter"
  /\ UNCHANGED <<chainVars, tables, loopVars, batchVars, safeHead, ancestor,
                 cancelled, exit>>

DetectReorg ==
  /\ pc = "detect"
  /\ ~ cancelled
  /\ ~ NeedsNoHeader
  /\ HasHeader(cursor)
  /\ ~ SameAsChain(cursor)
  /\ pc' = "walk"
  /\ ancestor' = cursor
  /\ safeHead' = 0
  /\ UNCHANGED <<chainVars, tables, loopVars, batchVars, cancelled, exit>>

DetectFails ==
  /\ pc = "detect"
  /\ \/ CallFails("rpc") \/ CallFails("db")
     \/ ~ NeedsNoHeader /\ ~ HasHeader(cursor)
  /\ LoopError
  /\ UNCHANGED <<chainVars, tables>>

(***************************************************************************)
(* Run: the logs, then the headers, of the batch.                          *)
(***************************************************************************)
FilterLogs ==
  /\ pc = "filter"
  /\ ~ cancelled
  /\ logs' = LogsOf(tip, From, To)
  /\ pc' = "headers"
  /\ UNCHANGED <<chainVars, tables, loopVars, safeHead, headers, ancestor,
                 cancelled, exit>>

FilterLogsFails ==
  /\ pc = "filter"
  /\ CallFails("rpc")
  /\ LoopError
  /\ UNCHANGED <<chainVars, tables>>

Concurrency == IF HeaderConcurrency <= 0 THEN 1 ELSE HeaderConcurrency

\* The errgroup starts the fetches in block order, a bounded number at once.
Started(n) ==
  Cardinality({m \in From..(n - 1) : m \notin DOMAIN headers}) < Concurrency

FetchHeader(n) ==
  /\ pc = "headers"
  /\ ~ cancelled
  /\ n \in Batch \ DOMAIN headers
  /\ Started(n)
  /\ HasHeader(n)
  /\ headers' = [m \in DOMAIN headers \cup {n} |->
                   IF m = n THEN HeaderAt(n) ELSE headers[m]]
  /\ pc' = IF Batch \subseteq DOMAIN headers' THEN "commit" ELSE "headers"
  /\ UNCHANGED <<chainVars, tables, loopVars, safeHead, logs, ancestor,
                 cancelled, exit>>

FetchHeadersFails ==
  /\ pc = "headers"
  /\ \/ CallFails("rpc")
     \/ \E n \in Batch \ DOMAIN headers : Started(n) /\ ~ HasHeader(n)
  /\ LoopError
  /\ UNCHANGED <<chainVars, tables>>

(***************************************************************************)
(* Run: the transaction that writes the batch.                             *)
(***************************************************************************)
BatchTx ==
  /\ rawEvents' = InsertRawEvents(rawEvents, logs)
  /\ auctions' = InsertAuctions(auctions, logs)
  /\ indexedBlocks' = InsertBlocks(indexedBlocks, headers)
  /\ cursorRow' = [block |-> To, hash |-> headers[To]]

CommitBatch ==
  /\ pc = "commit"
  /\ ~ cancelled
  /\ BatchTx
  /\ cursor' = To
  /\ consecutiveErrors' = 0
  /\ pc' = "head"
  /\ ForgetBatch
  /\ UNCHANGED <<chainVars, cancelled, exit>>

\* [mutant] HandleLogs writes through the store instead of the transaction
CommitFails_KeepsEvents ==
  /\ pc = "commit"
  /\ CallFails("db")
  /\ LoopError
  /\ rawEvents' = InsertRawEvents(rawEvents, logs)
  /\ auctions' = InsertAuctions(auctions, logs)
  /\ UNCHANGED <<chainVars, cursorRow, indexedBlocks>>

\* A statement or the COMMIT fails and WithTx has rolled everything back.
CommitFails ==
  /\ pc = "commit"
  /\ CallFails("db")
  /\ LoopError
  /\ UNCHANGED <<chainVars, tables>>

\* The COMMIT is applied and its acknowledgement does not arrive.
CommitAckLost ==
  /\ pc = "commit"
  /\ CallFails("lostack")
  /\ BatchTx
  /\ LoopError
  /\ UNCHANGED chainVars

(***************************************************************************)
(* handleReorg: the walk back to a common ancestor ...                     *)
(***************************************************************************)
MayWalk == ancestor > 0 /\ cursor - ancestor < MaxReorgDepth

WalkBack ==
  /\ pc = "walk"
  /\ ~ cancelled
  /\ MayWalk
  /\ HasHeader(ancestor - 1)
  /\ ancestor' = ancestor - 1
  /\ pc' = IF SameAsChain(ancestor - 1) THEN "rollback" ELSE "walk"
  /\ UNCHANGED <<chainVars, tables, loopVars, batchVars, safeHead, cancelled, exit>>

WalkEnds ==
  /\ pc = "walk"
  /\ ~ MayWalk
  /\ pc' = "rollback"
  /\ UNCHANGED <<chainVars, tables, loopVars, batchVars, safeHead, ancestor,
                 cancelled, exit>>

WalkFails ==
  /\ pc = "walk"
  /\ MayWalk
  /\ \/ CallFails("rpc") \/ CallFails("db")
     \/ ~ HasHeader(ancestor - 1)
  /\ Stop("reorg")
  /\ UNCHANGED <<chainVars, tables>>

(***************************************************************************)
(* ... and the transaction that rolls back everything above it.            *)
(***************************************************************************)
\* [mutant] the limit is one block too low
IsTooDeep_OneTooEarly == cursor - ancestor >= MaxReorgDepth - 1

IsTooDeep == cursor - ancestor >= MaxReorgDepth

TooDeep ==
  /\ pc = "rollback"
  /\ IsTooDeep
  /\ Stop("deep")
  /\ UNCHANGED <<chainVars, tables>>

\* [mutant] the blocks above the ancestor are not deleted
RollbackTx_KeepsBlocks ==
  /\ rawEvents' = DeleteRowsFrom(rawEvents, ancestor + 1)
  /\ auctions' = DeleteRowsFrom(auctions, ancestor + 1)
  /\ UNCHANGED indexedBlocks
  /\ cursorRow' = [block |-> ancestor, hash |-> GetHash(indexedBlocks, ancestor)]

\* [mutant] the ancestor is deleted too
RollbackTx_FromAncestor ==
  /\ rawEvents' = DeleteRowsFrom(rawEvents, ancestor)
  /\ auctions' = DeleteRowsFrom(auctions, ancestor)
  /\ indexedBlocks' = DeleteBlocksFrom(indexedBlocks, ancestor)
  /\ cursorRow' = [block |-> ancestor, hash |-> GetHash(indexedBlocks, ancestor)]

\* [mutant] the auctions above the ancestor are not deleted
RollbackTx_KeepsAuctions ==
  /\ rawEvents' = DeleteRowsFrom(rawEvents, ancestor + 1)
  /\ UNCHANGED auctions
  /\ indexedBlocks' = DeleteBlocksFrom(indexedBlocks, ancestor + 1)
  /\ cursorRow' = [block |-> ancestor, hash |-> GetHash(indexedBlocks', ancestor)]

RollbackTx ==
  /\ rawEvents' = DeleteRowsFrom(rawEvents, ancestor + 1)
  /\ auctions' = DeleteRowsFrom(auctions, ancestor + 1)
  /\ indexedBlocks' = DeleteBlocksFrom(indexedBlocks, ancestor + 1)
  /\ cursorRow' = [block |-> ancestor, hash |-> GetHash(indexedBlocks', ancestor)]

\* [mutant] Run keeps its cursor after handleReorg
Rollback_KeepsCursor ==
  /\ pc = "rollback"
  /\ ~ cancelled
  /\ ~ IsTooDeep
  /\ RollbackTx
  /\ consecutiveErrors' = 0
  /\ pc' = "head"
  /\ ForgetBatch
  /\ UNCHANGED <<chainVars, cursor, cancelled, exit>>

Rollback ==
  /\ pc = "rollback"
  /\ ~ cancelled
  /\ ~ IsTooDeep
  /\ RollbackTx
  /\ cursor' = ancestor
  /\ consecutiveErrors' = 0
  /\ pc' = "head"
  /\ ForgetBatch
  /\ UNCHANGED <<chainVars, cancelled, exit>>

\* An error of handleReorg is not retried: Run returns it.
RollbackFails ==
  /\ pc = "rollback"
  /\ ~ IsTooDeep
  /\ CallFails("db")
  /\ Stop("reorg")
  /\ UNCHANGED <<chainVars, tables>>

RollbackAckLost ==
  /\ pc = "rollback"
  /\ ~ IsTooDeep
  /\ CallFails("lostack")
  /\ RollbackTx
  /\ Stop("reorg")
  /\ UNCHANGED chainVars

(***************************************************************************)
(* Sleeping, signals, crashes and restarts.                                *)
(***************************************************************************)
Wake ==
  /\ pc = "sleep"
  /\ ~ cancelled
  /\ pc' = "head"
  /\ UNCHANGED <<chainVars, tables, loopVars, batchVars, safeHead, ancestor,
                 cancelled, exit>>

\* [mutant] the sleeps do not select on ctx.Done()
StopOnCancel_NotAsleep ==
  /\ pc = "head"
  /\ cancelled
  /\ Stop("canceled")
  /\ UNCHANGED <<chainVars, tables>>

\* ctx.Done() is selected at the top of the loop and in every sleep.
StopOnCancel ==
  /\ pc \in {"head", "sleep"}
  /\ cancelled
  /\ Stop("canceled")
  /\ UNCHANGED <<chainVars, tables>>

Signal ==
  /\ "signal" \in Faults
  /\ pc # "stopped"
  /\ ~ cancelled
  /\ cancelled' = TRUE
  /\ UNCHANGED <<chainVars, tables, pc, loopVars, batchVars, safeHead, ancestor, exit>>

Crash ==
  /\ "crash" \in Faults
  /\ pc # "stopped"
  /\ Stop("crash")
  /\ UNCHANGED <<chainVars, tables>>

\* The supervisor starts the process again: only the tables have survived.
Restart ==
  /\ pc = "stopped"
  /\ pc' = "load"
  /\ cursor' = 0
  /\ consecutiveErrors' = 0
  /\ cancelled' = FALSE
  /\ exit' = "running"
  /\ ForgetBatch
  /\ UNCHANGED <<chainVars, tables>>

(***************************************************************************)
(* The specification.                                                      *)
(***************************************************************************)
ReadingBatch == pc \in {"detect", "filter", "headers"}

ChainStep ==
  /\ \E h \in Blocks :
       \/ Mine(h)
       \/ (MidBatchReorgs \/ ~ ReadingBatch) /\ Reorg(h)
  /\ UNCHANGED <<tables, procVars>>

RunStep ==
  \/ LoadCursor \/ LoadFails
  \/ GetHead \/ NothingToDo \/ GetHeadFails
  \/ DetectNoReorg \/ DetectReorg \/ DetectFails
  \/ FilterLogs \/ FilterLogsFails
  \/ (\E n \in Batch : FetchHeader(n)) \/ FetchHeadersFails
  \/ CommitBatch \/ CommitFails \/ CommitAckLost
  \/ WalkBack \/ WalkEnds \/ WalkFails
  \/ TooDeep \/ Rollback \/ RollbackFails \/ RollbackAckLost
  \/ Wake \/ StopOnCancel

Next == RunStep \/ Signal \/ Crash \/ Restart \/ ChainStep

Spec == Init /\ [][Next]_vars

=============================================================================
