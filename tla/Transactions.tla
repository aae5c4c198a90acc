---------------------------- MODULE Transactions ----------------------------
(***************************************************************************)
(* The indexer with its transactions taken apart: pgStore.WithTx begins    *)
(* one, HandleLogs and Run (or handleReorg) execute their statements one   *)
(* by one in it, and the tables change at COMMIT.  Between two statements  *)
(* the chain moves, the process is told to stop or dies, and any statement *)
(* may fail after others have been executed.  Indexer takes all this as    *)
(* one step; ImplementsIndexer says that it may.                           *)
(***************************************************************************)
EXTENDS IndexerProperties

CONSTANT Poison   \* the transactions whose log can never be handled

ASSUME PoisonAssumption == Poison \subseteq Txs

VARIABLES
  stmt,    \* the next statement of the transaction, "none" outside of one
  left,    \* the logs, and after them the blocks, that are still to be inserted
  work     \* the tables as the transaction sees them

txVars == <<stmt, left, work>>

Committed == [row |-> cursorRow, blocks |-> indexedBlocks, events |-> rawEvents,
              auctions |-> auctions]

TxInit == Init /\ stmt = "none" /\ left = {} /\ work = Committed

\* The deferred end of WithTx: nothing of the transaction is kept.
EndTx ==
  /\ stmt' = "none"
  /\ left' = {}
  /\ work' = Committed'

\* The tables of a transaction that is applied.
ApplyTx ==
  /\ cursorRow' = work.row
  /\ indexedBlocks' = work.blocks
  /\ rawEvents' = work.events
  /\ auctions' = work.auctions

\* A statement changes nothing but what its transaction sees.
Executes == ~ cancelled /\ UNCHANGED vars

(***************************************************************************)
(* The transaction of a batch.                                             *)
(***************************************************************************)
HandleLogs(rest) ==
  IF rest = {} THEN left' = Batch /\ stmt' = "block"
               ELSE left' = rest /\ stmt' = "event"

\* [mutant] HandleLogs warns about a log that fails, and skips it
BeginBatch_SkipsFailing ==
  /\ pc = "commit" /\ stmt = "none"
  /\ Executes
  /\ HandleLogs({l \in logs : l.tx \notin Poison})
  /\ work' = Committed

BeginBatch ==
  /\ pc = "commit" /\ stmt = "none"
  /\ Executes
  /\ HandleLogs(logs)
  /\ work' = Committed

\* HandleLogs keeps the order of the logs, which is that of their blocks.
NextLog == CHOOSE l \in left : \A m \in left : l.block <= m.block

\* [mutant] the handler is given the store instead of the transaction
InsertRawEvent_InStore ==
  /\ stmt = "event"
  /\ ~ cancelled
  /\ rawEvents' = InsertRawEvents(rawEvents, {NextLog})
  /\ work' = [work EXCEPT !.events = InsertRawEvents(@, {NextLog})]
  /\ stmt' = "auction"
  /\ UNCHANGED <<chainVars, cursorRow, indexedBlocks, auctions, procVars, left>>

\* Handle decodes the log and inserts the event ...
InsertRawEvent ==
  /\ stmt = "event"
  /\ Executes
  /\ work' = [work EXCEPT !.events = InsertRawEvents(@, {NextLog})]
  /\ stmt' = "auction"
  /\ UNCHANGED left

\* ... and then the auction of the same log.
InsertAuction ==
  /\ stmt = "auction"
  /\ NextLog.tx \notin Poison
  /\ Executes
  /\ work' = [work EXCEPT !.auctions = InsertAuctions(@, {NextLog})]
  /\ HandleLogs(left \ {NextLog})

\* A log that cannot be decoded fails before its event is inserted; one with a
\* uint64 beyond BIGINT fails in the auction, with its event inserted.
LogFails == stmt \in {"event", "auction"} /\ NextLog.tx \in Poison

\* The blocks are inserted in their order.
InsertBlock ==
  /\ stmt = "block"
  /\ Executes
  /\ \E n \in left :
       /\ \A m \in left : n <= m
       /\ work' = [work EXCEPT !.blocks = InsertBlocks(@, [m \in {n} |-> headers[n]])]
       /\ left' = left \ {n}
       /\ stmt' = IF n = To THEN "cursor" ELSE "block"

UpsertBatchCursor ==
  /\ pc = "commit" /\ stmt = "cursor"
  /\ Executes
  /\ work' = [work EXCEPT !.row = [block |-> To, hash |-> headers[To]]]
  /\ stmt' = "commit"
  /\ UNCHANGED left

CommitBatchTx ==
  /\ pc = "commit" /\ stmt = "commit"
  /\ ~ cancelled
  /\ ApplyTx
  /\ EndTx
  /\ cursor' = To
  /\ consecutiveErrors' = 0
  /\ pc' = "head"
  /\ ForgetBatch
  /\ UNCHANGED <<chainVars, cancelled, exit>>

\* BEGIN, a statement or COMMIT fails, and nothing is kept.
BatchTxFails ==
  /\ pc = "commit"
  /\ CallFails("db") \/ LogFails
  /\ LoopError
  /\ UNCHANGED <<chainVars, tables>>
  /\ EndTx

BatchAckLost ==
  /\ pc = "commit" /\ stmt = "commit"
  /\ CallFails("lostack")
  /\ ApplyTx
  /\ EndTx
  /\ LoopError
  /\ UNCHANGED chainVars

(***************************************************************************)
(* The transaction of a rollback.                                          *)
(***************************************************************************)
BeginRollback ==
  /\ pc = "rollback" /\ stmt = "none"
  /\ ~ IsTooDeep
  /\ Executes
  /\ stmt' = "delete events"
  /\ work' = Committed
  /\ UNCHANGED left

DeleteEvents ==
  /\ stmt = "delete events"
  /\ Executes
  /\ work' = [work EXCEPT !.events = DeleteRowsFrom(@, ancestor + 1)]
  /\ stmt' = "delete auctions"
  /\ UNCHANGED left

DeleteAuctions ==
  /\ stmt = "delete auctions"
  /\ Executes
  /\ work' = [work EXCEPT !.auctions = DeleteRowsFrom(@, ancestor + 1)]
  /\ stmt' = "delete blocks"
  /\ UNCHANGED left

DeleteBlocks ==
  /\ stmt = "delete blocks"
  /\ Executes
  /\ work' = [work EXCEPT !.blocks = DeleteBlocksFrom(@, ancestor + 1)]
  /\ stmt' = "cursor"
  /\ UNCHANGED left

\* The hash is read in the transaction, below what it has deleted.
UpsertRollbackCursor ==
  /\ pc = "rollback" /\ stmt = "cursor"
  /\ Executes
  /\ work' = [work EXCEPT !.row = [block |-> ancestor, hash |-> GetHash(work.blocks, ancestor)]]
  /\ stmt' = "commit"
  /\ UNCHANGED left

CommitRollback ==
  /\ pc = "rollback" /\ stmt = "commit"
  /\ ~ cancelled
  /\ ApplyTx
  /\ EndTx
  /\ cursor' = ancestor
  /\ consecutiveErrors' = 0
  /\ pc' = "head"
  /\ ForgetBatch
  /\ UNCHANGED <<chainVars, cancelled, exit>>

RollbackTxFails ==
  /\ pc = "rollback"
  /\ ~ IsTooDeep
  /\ CallFails("db")
  /\ Stop("reorg")
  /\ UNCHANGED <<chainVars, tables>>
  /\ EndTx

RollbackTxAckLost ==
  /\ pc = "rollback" /\ stmt = "commit"
  /\ CallFails("lostack")
  /\ ApplyTx
  /\ EndTx
  /\ Stop("reorg")
  /\ UNCHANGED chainVars

(***************************************************************************)
(* The specification.                                                      *)
(***************************************************************************)
BatchTxStep ==
  \/ BeginBatch \/ InsertRawEvent \/ InsertAuction \/ InsertBlock
  \/ UpsertBatchCursor \/ CommitBatchTx \/ BatchTxFails \/ BatchAckLost

RollbackTxStep ==
  \/ BeginRollback \/ DeleteEvents \/ DeleteAuctions \/ DeleteBlocks
  \/ UpsertRollbackCursor \/ CommitRollback \/ RollbackTxFails \/ RollbackTxAckLost

\* Everything of Run and of its environment that is no transaction.
OtherStep ==
  \/ pc \notin {"commit", "rollback"} /\ RunStep
  \/ TooDeep \/ Signal \/ Restart \/ ChainStep

TxNext ==
  \/ BatchTxStep \/ RollbackTxStep
  \/ OtherStep /\ UNCHANGED txVars
  \/ Crash /\ EndTx

TxSpec == TxInit /\ [][TxNext]_<<vars, txVars>>

\* The statements executed one by one, whatever happens between them, have the
\* effect of the single steps of Indexer: a log that can never be handled is
\* there a transaction that fails.
AsIndexer == INSTANCE Indexer WITH Faults <- Faults \cup {"db"}
ImplementsIndexer == AsIndexer!Spec

\* The cursor never passes a log that cannot be handled: HandleLogs fails the
\* batch, again after every retry and restart, rather than to leave it out.
NothingSkipped ==
  \A n \in DOMAIN indexedBlocks : TxsIn[indexedBlocks[n]] \cap Poison = {}

=============================================================================
