------------------------- MODULE TransactionsProofs -------------------------
(***************************************************************************)
(* Proofs about the transactions taken apart: statement by statement, with *)
(* the chain, the signal and any failure between them, they implement the  *)
(* single steps of Indexer.                                                *)
(***************************************************************************)
EXTENDS Transactions, TablesProofs, WellFoundedInduction

(***************************************************************************)
(* The batch a transaction writes.                                         *)
(***************************************************************************)
\* What Run has read of a batch while it reads and writes it.
BatchInv ==
  /\ pc \notin {"headers", "commit"} => DOMAIN headers = {}
  /\ pc \in {"headers", "commit"} =>
       DOMAIN headers \subseteq Batch /\ \E h \in Blocks : logs = LogsOf(h, From, To)
  /\ pc = "commit" => Batch \subseteq DOMAIN headers

\* With no reorg in the reading of a batch, its logs are those of its headers.
UnmovedInv ==
  /\ pc \in {"detect", "filter", "headers"} => safeHead <= Height(tip)
  /\ pc = "headers" => BatchFrom(tip)
  /\ pc = "commit" => \E h \in Blocks : BatchFrom(h)

ReadInv == TypeOK /\ BatchIsReady /\ BatchInv /\ (MidBatchReorgs \/ UnmovedInv)

\* An iteration that ends leaves no batch.
LEMMA EndBatch ==
  ASSUME headers' = NoHeaders, pc' \notin {"detect", "filter", "headers", "commit"}
  PROVE  BatchInv' /\ UnmovedInv'
BY DEF BatchInv, UnmovedInv, NoHeaders

LEMMA StepBatch ==
  ASSUME ReadInv, [Next]_vars
  PROVE  BatchInv'
<1> USE DEF ReadInv
<1>1. CASE \/ LoadFails \/ GetHeadFails \/ DetectFails \/ FilterLogsFails \/ FetchHeadersFails
           \/ CommitBatch \/ CommitFails \/ CommitAckLost \/ WalkFails \/ TooDeep \/ Rollback
           \/ RollbackFails \/ RollbackAckLost \/ StopOnCancel \/ Crash \/ Restart
  <2>1. headers' = NoHeaders /\ pc' \notin {"detect", "filter", "headers", "commit"}
    BY <1>1
    DEF LoadFails, GetHeadFails, DetectFails, FilterLogsFails, FetchHeadersFails, CommitBatch,
        CommitFails, CommitAckLost, WalkFails, TooDeep, Rollback, RollbackFails, RollbackAckLost,
        StopOnCancel, Crash, Restart, LoopError, Stop, ForgetBatch
  <2> QED BY <2>1, EndBatch
<1>2. CASE \/ LoadCursor \/ GetHead \/ NothingToDo \/ DetectNoReorg \/ DetectReorg \/ WalkBack
           \/ WalkEnds \/ Wake
  BY <1>2
  DEF LoadCursor, GetHead, NothingToDo, DetectNoReorg, DetectReorg, WalkBack, WalkEnds, Wake,
      BatchInv, batchVars
<1>3. CASE FilterLogs
  <2>1. From' = From /\ To' = To
    BY <1>3, SameBatch DEF FilterLogs, loopVars
  <2> QED BY <1>3, <2>1 DEF FilterLogs, BatchInv, TypeOK
<1>4. ASSUME NEW n \in Batch, FetchHeader(n) PROVE BatchInv'
  <2>1. From' = From /\ To' = To /\ Batch' = Batch
    BY <1>4, SameBatch DEF FetchHeader, loopVars
  <2>2. DOMAIN headers' = DOMAIN headers \cup {n}
    BY <1>4 DEF FetchHeader
  <2> QED BY <1>4, <2>1, <2>2 DEF FetchHeader, BatchInv
<1>5. CASE Signal \/ ChainStep \/ UNCHANGED vars
  <2>1. UNCHANGED <<pc, cursor, safeHead, logs, headers>>
    BY <1>5 DEF Signal, ChainStep, vars, procVars, loopVars, batchVars
  <2>2. From' = From /\ To' = To /\ Batch' = Batch
    BY <2>1, SameBatch
  <2> QED BY <2>1, <2>2 DEF BatchInv
<1> QED BY <1>1, <1>2, <1>3, <1>4, <1>5 DEF Next, RunStep

LEMMA StepUnmoved ==
  ASSUME ~ MidBatchReorgs, ReadInv, [Next]_vars
  PROVE  UnmovedInv'
<1> USE DEF ReadInv
<1>1. CASE pc' \notin {"detect", "filter", "headers", "commit"}
  BY <1>1 DEF UnmovedInv
<1>2. CASE GetHead
  <2>1. ConfirmedHead <= Height(tip)
    BY Ancestors, ConfigAssumption DEF ConfirmedHead, TypeOK
  <2> QED BY <1>2, <2>1 DEF GetHead, chainVars, UnmovedInv
<1>3. CASE DetectNoReorg
  BY <1>3 DEF DetectNoReorg, chainVars, UnmovedInv
<1>4. CASE FilterLogs
  <2>1. /\ To \in Nat /\ To <= safeHead /\ safeHead <= Height(tip) /\ DOMAIN headers = {}
        /\ Height(tip) \in Nat /\ safeHead \in Nat
    BY <1>4, BatchBounds, Ancestors DEF FilterLogs, BatchIsReady, BatchInv, UnmovedInv, TypeOK
  <2>2. From' = From /\ To' = To
    BY <1>4, SameBatch DEF FilterLogs, loopVars
  <2>3. BatchFrom(tip)'
    BY <1>4, <2>1, <2>2 DEF FilterLogs, BatchFrom, chainVars
  <2> QED BY <1>4, <2>1, <2>3 DEF FilterLogs, chainVars, UnmovedInv
<1>5. ASSUME NEW n \in Batch, FetchHeader(n) PROVE UnmovedInv'
  <2>1. From' = From /\ To' = To
    BY <1>5, SameBatch DEF FetchHeader, loopVars
  <2>2. BatchFrom(tip) /\ safeHead <= Height(tip)
    BY <1>5 DEF FetchHeader, UnmovedInv
  <2>3. \A m \in DOMAIN headers' : headers'[m] = AncestorAt(tip, m)
    BY <1>5, <2>2 DEF FetchHeader, HeaderAt, BatchFrom
  <2>4. tip' = tip /\ tip \in Blocks /\ UNCHANGED <<safeHead, logs>>
        /\ pc' \in {"headers", "commit"}
    BY <1>5 DEF FetchHeader, chainVars, TypeOK
  <2>5. BatchFrom(tip)'
    BY <2>1, <2>2, <2>3, <2>4 DEF BatchFrom
  <2>6. \E h \in Blocks : BatchFrom(h)'
    BY <2>4, <2>5 DEF BatchFrom
  <2> QED BY <2>2, <2>4, <2>5, <2>6 DEF UnmovedInv
<1>6. CASE ChainStep
  <2>1. UNCHANGED procVars /\ From' = From /\ To' = To
    BY <1>6, SameBatch DEF ChainStep, procVars
  <2>2. CASE pc \in {"detect", "filter", "headers"}
    <3>1. PICK h \in Blocks : Mine(h)
      BY <1>6, <2>2 DEF ChainStep, ReadingBatch
    <3>2. safeHead' <= Height(tip')
      BY <2>1, <2>2, <3>1, Ancestors DEF Mine, UnmovedInv, TypeOK, procVars
    <3>3. pc = "headers" => BatchFrom(tip)'
      BY <2>1, <2>2, <3>1, GrowthKeepsBatch DEF BatchInv, UnmovedInv
    <3> QED BY <2>1, <2>2, <3>2, <3>3 DEF UnmovedInv, procVars
  <2>3. CASE pc = "commit"
    BY <2>1, <2>3 DEF UnmovedInv, BatchFrom, procVars
  <2> QED BY <1>1, <2>1, <2>2, <2>3 DEF procVars
<1>7. CASE Signal \/ UNCHANGED vars
  <2>1. UNCHANGED <<tip, pc, cursor, safeHead, logs, headers>>
    BY <1>7 DEF Signal, vars, chainVars, procVars, loopVars, batchVars
  <2>2. From' = From /\ To' = To
    BY <2>1, SameBatch
  <2> QED BY <2>1, <2>2 DEF UnmovedInv, BatchFrom
<1>8. CASE \/ LoadCursor \/ LoadFails \/ NothingToDo \/ GetHeadFails \/ DetectReorg \/ DetectFails
           \/ FilterLogsFails \/ FetchHeadersFails \/ CommitBatch \/ CommitFails \/ CommitAckLost
           \/ WalkBack \/ WalkEnds \/ WalkFails \/ TooDeep \/ Rollback \/ RollbackFails
           \/ RollbackAckLost \/ Wake \/ StopOnCancel \/ Crash \/ Restart
  BY <1>1, <1>8
  DEF LoadCursor, LoadFails, NothingToDo, GetHeadFails, DetectReorg, DetectFails, FilterLogsFails,
      FetchHeadersFails, CommitBatch, CommitFails, CommitAckLost, WalkBack, WalkEnds, WalkFails,
      TooDeep, Rollback, RollbackFails, RollbackAckLost, Wake, StopOnCancel, Crash, Restart,
      LoopError, Stop
<1> QED BY <1>2, <1>3, <1>4, <1>5, <1>6, <1>7, <1>8 DEF Next, RunStep

\* Two logs of a batch that could conflict in a table are one log.
LEMMA LogKeys ==
  ASSUME ReadInv, pc = "commit", NEW k \in logs, NEW l \in logs
  PROVE  /\ k.block = l.block /\ k.tx = l.tx => k = l
         /\ AuctionOf[k.tx] = AuctionOf[l.tx] => k = l
<1>1. PICK h \in Blocks : logs = LogsOf(h, From, To)
  BY DEF ReadInv, BatchInv
<1>2. From \in Nat \ {0} /\ To \in Nat /\ Height(h) \in Nat
  BY BatchBounds, Ancestors DEF ReadInv, BatchIsReady
<1>3. \A e \in logs : /\ e.block \in 1..Height(h)
                      /\ e.tx \in TxsIn[AncestorAt(h, e.block)]
                      /\ e = [block |-> e.block, tx |-> e.tx, hash |-> AncestorAt(h, e.block)]
  BY <1>1, <1>2 DEF LogsOf, LogsIn, LogsAt
<1>4. k.block = l.block /\ k.tx = l.tx => k = l
  BY <1>3
<1>5. AuctionOf[k.tx] = AuctionOf[l.tx] => k.block = l.block /\ k.tx = l.tx
  BY <1>3, TxAssumption
<1> QED BY <1>4, <1>5

LEMMA LeastNatural ==
  ASSUME NEW H \in SUBSET Nat, H # {}
  PROVE  \E b \in H : \A n \in H : b <= n
<1>1. PICK b \in H : \A n \in H : ~ (<<n, b>> \in OpToRel(<, Nat))
  BY NatLessThanWellFounded, WFMin, Zenon
<1>2. \A n \in H : ~ (n < b)
  BY <1>1 DEF OpToRel
<1> QED BY <1>2

\* The log that HandleLogs takes next is one of those that are left.
LEMMA NextIsLeft ==
  ASSUME ReadInv, left \subseteq logs, left # {}
  PROVE  NextLog \in left
<1> DEFINE H == {l.block : l \in left}
<1>1. \A l \in left : l.block \in Nat
  BY DEF ReadInv, TypeOK, EventRow
<1>2. H \in SUBSET Nat /\ H # {}
  BY <1>1
<1>3. PICK b \in H : \A n \in H : b <= n
  <2> HIDE DEF H
  <2> QED BY <1>2, LeastNatural
<1>4. PICK l \in left : l.block = b
  BY <1>3
<1>5. \A m \in left : l.block <= m.block
  BY <1>3, <1>4
<1> QED BY <1>5 DEF NextLog

(***************************************************************************)
(* One row at a time is all the rows at once.                              *)
(***************************************************************************)
LEMMA OneMoreEvent ==
  ASSUME ReadInv, pc = "commit", NEW E \in SUBSET logs, NEW l \in logs
  PROVE  InsertRawEvents(InsertRawEvents(rawEvents, E), {l})
           = InsertRawEvents(rawEvents, E \cup {l})
<1>1. \A e \in E : e.block = l.block /\ e.tx = l.tx => e = l
  BY LogKeys
<1> QED BY <1>1 DEF InsertRawEvents

LEMMA OneMoreAuction ==
  ASSUME ReadInv, pc = "commit", NEW E \in SUBSET logs, NEW l \in logs
  PROVE  InsertAuctions(InsertAuctions(auctions, E), {l})
           = InsertAuctions(auctions, E \cup {l})
<1>1. \A e \in E : AuctionFrom(e).address = AuctionFrom(l).address => e = l
  BY LogKeys DEF AuctionFrom
<1>2. AuctionsFrom(E \cup {l}) = AuctionsFrom(E) \cup {AuctionFrom(l)}
      /\ AuctionsFrom({l}) = {AuctionFrom(l)}
  BY DEF AuctionsFrom
<1>3. \A a \in AuctionsFrom(E) : a.address = AuctionFrom(l).address => a = AuctionFrom(l)
  BY <1>1 DEF AuctionsFrom
<1> HIDE DEF AuctionsFrom
<1> QED BY <1>2, <1>3 DEF InsertAuctions

LEMMA OneMoreBlock ==
  ASSUME NEW B, NEW n
  PROVE  InsertBlocks(InsertBlocks(indexedBlocks, [m \in B |-> headers[m]]),
                      [m \in {n} |-> headers[n]])
           = InsertBlocks(indexedBlocks, [m \in B \cup {n} |-> headers[m]])
BY DEF InsertBlocks

(***************************************************************************)
(* What a transaction sees.                                                *)
(***************************************************************************)
\* The committed tables with events, auctions and blocks of the batch inserted.
Seen(E, A, B) ==
  [row |-> cursorRow,
   blocks |-> InsertBlocks(indexedBlocks, [n \in B |-> headers[n]]),
   events |-> InsertRawEvents(rawEvents, E),
   auctions |-> InsertAuctions(auctions, A)]

\* They after a rollback, as far as its statements have come.
WithoutEvents == [Committed EXCEPT !.events = DeleteRowsFrom(@, ancestor + 1)]
WithoutAuctions == [WithoutEvents EXCEPT !.auctions = DeleteRowsFrom(@, ancestor + 1)]
WithoutBlocks == [WithoutAuctions EXCEPT !.blocks = DeleteBlocksFrom(@, ancestor + 1)]

BatchTxInv ==
  /\ stmt = "event" =>
       /\ left # {} /\ left \subseteq logs
       /\ work = Seen(logs \ left, logs \ left, {})
  /\ stmt = "auction" =>
       /\ left # {} /\ left \subseteq logs
       /\ work = Seen((logs \ left) \cup {NextLog}, logs \ left, {})
  /\ stmt = "block" =>
       /\ To \in left /\ left \subseteq Batch
       /\ work = Seen(logs, logs, Batch \ left)
  /\ stmt = "cursor" => work = Seen(logs, logs, Batch)
  /\ stmt = "commit" =>
       work = [Seen(logs, logs, Batch) EXCEPT !.row = [block |-> To, hash |-> headers[To]]]

RollbackTxInv ==
  /\ stmt = "delete events" => work = Committed
  /\ stmt = "delete auctions" => work = WithoutEvents
  /\ stmt = "delete blocks" => work = WithoutAuctions
  /\ stmt = "cursor" => work = WithoutBlocks
  /\ stmt = "commit" =>
       work = [WithoutBlocks EXCEPT !.row = [block |-> ancestor,
                                             hash |-> GetHash(WithoutBlocks.blocks, ancestor)]]

TxInv ==
  \/ stmt = "none"
  \/ /\ pc = "commit" /\ stmt \in {"event", "auction", "block", "cursor", "commit"}
     /\ BatchTxInv
  \/ /\ pc = "rollback" /\ ~ IsTooDeep
     /\ stmt \in {"delete events", "delete auctions", "delete blocks", "cursor", "commit"}
     /\ RollbackTxInv

\* Every log whose auction is inserted could be handled.
HandledInv ==
  pc = "commit" =>
    /\ stmt \in {"event", "auction"} => \A l \in logs \ left : l.tx \notin Poison
    /\ stmt \in {"block", "cursor", "commit"} => \A l \in logs : l.tx \notin Poison

TxIInv == ReadInv /\ TxInv /\ HandledInv

(***************************************************************************)
(* Every statement keeps the invariant.                                    *)
(***************************************************************************)
LEMMA TxEnds == EndTx => TxInv' /\ HandledInv'
BY DEF EndTx, TxInv, HandledInv

\* Outside of the transaction, only the chain and the signal move.
LEMMA WorkRests ==
  ASSUME TxIInv, UNCHANGED tables, UNCHANGED txVars,
         UNCHANGED <<pc, cursor, safeHead, logs, headers, ancestor>>
  PROVE  TxInv' /\ HandledInv'
<1>1. From' = From /\ To' = To /\ Batch' = Batch
  BY SameBatch
<1>2. Committed' = Committed /\ IsTooDeep' = IsTooDeep /\ NextLog' = NextLog
      /\ WithoutBlocks' = WithoutBlocks /\ WithoutAuctions' = WithoutAuctions
      /\ WithoutEvents' = WithoutEvents
  BY DEF Committed, IsTooDeep, NextLog, WithoutBlocks, WithoutAuctions, WithoutEvents, tables,
         txVars
<1>3. \A E, A, B : Seen(E, A, B)' = Seen(E, A, B)
  BY DEF Seen, tables
<1>4. stmt' = stmt /\ left' = left /\ work' = work
  BY DEF txVars
<1>5. BatchTxInv' = BatchTxInv
  BY <1>1, <1>2, <1>3, <1>4 DEF BatchTxInv
<1>6. RollbackTxInv' = RollbackTxInv
  BY <1>2, <1>4 DEF RollbackTxInv
<1> QED BY <1>2, <1>4, <1>5, <1>6 DEF TxIInv, TxInv, HandledInv

\* What a statement leaves alone.
LEMMA StatementKeeps ==
  ASSUME UNCHANGED vars
  PROVE  /\ UNCHANGED <<pc, logs, headers>> /\ To' = To /\ Batch' = Batch
         /\ IsTooDeep' <=> IsTooDeep
         /\ Committed' = Committed
         /\ WithoutEvents' = WithoutEvents /\ WithoutAuctions' = WithoutAuctions
         /\ WithoutBlocks' = WithoutBlocks
         /\ \A E, A, B : Seen(E, A, B)' = Seen(E, A, B)
         /\ ancestor' = ancestor
<1>1. /\ UNCHANGED <<pc, cursor, safeHead, logs, headers, ancestor>>
      /\ UNCHANGED <<cursorRow, indexedBlocks, rawEvents, auctions>>
  BY DEF vars, procVars, tables
<1>2. To' = To /\ Batch' = Batch
  BY <1>1, SameBatch
<1> QED
  BY <1>1, <1>2
  DEF IsTooDeep, Committed, WithoutEvents, WithoutAuctions, WithoutBlocks, Seen

\* The statement after the last log inserts the first block.
LEMMA LogsHandled ==
  ASSUME TxIInv, UNCHANGED vars, pc = "commit", NEW rest \in SUBSET logs, HandleLogs(rest),
         work' = Seen(logs \ rest, logs \ rest, {}), \A l \in logs \ rest : l.tx \notin Poison
  PROVE  TxInv' /\ HandledInv'
<1>1. CASE rest # {}
  <2>1. stmt' = "event" /\ left' = rest
    BY <1>1 DEF HandleLogs
  <2> QED BY <1>1, <2>1, StatementKeeps DEF TxInv, BatchTxInv, HandledInv
<1>2. CASE rest = {}
  <2>1. stmt' = "block" /\ left' = Batch /\ work' = Seen(logs, logs, Batch \ Batch)
    BY <1>2 DEF HandleLogs
  <2>2. To \in Batch
    BY BatchBounds DEF TxIInv, ReadInv, BatchIsReady, Batch
  <2> QED BY <1>2, <2>1, <2>2, StatementKeeps DEF TxInv, BatchTxInv, HandledInv
<1> QED BY <1>1, <1>2

LEMMA StepBatchTx ==
  ASSUME TxIInv, BatchTxStep
  PROVE  TxInv' /\ HandledInv'
<1> USE DEF Executes
<1>1. CASE BeginBatch
  <2>1. Committed = Seen(logs \ logs, logs \ logs, {})
    BY DEF Committed, Seen, InsertBlocks, InsertRawEvents, InsertAuctions, AuctionsFrom,
           TxIInv, ReadInv, TypeOK, IsHashMap
  <2> QED BY <1>1, <2>1, LogsHandled DEF BeginBatch
<1>2. CASE InsertRawEvent
  <2>1. /\ pc = "commit" /\ left # {} /\ left \subseteq logs /\ NextLog \in left
        /\ work = Seen(logs \ left, logs \ left, {})
    BY <1>2, NextIsLeft DEF InsertRawEvent, TxIInv, TxInv, BatchTxInv
  <2>2. work' = Seen((logs \ left) \cup {NextLog}, logs \ left, {})
    BY <1>2, <2>1, OneMoreEvent DEF InsertRawEvent, Seen, TxIInv
  <2>3. stmt' = "auction" /\ left' = left /\ NextLog' = NextLog
    BY <1>2 DEF InsertRawEvent, NextLog
  <2>4. UNCHANGED vars
    BY <1>2 DEF InsertRawEvent
  <2>5. work' = Seen((logs \ left) \cup {NextLog}, logs \ left, {})'
    BY <2>2, <2>3, <2>4, StatementKeeps
  <2>6. BatchTxInv'
    BY <2>1, <2>3, <2>4, <2>5, StatementKeeps DEF BatchTxInv
  <2>7. TxInv'
    BY <2>1, <2>3, <2>4, <2>6, StatementKeeps DEF TxInv
  <2>8. HandledInv'
    BY <1>2, <2>3, <2>4, StatementKeeps DEF InsertRawEvent, TxIInv, HandledInv
  <2> QED BY <2>7, <2>8
<1>3. CASE InsertAuction
  <2>1. /\ pc = "commit" /\ left # {} /\ left \subseteq logs /\ NextLog \in left
        /\ work = Seen((logs \ left) \cup {NextLog}, logs \ left, {})
    BY <1>3, NextIsLeft DEF InsertAuction, TxIInv, TxInv, BatchTxInv
  <2> DEFINE rest == left \ {NextLog}
  <2>2. (logs \ left) \cup {NextLog} = logs \ rest
    BY <2>1
  <2>3. work' = Seen(logs \ rest, logs \ rest, {})
    <3>1. InsertAuctions(InsertAuctions(auctions, logs \ left), {NextLog})
            = InsertAuctions(auctions, logs \ rest)
      BY <2>1, <2>2, OneMoreAuction DEF TxIInv
    <3> HIDE DEF rest
    <3> QED BY <1>3, <2>1, <2>2, <3>1 DEF InsertAuction, Seen
  <2>4. \A l \in logs \ rest : l.tx \notin Poison
    BY <1>3, <2>1 DEF InsertAuction, TxIInv, HandledInv
  <2>5. rest \in SUBSET logs /\ HandleLogs(rest) /\ UNCHANGED vars
    BY <1>3, <2>1 DEF InsertAuction
  <2> QED BY <2>1, <2>3, <2>4, <2>5, LogsHandled
<1>4. CASE InsertBlock
  <2>1. PICK n \in left :
          /\ \A m \in left : n <= m
          /\ work' = [work EXCEPT !.blocks = InsertBlocks(@, [m \in {n} |-> headers[n]])]
          /\ left' = left \ {n}
          /\ stmt' = IF n = To THEN "cursor" ELSE "block"
    BY <1>4 DEF InsertBlock
  <2>2. /\ pc = "commit" /\ To \in left /\ left \subseteq Batch
        /\ work = Seen(logs, logs, Batch \ left)
    BY <1>4 DEF InsertBlock, TxIInv, TxInv, BatchTxInv
  <2>3. (Batch \ left) \cup {n} = Batch \ left'
    BY <2>1, <2>2
  <2>4. work' = Seen(logs, logs, Batch \ left')
    <3>1. InsertBlocks(InsertBlocks(indexedBlocks, [m \in Batch \ left |-> headers[m]]),
                       [m \in {n} |-> headers[n]])
            = InsertBlocks(indexedBlocks, [m \in Batch \ left' |-> headers[m]])
      BY <2>3, OneMoreBlock
    <3> QED BY <2>1, <2>2, <3>1 DEF Seen
  <2>5. CASE n = To
    <3>1. \A m \in left : m = To
      BY <2>1, <2>2, <2>5, BatchBounds DEF TxIInv, ReadInv, BatchIsReady, Batch
    <3>2. Batch \ left' = Batch
      BY <2>1, <2>5, <3>1
    <3>3. pc' = "commit" /\ stmt' = "cursor" /\ UNCHANGED vars /\ logs' = logs
      BY <1>4, <2>1, <2>2, <2>5, StatementKeeps DEF InsertBlock
    <3>4. work' = Seen(logs, logs, Batch)'
      BY <2>4, <3>2, <3>3, StatementKeeps
    <3>5. TxInv'
      BY <3>3, <3>4 DEF TxInv, BatchTxInv
    <3>6. HandledInv'
      BY <1>4, <2>2, <3>3 DEF InsertBlock, TxIInv, HandledInv
    <3> QED BY <3>5, <3>6
  <2>6. CASE n # To
    BY <1>4, <2>1, <2>2, <2>4, <2>6, StatementKeeps
    DEF InsertBlock, TxInv, BatchTxInv, TxIInv, HandledInv
  <2> QED BY <2>5, <2>6
<1>5. CASE UpsertBatchCursor
  BY <1>5, StatementKeeps DEF UpsertBatchCursor, TxInv, BatchTxInv, TxIInv, HandledInv
<1>6. CASE CommitBatchTx \/ BatchTxFails \/ BatchAckLost
  BY <1>6, TxEnds DEF CommitBatchTx, BatchTxFails, BatchAckLost
<1> QED BY <1>1, <1>2, <1>3, <1>4, <1>5, <1>6 DEF BatchTxStep

LEMMA StepRollbackTx ==
  ASSUME TxIInv, RollbackTxStep
  PROVE  TxInv' /\ HandledInv'
<1> USE DEF Executes, TxIInv
<1>1. CASE BeginRollback
  <2>1. pc = "rollback" /\ ~ IsTooDeep /\ UNCHANGED vars
    BY <1>1 DEF BeginRollback, TxInv
  <2>2. stmt' = "delete events" /\ work' = Committed
    BY <1>1 DEF BeginRollback, TxInv, RollbackTxInv
  <2>3. RollbackTxInv'
    BY <2>1, <2>2, StatementKeeps DEF RollbackTxInv
  <2> QED BY <2>1, <2>2, <2>3, StatementKeeps DEF TxInv, HandledInv
<1>2. CASE DeleteEvents
  <2>1. pc = "rollback" /\ ~ IsTooDeep /\ UNCHANGED vars
    BY <1>2 DEF DeleteEvents, TxInv
  <2>2. stmt' = "delete auctions" /\ work' = WithoutEvents
    BY <1>2 DEF DeleteEvents, TxInv, RollbackTxInv, WithoutEvents
  <2>3. RollbackTxInv'
    BY <2>1, <2>2, StatementKeeps DEF RollbackTxInv
  <2> QED BY <2>1, <2>2, <2>3, StatementKeeps DEF TxInv, HandledInv
<1>3. CASE DeleteAuctions
  <2>1. pc = "rollback" /\ ~ IsTooDeep /\ UNCHANGED vars
    BY <1>3 DEF DeleteAuctions, TxInv
  <2>2. stmt' = "delete blocks" /\ work' = WithoutAuctions
    BY <1>3 DEF DeleteAuctions, TxInv, RollbackTxInv, WithoutAuctions
  <2>3. RollbackTxInv'
    BY <2>1, <2>2, StatementKeeps DEF RollbackTxInv
  <2> QED BY <2>1, <2>2, <2>3, StatementKeeps DEF TxInv, HandledInv
<1>4. CASE DeleteBlocks
  <2>1. pc = "rollback" /\ ~ IsTooDeep /\ UNCHANGED vars
    BY <1>4 DEF DeleteBlocks, TxInv
  <2>2. stmt' = "cursor" /\ work' = WithoutBlocks
    BY <1>4 DEF DeleteBlocks, TxInv, RollbackTxInv, WithoutBlocks
  <2>3. RollbackTxInv'
    BY <2>1, <2>2, StatementKeeps DEF RollbackTxInv
  <2> QED BY <2>1, <2>2, <2>3, StatementKeeps DEF TxInv, HandledInv
<1>5. CASE UpsertRollbackCursor
  BY <1>5, StatementKeeps DEF UpsertRollbackCursor, TxInv, RollbackTxInv, HandledInv
<1>6. CASE CommitRollback \/ RollbackTxFails \/ RollbackTxAckLost
  BY <1>6, TxEnds DEF CommitRollback, RollbackTxFails, RollbackTxAckLost
<1> QED BY <1>1, <1>2, <1>3, <1>4, <1>5, <1>6 DEF RollbackTxStep

LEMMA StepOther ==
  ASSUME TxIInv, OtherStep, UNCHANGED txVars
  PROVE  TxInv' /\ HandledInv'
<1>1. CASE ChainStep \/ Signal
  BY <1>1, WorkRests DEF ChainStep, Signal, procVars, loopVars, batchVars
<1>2. CASE (pc \notin {"commit", "rollback"} /\ RunStep) \/ TooDeep \/ Restart
  <2>1. stmt = "none"
    BY <1>2 DEF TxIInv, TxInv, TooDeep, Restart
  <2> QED BY <2>1 DEF txVars, TxInv, HandledInv
<1> QED BY <1>1, <1>2 DEF OtherStep

(***************************************************************************)
(* Every step is one of Indexer, or none.                                  *)
(***************************************************************************)
\* The only step that Indexer does not take with the same faults: a batch fails
\* although no call does.
UnhandledLog ==
  /\ pc = "commit"
  /\ LoopError
  /\ UNCHANGED <<chainVars, tables>>

\* What a transaction of a batch commits is the whole batch.
LEMMA AppliesBatch ==
  ASSUME TxIInv, pc = "commit", stmt = "commit", ApplyTx
  PROVE  BatchTx
<1>1. work = [Seen(logs, logs, Batch) EXCEPT !.row = [block |-> To, hash |-> headers[To]]]
  BY DEF TxIInv, TxInv, BatchTxInv
<1>2. headers = [n \in Batch |-> headers[n]]
  BY DEF TxIInv, ReadInv, BatchInv, TypeOK, IsHashMap
<1> QED BY <1>1, <1>2 DEF ApplyTx, Seen, BatchTx

LEMMA AppliesRollback ==
  ASSUME TxIInv, pc = "rollback", stmt = "commit", ApplyTx
  PROVE  RollbackTx /\ ~ IsTooDeep
<1>1. /\ ~ IsTooDeep
      /\ work = [WithoutBlocks EXCEPT !.row = [block |-> ancestor,
                                               hash |-> GetHash(WithoutBlocks.blocks, ancestor)]]
  BY DEF TxIInv, TxInv, RollbackTxInv
<1> QED
  BY <1>1 DEF ApplyTx, RollbackTx, WithoutBlocks, WithoutAuctions, WithoutEvents, Committed

LEMMA TxStep ==
  ASSUME TxIInv, [TxNext]_<<vars, txVars>>
  PROVE  [Next]_vars \/ UnhandledLog
<1> USE DEF Executes
<1>1. CASE \/ BeginBatch \/ InsertRawEvent \/ InsertAuction \/ InsertBlock \/ UpsertBatchCursor
           \/ BeginRollback \/ DeleteEvents \/ DeleteAuctions \/ DeleteBlocks
           \/ UpsertRollbackCursor \/ UNCHANGED <<vars, txVars>>
  BY <1>1
  DEF BeginBatch, InsertRawEvent, InsertAuction, InsertBlock, UpsertBatchCursor, BeginRollback,
      DeleteEvents, DeleteAuctions, DeleteBlocks, UpsertRollbackCursor
<1>2. CASE CommitBatchTx
  <2>1. CommitBatch
    BY <1>2, AppliesBatch DEF CommitBatchTx, CommitBatch
  <2> QED BY <2>1 DEF Next, RunStep
<1>3. CASE BatchTxFails
  BY <1>3 DEF BatchTxFails, UnhandledLog
<1>4. CASE BatchAckLost
  <2>1. CommitAckLost
    BY <1>4, AppliesBatch DEF BatchAckLost, CommitAckLost
  <2> QED BY <2>1 DEF Next, RunStep
<1>5. CASE CommitRollback
  <2>1. Rollback
    BY <1>5, AppliesRollback DEF CommitRollback, Rollback
  <2> QED BY <2>1 DEF Next, RunStep
<1>6. CASE RollbackTxFails
  <2>1. RollbackFails
    BY <1>6 DEF RollbackTxFails, RollbackFails
  <2> QED BY <2>1 DEF Next, RunStep
<1>7. CASE RollbackTxAckLost
  <2>1. RollbackAckLost
    BY <1>7, AppliesRollback DEF RollbackTxAckLost, RollbackAckLost
  <2> QED BY <2>1 DEF Next, RunStep
<1>8. CASE OtherStep \/ Crash
  <2>1. CASE RunStep \/ Signal \/ Crash \/ Restart \/ ChainStep
    BY <2>1 DEF Next
  <2>2. CASE TooDeep
    BY <2>2 DEF Next, RunStep
  <2> QED BY <1>8, <2>1, <2>2 DEF OtherStep
<1> QED
  BY <1>1, <1>2, <1>3, <1>4, <1>5, <1>6, <1>7, <1>8 DEF TxNext, BatchTxStep, RollbackTxStep

LEMMA StepRead ==
  ASSUME ReadInv, [Next]_vars \/ UnhandledLog
  PROVE  ReadInv'
<1>1. CASE [Next]_vars
  BY <1>1, StepTypes, StepBatch, StepUnmoved DEF ReadInv
<1>2. CASE UnhandledLog
  <2>1. TypeOK' /\ BatchIsReady'
    BY <1>2, EndTypes DEF UnhandledLog, ReadInv, TypeOK, tables
  <2>2. BatchInv' /\ UnmovedInv'
    BY <1>2, EndBatch DEF UnhandledLog, LoopError, ForgetBatch
  <2> QED BY <2>1, <2>2 DEF ReadInv
<1> QED BY <1>1, <1>2

LEMMA TxInvariant == TxSpec => []TxIInv
<1>1. TxInit => TxIInv
  <2> SUFFICES ASSUME TxInit PROVE TxIInv
    OBVIOUS
  <2>1. TypeOK /\ BatchIsReady
    BY InitTypes DEF TxInit
  <2> QED BY <2>1
        DEF TxInit, Init, ProcInit, NoHeaders, TxIInv, ReadInv, BatchInv, UnmovedInv, TxInv,
            HandledInv
<1>2. TxIInv /\ [TxNext]_<<vars, txVars>> => TxIInv'
  <2> SUFFICES ASSUME TxIInv, [TxNext]_<<vars, txVars>> PROVE TxIInv'
    OBVIOUS
  <2>1. ReadInv'
    BY TxStep, StepRead DEF TxIInv
  <2>2. TxInv' /\ HandledInv'
    <3>1. CASE UNCHANGED <<vars, txVars>>
      BY <3>1, WorkRests DEF vars, procVars
    <3>2. CASE Crash /\ EndTx
      BY <3>2, TxEnds
    <3> QED BY <3>1, <3>2, StepBatchTx, StepRollbackTx, StepOther DEF TxNext
  <2> QED BY <2>1, <2>2 DEF TxIInv
<1> QED BY <1>1, <1>2, PTL DEF TxSpec

(***************************************************************************)
(* The refinement.                                                         *)
(***************************************************************************)
\* The operators of the instance are those of the module.
LEMMA SameOperators ==
  /\ \A h : AsIndexer!Height(h) = Height(h)
  /\ \A h, n : AsIndexer!AncestorAt(h, n) = AncestorAt(h, n)
  /\ \A h, lo, hi : AsIndexer!LogsOf(h, lo, hi) = LogsOf(h, lo, hi)
  /\ \A f, n : AsIndexer!GetHash(f, n) = GetHash(f, n)
  /\ \A f, g : AsIndexer!InsertBlocks(f, g) = InsertBlocks(f, g)
  /\ \A f, n : AsIndexer!DeleteBlocksFrom(f, n) = DeleteBlocksFrom(f, n)
  /\ \A E, L : AsIndexer!InsertRawEvents(E, L) = InsertRawEvents(E, L)
  /\ \A A, L : AsIndexer!InsertAuctions(A, L) = InsertAuctions(A, L)
  /\ \A E, n : AsIndexer!DeleteRowsFrom(E, n) = DeleteRowsFrom(E, n)
  /\ AsIndexer!From = From /\ AsIndexer!To = To /\ AsIndexer!Batch = Batch
BY DEF AsIndexer!Height, Height, AsIndexer!AncestorAt, AncestorAt, AsIndexer!LogsOf, LogsOf,
       AsIndexer!LogsIn, LogsIn, AsIndexer!LogsAt, LogsAt, AsIndexer!GetHash, GetHash,
       AsIndexer!InsertBlocks, InsertBlocks, AsIndexer!DeleteBlocksFrom, DeleteBlocksFrom,
       AsIndexer!InsertRawEvents, InsertRawEvents, AsIndexer!InsertAuctions, InsertAuctions,
       AsIndexer!AuctionsFrom, AuctionsFrom, AsIndexer!AuctionFrom, AuctionFrom,
       AsIndexer!DeleteRowsFrom, DeleteRowsFrom, AsIndexer!From, From, AsIndexer!To, To,
       AsIndexer!MinOf, MinOf, AsIndexer!Batch, Batch

LEMMA SameConditions ==
  /\ \A row : AsIndexer!StartingCursor(row) = StartingCursor(row)
  /\ AsIndexer!ConfirmedHead = ConfirmedHead
  /\ AsIndexer!BehindChain <=> BehindChain
  /\ AsIndexer!NeedsNoHeader <=> NeedsNoHeader
  /\ \A n : AsIndexer!SameAsChain(n) <=> SameAsChain(n)
  /\ \A n : AsIndexer!HasHeader(n) <=> HasHeader(n)
  /\ \A n : AsIndexer!HeaderAt(n) = HeaderAt(n)
  /\ \A n : AsIndexer!Started(n) <=> Started(n)
  /\ AsIndexer!MayWalk <=> MayWalk
  /\ AsIndexer!IsTooDeep <=> IsTooDeep
  /\ AsIndexer!ReadingBatch <=> ReadingBatch
<1>1. \A row : AsIndexer!StartingCursor(row) = StartingCursor(row)
  BY DEF AsIndexer!StartingCursor, StartingCursor
<1>2. AsIndexer!ConfirmedHead = ConfirmedHead
  BY SameOperators DEF AsIndexer!ConfirmedHead, ConfirmedHead
<1>3. AsIndexer!BehindChain <=> BehindChain
  BY <1>2, SameOperators DEF AsIndexer!BehindChain, BehindChain
<1>4. AsIndexer!NeedsNoHeader <=> NeedsNoHeader
  BY SameOperators DEF AsIndexer!NeedsNoHeader, NeedsNoHeader
<1>5. \A n : AsIndexer!HeaderAt(n) = HeaderAt(n)
  BY SameOperators DEF AsIndexer!HeaderAt, HeaderAt
<1>6. /\ \A n : AsIndexer!SameAsChain(n) <=> SameAsChain(n)
      /\ \A n : AsIndexer!HasHeader(n) <=> HasHeader(n)
  BY <1>5, SameOperators DEF AsIndexer!SameAsChain, SameAsChain, AsIndexer!HasHeader, HasHeader
<1>7. \A n : AsIndexer!Started(n) <=> Started(n)
  <2>1. \A S : AsIndexer!Cardinality(S) = Cardinality(S)
    BY DEF AsIndexer!Cardinality, Cardinality
  <2> QED BY <2>1, SameOperators
        DEF AsIndexer!Started, Started, AsIndexer!Concurrency, Concurrency
<1>8. /\ AsIndexer!MayWalk <=> MayWalk
      /\ AsIndexer!IsTooDeep <=> IsTooDeep
      /\ AsIndexer!ReadingBatch <=> ReadingBatch
  BY DEF AsIndexer!MayWalk, MayWalk, AsIndexer!IsTooDeep, IsTooDeep, AsIndexer!ReadingBatch,
         ReadingBatch
<1> QED BY <1>1, <1>2, <1>3, <1>4, <1>5, <1>6, <1>7, <1>8

LEMMA SameEffects ==
  /\ AsIndexer!ForgetBatch <=> ForgetBatch
  /\ AsIndexer!LoopError <=> LoopError
  /\ \A why : AsIndexer!Stop(why) <=> Stop(why)
  /\ AsIndexer!BatchTx <=> BatchTx
  /\ AsIndexer!RollbackTx <=> RollbackTx
  /\ \A kind : CallFails(kind) => AsIndexer!CallFails(kind)
<1>1. AsIndexer!ForgetBatch <=> ForgetBatch
  BY DEF AsIndexer!ForgetBatch, ForgetBatch, AsIndexer!NoHeaders, NoHeaders
<1>2. AsIndexer!LoopError <=> LoopError
  BY <1>1 DEF AsIndexer!LoopError, LoopError
<1>3. \A why : AsIndexer!Stop(why) <=> Stop(why)
  BY <1>1 DEF AsIndexer!Stop, Stop
<1>4. AsIndexer!BatchTx <=> BatchTx
  BY SameOperators DEF AsIndexer!BatchTx, BatchTx
<1>5. AsIndexer!RollbackTx <=> RollbackTx
  BY SameOperators DEF AsIndexer!RollbackTx, RollbackTx
<1>6. \A kind : CallFails(kind) => AsIndexer!CallFails(kind)
  BY DEF AsIndexer!CallFails, CallFails
<1> QED BY <1>1, <1>2, <1>3, <1>4, <1>5, <1>6

\* A fault more in Faults takes no step away.
LEMMA MoreFaults ==
  ASSUME [Next]_vars
  PROVE  [AsIndexer!Next]_(AsIndexer!vars)
<1> USE SameOperators, SameConditions, SameEffects
    DEF chainVars, AsIndexer!chainVars, tables, AsIndexer!tables, procVars, AsIndexer!procVars,
        loopVars, AsIndexer!loopVars, batchVars, AsIndexer!batchVars
<1>1. CASE \/ LoadCursor \/ LoadFails \/ GetHead \/ NothingToDo \/ GetHeadFails
  <2>1. \/ AsIndexer!LoadCursor \/ AsIndexer!LoadFails \/ AsIndexer!GetHead
        \/ AsIndexer!NothingToDo \/ AsIndexer!GetHeadFails
    BY <1>1
    DEF LoadCursor, AsIndexer!LoadCursor, LoadFails, AsIndexer!LoadFails, GetHead,
        AsIndexer!GetHead, NothingToDo, AsIndexer!NothingToDo, GetHeadFails,
        AsIndexer!GetHeadFails
  <2> QED BY <2>1 DEF AsIndexer!Next, AsIndexer!RunStep
<1>2. CASE \/ DetectNoReorg \/ DetectReorg \/ DetectFails \/ FilterLogs \/ FilterLogsFails
  <2>1. \/ AsIndexer!DetectNoReorg \/ AsIndexer!DetectReorg \/ AsIndexer!DetectFails
        \/ AsIndexer!FilterLogs \/ AsIndexer!FilterLogsFails
    BY <1>2
    DEF DetectNoReorg, AsIndexer!DetectNoReorg, DetectReorg, AsIndexer!DetectReorg, DetectFails,
        AsIndexer!DetectFails, FilterLogs, AsIndexer!FilterLogs, FilterLogsFails,
        AsIndexer!FilterLogsFails
  <2> QED BY <2>1 DEF AsIndexer!Next, AsIndexer!RunStep
<1>3. CASE \/ CommitBatch \/ CommitFails \/ CommitAckLost
  <2>1. \/ AsIndexer!CommitBatch \/ AsIndexer!CommitFails \/ AsIndexer!CommitAckLost
    BY <1>3
    DEF CommitBatch, AsIndexer!CommitBatch, CommitFails, AsIndexer!CommitFails, CommitAckLost,
        AsIndexer!CommitAckLost
  <2> QED BY <2>1 DEF AsIndexer!Next, AsIndexer!RunStep
<1>4. CASE \/ WalkBack \/ WalkEnds \/ WalkFails \/ TooDeep \/ Rollback \/ RollbackFails
           \/ RollbackAckLost
  <2>1. \/ AsIndexer!WalkBack \/ AsIndexer!WalkEnds \/ AsIndexer!WalkFails
        \/ AsIndexer!TooDeep \/ AsIndexer!Rollback \/ AsIndexer!RollbackFails
        \/ AsIndexer!RollbackAckLost
    BY <1>4
    DEF WalkBack, AsIndexer!WalkBack, WalkEnds, AsIndexer!WalkEnds, WalkFails,
        AsIndexer!WalkFails, TooDeep, AsIndexer!TooDeep, Rollback, AsIndexer!Rollback,
        RollbackFails, AsIndexer!RollbackFails, RollbackAckLost, AsIndexer!RollbackAckLost
  <2> QED BY <2>1 DEF AsIndexer!Next, AsIndexer!RunStep
<1>5. CASE \/ Wake \/ StopOnCancel
  <2>1. \/ AsIndexer!Wake \/ AsIndexer!StopOnCancel
    BY <1>5
    DEF Wake, AsIndexer!Wake, StopOnCancel, AsIndexer!StopOnCancel
  <2> QED BY <2>1 DEF AsIndexer!Next, AsIndexer!RunStep
<1>6. ASSUME NEW n \in Batch, FetchHeader(n) PROVE AsIndexer!Next
  <2>1. AsIndexer!FetchHeader(n)
    BY <1>6 DEF FetchHeader, AsIndexer!FetchHeader
  <2> QED BY <2>1 DEF AsIndexer!Next, AsIndexer!RunStep
<1>7. CASE FetchHeadersFails
  <2>1. AsIndexer!FetchHeadersFails
    BY <1>7 DEF FetchHeadersFails, AsIndexer!FetchHeadersFails
  <2> QED BY <2>1 DEF AsIndexer!Next, AsIndexer!RunStep
<1>8. CASE Signal \/ Crash \/ Restart
  <2>1. AsIndexer!Signal \/ AsIndexer!Crash \/ AsIndexer!Restart
    BY <1>8 DEF Signal, AsIndexer!Signal, Crash, AsIndexer!Crash, Restart, AsIndexer!Restart
  <2> QED BY <2>1 DEF AsIndexer!Next
<1>9. CASE ChainStep
  <2>1. AsIndexer!ChainStep
    BY <1>9
    DEF ChainStep, AsIndexer!ChainStep, Mine, AsIndexer!Mine, Reorg, AsIndexer!Reorg, IsAncestor,
        AsIndexer!IsAncestor, FinalOnce, AsIndexer!FinalOnce
  <2> QED BY <2>1 DEF AsIndexer!Next
<1>10. CASE UNCHANGED vars
  BY <1>10 DEF vars, AsIndexer!vars
<1> QED BY <1>1, <1>2, <1>3, <1>4, <1>5, <1>6, <1>7, <1>8, <1>9, <1>10 DEF Next, RunStep

\* A log that is not handled is, to Indexer, a statement that fails.
LEMMA UnhandledFails ==
  ASSUME UnhandledLog
  PROVE  AsIndexer!Next
<1>1. AsIndexer!CommitFails
  BY SameEffects
  DEF UnhandledLog, AsIndexer!CommitFails, AsIndexer!CallFails, chainVars, AsIndexer!chainVars,
      tables, AsIndexer!tables
<1> QED BY <1>1 DEF AsIndexer!Next, AsIndexer!RunStep

\* The statements of WithTx's transactions, executed one by one while the chain
\* moves, the signal comes and any of them fails, have together the effect of
\* the single steps in which Indexer writes a batch and rolls back.
THEOREM StatementsAreOneStep == TxSpec => ImplementsIndexer
<1>1. TxInit => AsIndexer!Init
  BY DEF TxInit, Init, ChainInit, StoreInit, ProcInit, Genesis, NoHeaders, AsIndexer!Init,
         AsIndexer!ChainInit, AsIndexer!StoreInit, AsIndexer!ProcInit, AsIndexer!Genesis,
         AsIndexer!NoHeaders
<1>2. TxIInv /\ [TxNext]_<<vars, txVars>> => [AsIndexer!Next]_(AsIndexer!vars)
  BY TxStep, MoreFaults, UnhandledFails
<1> QED BY <1>1, <1>2, TxInvariant, PTL DEF TxSpec, ImplementsIndexer, AsIndexer!Spec

(***************************************************************************)
(* No log is left out.                                                     *)
(***************************************************************************)
\* The tables change at COMMIT, which comes after every log is handled.
LEMMA TablesChangeAtCommit ==
  ASSUME TxIInv, [TxNext]_<<vars, txVars>>
  PROVE  \/ UNCHANGED tables
         \/ pc = "commit" /\ stmt = "commit" /\ BatchTx
         \/ RollbackTx
<1>1. CASE CommitBatchTx \/ BatchAckLost
  BY <1>1, AppliesBatch DEF CommitBatchTx, BatchAckLost
<1>2. CASE CommitRollback \/ RollbackTxAckLost
  BY <1>2, AppliesRollback DEF CommitRollback, RollbackTxAckLost
<1>3. CASE BatchTxFails \/ RollbackTxFails
  BY <1>3 DEF BatchTxFails, RollbackTxFails
<1>4. CASE \/ BeginBatch \/ InsertRawEvent \/ InsertAuction \/ InsertBlock \/ UpsertBatchCursor
           \/ BeginRollback \/ DeleteEvents \/ DeleteAuctions \/ DeleteBlocks
           \/ UpsertRollbackCursor \/ UNCHANGED <<vars, txVars>>
  BY <1>4
  DEF BeginBatch, InsertRawEvent, InsertAuction, InsertBlock, UpsertBatchCursor, BeginRollback,
      DeleteEvents, DeleteAuctions, DeleteBlocks, UpsertRollbackCursor, Executes, vars
<1>5. CASE OtherStep \/ Crash
  <2>1. [Next]_vars
    BY <1>5 DEF OtherStep, Next, RunStep
  <2>2. pc \notin {"commit", "rollback"} \/ TooDeep \/ Signal \/ Restart \/ ChainStep \/ Crash
    BY <1>5 DEF OtherStep
  <2> QED BY <2>1, <2>2, TablesMove DEF TooDeep, Signal, Restart, ChainStep, Crash
<1> QED BY <1>1, <1>2, <1>3, <1>4, <1>5 DEF TxNext, BatchTxStep, RollbackTxStep

\* The blocks of a batch are those whose logs were handled.
LEMMA HandledBlocks ==
  ASSUME ~ MidBatchReorgs, TxIInv, pc = "commit", stmt = "commit", NEW n \in DOMAIN headers
  PROVE  TxsIn[headers[n]] \cap Poison = {}
<1>1. PICK h \in Blocks : BatchFrom(h)
  BY DEF TxIInv, ReadInv, UnmovedInv
<1>2. n \in From..To /\ From \in Nat /\ To \in Nat /\ Height(h) \in Nat /\ To <= Height(h)
  BY <1>1, BatchBounds, Ancestors DEF TxIInv, ReadInv, BatchIsReady, BatchInv, Batch, BatchFrom
<1>3. headers[n] = AncestorAt(h, n) /\ logs = LogsIn(h, From..To)
  BY <1>1, <1>2, LogsOfRange DEF BatchFrom
<1>4. ASSUME NEW t \in TxsIn[headers[n]] PROVE \E l \in logs : l.tx = t
  <2> DEFINE l == [block |-> n, tx |-> t, hash |-> AncestorAt(h, n)]
  <2>1. l \in LogsAt(h, n)
    BY <1>3 DEF LogsAt
  <2>2. l \in logs /\ l.tx = t
    BY <1>2, <1>3, <2>1 DEF LogsIn
  <2> QED BY <2>2
<1>5. \A l \in logs : l.tx \notin Poison
  BY DEF TxIInv, HandledInv
<1> QED BY <1>4, <1>5

\* However often a batch is tried again, by Run or after a restart, no block is
\* stored, and the cursor passes none, whose log cannot be handled.
THEOREM NoLogIsSkipped ==
  ASSUME ~ MidBatchReorgs
  PROVE  TxSpec => []NothingSkipped
<1>1. TxInit => NothingSkipped
  BY DEF TxInit, Init, StoreInit, NothingSkipped
<1>2. ASSUME TxIInv, NothingSkipped, [TxNext]_<<vars, txVars>>
      PROVE  NothingSkipped'
  <2>1. CASE UNCHANGED tables
    BY <1>2, <2>1 DEF NothingSkipped, tables
  <2>2. CASE pc = "commit" /\ stmt = "commit" /\ BatchTx
    BY <1>2, <2>2, HandledBlocks DEF NothingSkipped, BatchTx, InsertBlocks
  <2>3. CASE RollbackTx
    BY <1>2, <2>3 DEF NothingSkipped, RollbackTx, DeleteBlocksFrom
  <2> QED BY <1>2, <2>1, <2>2, <2>3, TablesChangeAtCommit
<1> QED BY <1>1, <1>2, TxInvariant, PTL DEF TxSpec

(***************************************************************************)
(* What holds of the tables with the atomic steps of Indexer holds of them *)
(* with the transactions taken apart.                                      *)
(***************************************************************************)
\* A batch that fails for a log leaves the tables, and what Run knows of them,
\* as a batch that fails for the database does.
LEMMA UnhandledKeeps ==
  ASSUME UnhandledLog
  PROVE  /\ TablesIInv => TablesIInv'
         /\ OneBranch /\ FollowInv => OneBranch' /\ FollowInv'
         /\ FinalityIInv => FinalityIInv'
<1> USE DEF UnhandledLog
<1>1. ASSUME TypeOK, BatchIsReady PROVE TypeOK' /\ BatchIsReady'
  BY <1>1, EndTypes DEF TypeOK, tables
<1>2. ASSUME TablesIInv PROVE TablesIInv'
  <2>1. RangeInv' /\ RowsAreRelated'
    BY <1>2 DEF TablesIInv, RangeInv, RowsAreRelated, tables
  <2>2. WorkInv'
    BY <1>2, EndWork DEF TablesIInv
  <2> QED BY <1>1, <1>2, <2>1, <2>2 DEF TablesIInv
<1>3. ASSUME OneBranch, FollowInv PROVE OneBranch' /\ FollowInv'
  BY <1>3 DEF OneBranch, Stored, FollowInv, LoopError, tables
<1>4. ASSUME FinalityIInv PROVE FinalityIInv'
  <2>1. FinalityInv'
    BY <1>4, QuietEndKeepsFinality
  <2> QED BY <1>1, <1>4, <2>1 DEF FinalityIInv
<1> QED BY <1>2, <1>3, <1>4

LEMMA TxTablesInvariant ==
  ASSUME "lostack" \notin Faults
  PROVE  TxSpec => []TablesIInv
<1>1. TxInit => TablesIInv
  <2>1. Init => RangeInv /\ RowsAreRelated /\ WorkInv
    BY DEF Init, StoreInit, ProcInit, NoHeaders, RangeInv, RowsAreRelated, WorkInv
  <2> QED BY <2>1, InitTypes DEF TxInit, TablesIInv
<1>2. TxIInv /\ TablesIInv /\ [TxNext]_<<vars, txVars>> => TablesIInv'
  <2> SUFFICES ASSUME TxIInv, TablesIInv, [TxNext]_<<vars, txVars>> PROVE TablesIInv'
    OBVIOUS
  <2>1. CASE [Next]_vars
    <3>1. TypeOK' /\ BatchIsReady'
      BY <2>1, StepTypes DEF TablesIInv
    <3> QED BY <2>1, <3>1, StepRange, StepRows, StepWork DEF TablesIInv
  <2> QED BY <2>1, TxStep, UnhandledKeeps
<1> QED BY <1>1, <1>2, TxInvariant, PTL DEF TxSpec

LEMMA TxBranchInvariant ==
  ASSUME "lostack" \notin Faults, ~ MidBatchReorgs
  PROVE  TxSpec => []BranchIInv
<1>1. TxInit => OneBranch /\ FollowInv
  BY DEF TxInit, Init, StoreInit, ProcInit, OneBranch, FollowInv
<1>2. TxIInv /\ BranchIInv /\ [TxNext]_<<vars, txVars>> => OneBranch' /\ FollowInv'
  BY TxStep, UnhandledKeeps, StepOneBranch, StepFollow DEF BranchIInv
<1> QED BY <1>1, <1>2, TxInvariant, TxTablesInvariant, PTL DEF TxSpec, BranchIInv

LEMMA TxFinalityInvariant ==
  ASSUME FinalityDepth <= Confirmations
  PROVE  TxSpec => []FinalityIInv
<1>1. TxInit => FinalityIInv
  BY InitTypes, InitFinality DEF TxInit, FinalityIInv
<1>2. TxIInv /\ FinalityIInv /\ [TxNext]_<<vars, txVars>> => FinalityIInv'
  BY TxStep, UnhandledKeeps, StepTypes, StepFinality DEF FinalityIInv
<1> QED BY <1>1, <1>2, TxInvariant, PTL DEF TxSpec

\* No moment at which a transaction is cut short, between whichever of its
\* statements, leaves a gap in the blocks, or an event without its auction.
THEOREM StatementsKeepTables ==
  ASSUME "lostack" \notin Faults
  PROVE  TxSpec => [](CursorIsTop /\ RowsAreRelated)
<1>1. TablesIInv => CursorIsTop
  BY IsTop DEF TablesIInv
<1> QED BY <1>1, TxTablesInvariant, PTL DEF TablesIInv

\* Statement by statement too, with reorgs between any two statements of a
\* transaction, the tables show one branch, which grows and is cut as Mirror says.
THEOREM StatementsMirror ==
  ASSUME "lostack" \notin Faults, ~ MidBatchReorgs
  PROVE  TxSpec => MirrorSpec
<1>1. TxInit => MirrorOf!ShowsNothing
  BY DEF TxInit, Init, StoreInit, MirrorOf!ShowsNothing, MirrorOf!Empty
<1>2. /\ TxIInv /\ BranchIInv /\ BranchIInv' /\ ImageInv /\ ImageInv'
      /\ [TxNext]_<<vars, txVars>>
      => [MirrorOf!MirrorNext]_(MirrorOf!tables)
  <2>1. UnhandledLog => UNCHANGED MirrorOf!tables
    BY DEF UnhandledLog, tables, MirrorOf!tables
  <2> QED BY <2>1, TxStep, StepMirrors
<1> QED
  BY <1>1, <1>2, TxInvariant, TxBranchInvariant, ImageHolds, PTL
  DEF TxSpec, MirrorSpec, MirrorOf!MirrorSpec

\* With at least FinalityDepth confirmations no failing statement, no log that
\* cannot be handled and no COMMIT that is not acknowledged keeps the tables
\* from holding exactly the rows of the canonical chain.
THEOREM StatementsStayCanonical ==
  ASSUME FinalityDepth <= Confirmations
  PROVE  TxSpec => []Canonical
<1>1. FinalityIInv => Canonical
  BY DEF FinalityIInv, FinalityInv
<1> QED BY <1>1, TxFinalityInvariant, PTL

=============================================================================
