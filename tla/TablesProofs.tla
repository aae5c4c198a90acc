---------------------------- MODULE TablesProofs ----------------------------
(***************************************************************************)
(* Proofs about the tables of an indexer that loses no acknowledgement of  *)
(* a COMMIT: whatever the chain does, they are consistent with each other; *)
(* and if no reorg strikes while a batch is being read, they implement     *)
(* Mirror.  Both hold for every block tree and configuration.              *)
(***************************************************************************)
EXTENDS IndexerProofs

(***************************************************************************)
(* The inductive invariant.                                                *)
(***************************************************************************)
FirstBlocks == {1, StartBlock} \ {0}

\* CursorIsTop, with the two blocks a range may begin at.
RangeInv ==
  \/ DOMAIN indexedBlocks = {} /\ cursorRow = [block |-> 0, hash |-> NoHash]
  \/ \E lo \in FirstBlocks :
       /\ lo <= cursorRow.block
       /\ DOMAIN indexedBlocks = lo..cursorRow.block
       /\ cursorRow.hash = indexedBlocks[cursorRow.block]

\* What Run holds fits the tables: its cursor, unless it is about to stop
\* because of the signal, is that of the row; its batch lies above the cursor;
\* and the walk back of handleReorg has stopped at a stored block, at 0, or
\* too far down.
WorkInv ==
  /\ pc \notin {"load", "stopped"} =>
       \/ cursor \in {cursorRow.block, StartingCursor(cursorRow)}
       \/ cancelled /\ pc = "sleep"
  /\ pc \in {"headers", "commit"} =>
       /\ \A l \in logs : l.block \in Batch
       /\ DOMAIN headers \subseteq Batch
  /\ pc \notin {"headers", "commit"} => DOMAIN headers = {}
  /\ pc = "commit" => Batch \subseteq DOMAIN headers
  /\ pc = "rollback" => IsTooDeep \/ ancestor = 0 \/ ancestor \in DOMAIN indexedBlocks

TablesIInv == TypeOK /\ BatchIsReady /\ RangeInv /\ RowsAreRelated /\ WorkInv

LEMMA FirstBlocksArePositive == FirstBlocks \subseteq Nat \ {0}
BY ConfigAssumption DEF FirstBlocks

\* The range of the indexed blocks and the cursor that a restart would load.
LEMMA RangeFacts ==
  ASSUME TypeOK, RangeInv
  PROVE  /\ cursorRow.block \in Nat
         /\ DOMAIN indexedBlocks \subseteq 1..cursorRow.block
         /\ cursorRow.block = 0 <=> DOMAIN indexedBlocks = {}
         /\ cursorRow.block > 0 => cursorRow.block \in DOMAIN indexedBlocks
         /\ StartingCursor(cursorRow) \in Nat
         /\ StartingCursor(cursorRow) =
              IF cursorRow.block = 0 /\ StartBlock > 0 THEN StartBlock - 1 ELSE cursorRow.block
<1>1. cursorRow.block \in Nat
  BY DEF TypeOK, CursorRow
<1>2. StartingCursor(cursorRow) \in Nat
  BY <1>1, ConfigAssumption DEF StartingCursor
<1>3. CASE DOMAIN indexedBlocks = {} /\ cursorRow = [block |-> 0, hash |-> NoHash]
  BY <1>1, <1>2, <1>3 DEF StartingCursor
<1>4. ASSUME NEW lo \in FirstBlocks, lo <= cursorRow.block,
             DOMAIN indexedBlocks = lo..cursorRow.block
      PROVE  /\ DOMAIN indexedBlocks \subseteq 1..cursorRow.block
             /\ cursorRow.block = 0 <=> DOMAIN indexedBlocks = {}
             /\ cursorRow.block > 0 => cursorRow.block \in DOMAIN indexedBlocks
  BY <1>1, <1>4, FirstBlocksArePositive
<1> QED BY <1>1, <1>2, <1>3, <1>4 DEF RangeInv, StartingCursor

(***************************************************************************)
(* The process.                                                            *)
(***************************************************************************)
LEMMA SameBatch ==
  UNCHANGED <<cursor, safeHead>> => From' = From /\ To' = To /\ Batch' = Batch
BY DEF From, To, MinOf, Batch

\* The only steps that write.
LEMMA TablesMove ==
  ASSUME [Next]_vars
  PROVE  \/ UNCHANGED tables
         \/ pc = "commit" /\ BatchTx
         \/ pc = "rollback" /\ ~ IsTooDeep /\ RollbackTx
BY DEF Next, RunStep, LoadCursor, LoadFails, GetHead, NothingToDo, GetHeadFails, DetectNoReorg,
       DetectReorg, DetectFails, FilterLogs, FilterLogsFails, FetchHeader, FetchHeadersFails,
       CommitBatch, CommitFails, CommitAckLost, WalkBack, WalkEnds, WalkFails, TooDeep, Rollback,
       RollbackFails, RollbackAckLost, Wake, StopOnCancel, Signal, Crash, Restart, ChainStep, vars

LEMMA EndWork ==
  ASSUME WorkInv, UNCHANGED tables,
         \/ LoopError /\ pc \in {"head", "detect", "filter", "headers", "commit"}
         \/ \E why : Stop(why)
  PROVE  WorkInv'
<1>1. pc' \in {"sleep", "stopped"} /\ headers' = NoHeaders
  BY DEF LoopError, Stop, ForgetBatch
<1>2. pc' = "sleep" =>
        cursor' = cursor /\ cursor \in {cursorRow.block, StartingCursor(cursorRow)}
  BY DEF LoopError, Stop, WorkInv
<1>3. cursorRow' = cursorRow
  BY DEF tables
<1> QED BY <1>1, <1>2, <1>3 DEF WorkInv, NoHeaders

\* A step that leaves the batch and the walk as they are.
LEMMA RestWork ==
  ASSUME WorkInv, UNCHANGED tables, UNCHANGED <<pc, cursor, safeHead, logs, headers, ancestor>>,
         cancelled' = cancelled \/ cancelled' = TRUE
  PROVE  WorkInv'
<1>1. Batch' = Batch /\ IsTooDeep' = IsTooDeep
  BY SameBatch DEF IsTooDeep
<1> QED BY <1>1 DEF WorkInv, tables

LEMMA StepWork ==
  ASSUME "lostack" \notin Faults, TablesIInv, [Next]_vars
  PROVE  WorkInv'
<1> USE DEF TablesIInv
<1>1. CASE LoadCursor
  BY <1>1 DEF LoadCursor, WorkInv, tables, batchVars
<1>2. CASE LoadFails \/ WalkFails \/ TooDeep \/ RollbackFails \/ StopOnCancel \/ Crash
  BY <1>2, EndWork DEF LoadFails, WalkFails, TooDeep, RollbackFails, StopOnCancel, Crash
<1>3. CASE GetHead \/ NothingToDo \/ DetectNoReorg \/ DetectReorg \/ Wake
  BY <1>3
  DEF GetHead, NothingToDo, DetectNoReorg, DetectReorg, Wake, WorkInv, tables, loopVars, batchVars
<1>4. CASE GetHeadFails \/ DetectFails \/ FilterLogsFails \/ FetchHeadersFails \/ CommitFails
  BY <1>4, EndWork DEF GetHeadFails, DetectFails, FilterLogsFails, FetchHeadersFails, CommitFails
<1>5. CASE FilterLogs
  <2>1. Batch' = Batch
    BY <1>5, SameBatch DEF FilterLogs, loopVars
  <2>2. \A l \in logs' : l.block \in Batch
    BY <1>5 DEF FilterLogs, LogsOf, LogsIn, LogsAt, Batch
  <2> QED BY <1>5, <2>1, <2>2 DEF FilterLogs, WorkInv, tables, loopVars
<1>6. ASSUME NEW n \in Batch, FetchHeader(n) PROVE WorkInv'
  <2>1. Batch' = Batch
    BY <1>6, SameBatch DEF FetchHeader, loopVars
  <2>2. DOMAIN headers' = DOMAIN headers \cup {n}
    BY <1>6 DEF FetchHeader
  <2> QED BY <1>6, <2>1, <2>2 DEF FetchHeader, WorkInv, tables, loopVars
<1>7. CASE CommitBatch
  <2>1. cursorRow'.block = cursor' /\ headers' = NoHeaders /\ pc' = "head"
    BY <1>7 DEF CommitBatch, BatchTx, ForgetBatch
  <2> QED BY <2>1 DEF WorkInv, NoHeaders
<1>8. CASE CommitAckLost
  <2>1. cancelled' /\ pc' \in {"sleep", "stopped"} /\ headers' = NoHeaders
    BY <1>8 DEF CommitAckLost, CallFails, LoopError, ForgetBatch
  <2> QED BY <2>1 DEF WorkInv, NoHeaders
<1>9. CASE WalkBack
  <2>1. /\ ancestor' = ancestor - 1 /\ UNCHANGED <<tables, cursor, cancelled>>
        /\ pc' = IF SameAsChain(ancestor') THEN "rollback" ELSE "walk"
        /\ headers' = headers /\ pc = "walk"
    BY <1>9 DEF WalkBack, loopVars, batchVars
  <2>2. SameAsChain(ancestor') => ancestor' \in DOMAIN indexedBlocks
    <3>1. ancestor' \in 0..Height(tip) /\ HasHeader(ancestor') /\ tip \in Blocks
      BY <1>9, <2>1, Ancestors DEF WalkBack, MayWalk, HasHeader, TypeOK
    <3> QED BY <3>1, Ancestors, BlockTreeAssumption DEF SameAsChain, GetHash, HeaderAt
  <2> QED BY <2>1, <2>2 DEF WorkInv, tables
<1>10. CASE WalkEnds
  <2>1. IsTooDeep' \/ ancestor' = 0
    BY <1>10, ConfigAssumption DEF WalkEnds, MayWalk, IsTooDeep, TypeOK, loopVars
  <2> QED BY <1>10, <2>1 DEF WalkEnds, WorkInv, tables, loopVars, batchVars
<1>11. CASE Rollback
  <2>1. cursorRow'.block = cursor' /\ headers' = NoHeaders /\ pc' = "head"
    BY <1>11 DEF Rollback, RollbackTx, ForgetBatch
  <2> QED BY <2>1 DEF WorkInv, NoHeaders
<1>12. CASE RollbackAckLost \/ Restart
  <2>1. pc' \in {"stopped", "load"} /\ headers' = NoHeaders
    BY <1>12 DEF RollbackAckLost, Restart, Stop, ForgetBatch
  <2> QED BY <2>1 DEF WorkInv, NoHeaders
<1>13. CASE Signal \/ ChainStep \/ UNCHANGED vars
  BY <1>13, RestWork DEF Signal, ChainStep, vars, procVars, loopVars, batchVars
<1> QED
  BY <1>1, <1>2, <1>3, <1>4, <1>5, <1>6, <1>7, <1>8, <1>9, <1>10, <1>11, <1>12, <1>13
  DEF Next, RunStep

(***************************************************************************)
(* The transactions.                                                       *)
(***************************************************************************)
\* A batch begins where the stored range ends, or where a first one may begin.
LEMMA BatchContinues ==
  ASSUME TablesIInv, pc = "commit"
  PROVE  /\ From \in Nat \ {0} /\ To \in Nat /\ From <= To /\ DOMAIN headers = From..To
         /\ IF cursorRow.block = 0 THEN From \in FirstBlocks ELSE From = cursorRow.block + 1
         /\ To <= cursor + BlockBatchSize
<1>1. From \in Nat \ {0} /\ To \in Nat /\ From <= To
  BY BatchBounds DEF TablesIInv, BatchIsReady
<1>2. DOMAIN headers = From..To
  BY DEF TablesIInv, WorkInv, Batch
<1>3. cursor \in {cursorRow.block, StartingCursor(cursorRow)}
  BY DEF TablesIInv, WorkInv
<1>4. IF cursorRow.block = 0 THEN From \in FirstBlocks ELSE From = cursorRow.block + 1
  BY <1>3, RangeFacts, ConfigAssumption DEF TablesIInv, From, FirstBlocks
<1>5. To <= cursor + BlockBatchSize
  BY ConfigAssumption DEF To, MinOf, TablesIInv, TypeOK
<1> QED BY <1>1, <1>2, <1>4, <1>5

\* What a batch does to indexed_blocks: the range grows at its end.
LEMMA BatchBlocks ==
  ASSUME TablesIInv, pc = "commit", BatchTx
  PROVE  /\ DOMAIN indexedBlocks' = DOMAIN indexedBlocks \cup From..To
         /\ DOMAIN indexedBlocks \cap From..To = {}
         /\ \A n \in DOMAIN indexedBlocks : indexedBlocks'[n] = indexedBlocks[n]
         /\ \A n \in From..To : indexedBlocks'[n] = headers[n]
         /\ cursorRow' = [block |-> To, hash |-> headers[To]]
<1>1. DOMAIN headers = From..To
  BY BatchContinues
<1>2. DOMAIN indexedBlocks \cap From..To = {}
  BY BatchContinues, RangeFacts DEF TablesIInv
<1> QED BY <1>1, <1>2 DEF BatchTx, InsertBlocks

\* What a rollback does to it: the range is cut at its end.
LEMMA RollbackBlocks ==
  ASSUME TablesIInv, pc = "rollback", ~ IsTooDeep, RollbackTx
  PROVE  /\ ancestor = 0 \/ ancestor \in DOMAIN indexedBlocks
         /\ DOMAIN indexedBlocks' = {n \in DOMAIN indexedBlocks : n <= ancestor}
         /\ \A n \in DOMAIN indexedBlocks' : indexedBlocks'[n] = indexedBlocks[n]
         /\ cursorRow' = [block |-> ancestor,
                          hash |-> IF ancestor = 0 THEN NoHash ELSE indexedBlocks[ancestor]]
<1>1. ancestor \in Nat /\ DOMAIN indexedBlocks \subseteq 1..cursorRow.block
      /\ cursorRow.block \in Nat
  BY RangeFacts DEF TablesIInv, TypeOK
<1>2. ancestor = 0 \/ ancestor \in DOMAIN indexedBlocks
  BY DEF TablesIInv, WorkInv
<1>3. {n \in DOMAIN indexedBlocks : n < ancestor + 1} = {n \in DOMAIN indexedBlocks : n <= ancestor}
  BY <1>1
<1>4. indexedBlocks' = [n \in {m \in DOMAIN indexedBlocks : m <= ancestor} |-> indexedBlocks[n]]
  BY <1>3 DEF RollbackTx, DeleteBlocksFrom
<1>5. GetHash(indexedBlocks', ancestor) = IF ancestor = 0 THEN NoHash ELSE indexedBlocks[ancestor]
  BY <1>1, <1>2, <1>4 DEF GetHash
<1> QED BY <1>2, <1>4, <1>5 DEF RollbackTx

LEMMA StepRange ==
  ASSUME TablesIInv, [Next]_vars
  PROVE  RangeInv'
<1>1. CASE UNCHANGED tables
  BY <1>1 DEF TablesIInv, RangeInv, tables
<1>2. CASE pc = "commit" /\ BatchTx
  <2>1. /\ DOMAIN indexedBlocks' = DOMAIN indexedBlocks \cup From..To
        /\ cursorRow'.block = To /\ cursorRow'.hash = indexedBlocks'[To]
    BY <1>2, BatchBlocks, BatchContinues
  <2>2. CASE cursorRow.block = 0
    <3>1. From \in FirstBlocks /\ From <= To /\ DOMAIN indexedBlocks' = From..To
      BY <1>2, <2>1, <2>2, BatchContinues, RangeFacts DEF TablesIInv
    <3> QED BY <2>1, <3>1 DEF RangeInv
  <2>3. CASE cursorRow.block # 0
    <3>1. PICK lo \in FirstBlocks :
            lo <= cursorRow.block /\ DOMAIN indexedBlocks = lo..cursorRow.block
      BY <2>3, RangeFacts DEF TablesIInv, RangeInv
    <3>2. lo \in Nat /\ cursorRow.block \in Nat /\ From = cursorRow.block + 1 /\ From <= To
          /\ To \in Nat
      BY <1>2, <2>3, <3>1, FirstBlocksArePositive, BatchContinues, RangeFacts DEF TablesIInv
    <3>3. lo <= To /\ DOMAIN indexedBlocks' = lo..To
      BY <2>1, <3>1, <3>2
    <3> QED BY <2>1, <3>3 DEF RangeInv
  <2> QED BY <2>2, <2>3
<1>3. CASE pc = "rollback" /\ ~ IsTooDeep /\ RollbackTx
  <2>1. CASE ancestor = 0
    <3>1. DOMAIN indexedBlocks \subseteq 1..cursorRow.block /\ cursorRow.block \in Nat
      BY RangeFacts DEF TablesIInv
    <3>2. DOMAIN indexedBlocks' = {n \in DOMAIN indexedBlocks : n <= 0}
      BY <1>3, <2>1, RollbackBlocks
    <3>3. DOMAIN indexedBlocks' = {}
      BY <3>1, <3>2
    <3> QED BY <1>3, <2>1, <3>3, RollbackBlocks DEF RangeInv
  <2>2. CASE ancestor # 0
    <3>1. ancestor \in DOMAIN indexedBlocks
      BY <1>3, <2>2, RollbackBlocks
    <3>2. PICK lo \in FirstBlocks :
            lo <= cursorRow.block /\ DOMAIN indexedBlocks = lo..cursorRow.block
      BY <3>1 DEF TablesIInv, RangeInv
    <3>3. lo \in Nat /\ cursorRow.block \in Nat /\ ancestor \in Nat
      BY <3>2, FirstBlocksArePositive, RangeFacts DEF TablesIInv, TypeOK
    <3>4. lo <= ancestor /\ DOMAIN indexedBlocks' = lo..ancestor
      BY <1>3, <3>1, <3>2, <3>3, RollbackBlocks
    <3>5. cursorRow'.block = ancestor /\ cursorRow'.hash = indexedBlocks'[ancestor]
      BY <1>3, <2>2, <3>3, <3>4, RollbackBlocks
    <3> QED BY <3>4, <3>5 DEF RangeInv
  <2> QED BY <2>1, <2>2
<1> QED BY <1>1, <1>2, <1>3, TablesMove

\* An event keeps its block and its auction, and an auction its event.
LEMMA StepRows ==
  ASSUME TablesIInv, [Next]_vars
  PROVE  RowsAreRelated'
<1>1. CASE UNCHANGED tables
  BY <1>1 DEF TablesIInv, RowsAreRelated, tables
<1>2. CASE pc = "commit" /\ BatchTx
  <2> USE <1>2
  <2>1. \A l \in logs : l.block \in From..To
    BY DEF TablesIInv, WorkInv, Batch
  <2>2. /\ rawEvents \subseteq rawEvents' /\ rawEvents' \subseteq rawEvents \cup logs
        /\ \A l \in logs : \E e \in rawEvents' : e.block = l.block /\ e.tx = l.tx
    BY DEF BatchTx, InsertRawEvents
  <2>3. /\ auctions \subseteq auctions' /\ auctions' \subseteq auctions \cup AuctionsFrom(logs)
        /\ \A l \in logs : \/ AuctionFrom(l) \in auctions'
                            \/ \E a \in auctions : a.address = AuctionOf[l.tx]
    BY DEF BatchTx, InsertAuctions, AuctionsFrom, AuctionFrom
  <2>4. \A e \in rawEvents' : e.block \in DOMAIN indexedBlocks'
    BY <2>1, <2>2, BatchBlocks DEF TablesIInv, RowsAreRelated
  <2>5. ASSUME NEW a \in auctions' PROVE \E e \in rawEvents' : AuctionFrom(e) = a
    <3>1. CASE a \in auctions
      BY <2>2, <3>1 DEF TablesIInv, RowsAreRelated
    <3>2. CASE a \in AuctionsFrom(logs)
      BY <2>2, <3>2 DEF AuctionsFrom, AuctionFrom
    <3> QED BY <2>3, <2>5, <3>1, <3>2
  <2>6. ASSUME NEW e \in rawEvents'
        PROVE  \E a \in auctions' : a.address = AuctionOf[e.tx] /\ a.block <= e.block
    <3>1. CASE e \in rawEvents
      BY <2>3, <3>1 DEF TablesIInv, RowsAreRelated
    <3>2. CASE e \in logs /\ AuctionFrom(e) \in auctions'
      <4>1. e.block \in Nat
        BY <3>2 DEF TablesIInv, TypeOK, EventRow
      <4> QED BY <3>2, <4>1 DEF AuctionFrom
    <3>3. ASSUME e \in logs, NEW a \in auctions, a.address = AuctionOf[e.tx]
          PROVE  a.block <= e.block
      <4>1. a.block \in DOMAIN indexedBlocks
        BY DEF TablesIInv, RowsAreRelated, AuctionFrom
      <4>2. a.block \in 1..cursorRow.block /\ cursorRow.block \in Nat
        BY <4>1, RangeFacts DEF TablesIInv
      <4> QED BY <3>3, <2>1, <4>2, BatchContinues
    <3> QED BY <2>2, <2>3, <2>6, <3>1, <3>2, <3>3
  <2> QED BY <2>4, <2>5, <2>6 DEF RowsAreRelated
<1>3. CASE pc = "rollback" /\ ~ IsTooDeep /\ RollbackTx
  <2> USE <1>3
  <2>1. ancestor \in Nat /\ rawEvents \subseteq EventRow /\ auctions \subseteq AuctionRow
    BY DEF TablesIInv, TypeOK
  <2>2. /\ rawEvents' = {e \in rawEvents : e.block <= ancestor}
        /\ auctions' = {a \in auctions : a.block <= ancestor}
    BY <2>1 DEF RollbackTx, DeleteRowsFrom, EventRow, AuctionRow
  <2>3. \A e \in rawEvents' : e.block \in DOMAIN indexedBlocks'
    BY <2>2, RollbackBlocks DEF TablesIInv, RowsAreRelated
  <2>4. \A a \in auctions' : \E e \in rawEvents' : AuctionFrom(e) = a
    BY <2>2 DEF TablesIInv, RowsAreRelated, AuctionFrom
  <2>5. ASSUME NEW e \in rawEvents'
        PROVE  \E a \in auctions' : a.address = AuctionOf[e.tx] /\ a.block <= e.block
    <3>1. PICK a \in auctions : a.address = AuctionOf[e.tx] /\ a.block <= e.block
      BY <2>2 DEF TablesIInv, RowsAreRelated
    <3>2. a.block \in Nat /\ e.block \in Nat /\ e.block <= ancestor
      BY <2>1, <2>2 DEF EventRow, AuctionRow
    <3> QED BY <2>1, <2>2, <3>1, <3>2
  <2> QED BY <2>3, <2>4, <2>5 DEF RowsAreRelated
<1> QED BY <1>1, <1>2, <1>3, TablesMove

(***************************************************************************)
(* The theorems for every chain.                                           *)
(***************************************************************************)
LEMMA TablesInvariant ==
  ASSUME "lostack" \notin Faults
  PROVE  Spec => []TablesIInv
<1>1. Init => TablesIInv
  <2> SUFFICES ASSUME Init PROVE RangeInv /\ RowsAreRelated /\ WorkInv
    BY InitTypes DEF TablesIInv
  <2> QED BY DEF Init, StoreInit, ProcInit, NoHeaders, RangeInv, RowsAreRelated, WorkInv
<1>2. TablesIInv /\ [Next]_vars => TablesIInv'
  <2> SUFFICES ASSUME TablesIInv, [Next]_vars PROVE TablesIInv'
    OBVIOUS
  <2>1. TypeOK' /\ BatchIsReady'
    BY StepTypes DEF TablesIInv
  <2> QED BY <2>1, StepRange, StepRows, StepWork DEF TablesIInv
<1> QED BY <1>1, <1>2, PTL DEF Spec

LEMMA IsTop ==
  ASSUME TypeOK, RangeInv
  PROVE  CursorIsTop
<1>1. CASE DOMAIN indexedBlocks = {}
  BY <1>1, RangeFacts DEF RangeInv, CursorIsTop
<1>2. CASE DOMAIN indexedBlocks # {}
  <2>1. PICK lo \in FirstBlocks :
          /\ lo <= cursorRow.block /\ DOMAIN indexedBlocks = lo..cursorRow.block
          /\ cursorRow.hash = indexedBlocks[cursorRow.block]
    BY <1>2 DEF RangeInv
  <2>2. lo \in Nat \ {0} /\ cursorRow.block \in Nat
    BY FirstBlocksArePositive, RangeFacts
  <2> QED BY <1>2, <2>1, <2>2 DEF CursorIsTop
<1> QED BY <1>1, <1>2

\* Whatever reorgs, rollbacks, failures, signals and crashes come together,
\* the indexed blocks are one gapless range with the cursor row at its top.
THEOREM BlocksAreGapless ==
  ASSUME "lostack" \notin Faults
  PROVE  Spec => []CursorIsTop
<1>1. TablesIInv => CursorIsTop
  BY IsTop DEF TablesIInv
<1> QED BY <1>1, TablesInvariant, PTL

\* No event is left without its block or its auction, and no auction without
\* its event, on any chain and with any batch and rollback.
THEOREM RowsStayRelated ==
  ASSUME "lostack" \notin Faults
  PROVE  Spec => []RowsAreRelated
BY TablesInvariant, PTL DEF TablesIInv

\* Run never works with a cursor that a restart would not load.
THEOREM CursorStaysDurable ==
  ASSUME "lostack" \notin Faults
  PROVE  Spec => []CursorIsDurable
<1>1. WorkInv => CursorIsDurable
  BY DEF WorkInv, CursorIsDurable
<1> QED BY <1>1, TablesInvariant, PTL DEF TablesIInv

\* A batch always changes the cursor row; a rollback that does not deletes nothing.
LEMMA RowsFollowCursor ==
  ASSUME TablesIInv, [Next]_vars, UNCHANGED cursorRow
  PROVE  UNCHANGED tables
<1>1. CASE UNCHANGED tables
  BY <1>1
<1>2. CASE pc = "commit" /\ BatchTx
  <2>1. cursorRow'.block = To
    BY <1>2 DEF BatchTx
  <2> QED BY <1>2, <2>1, BatchContinues, RangeFacts, FirstBlocksArePositive DEF TablesIInv
<1>3. CASE pc = "rollback" /\ ~ IsTooDeep /\ RollbackTx
  <2>1. ancestor = cursorRow.block /\ ancestor \in Nat
    BY <1>3, RangeFacts DEF RollbackTx, TablesIInv, TypeOK
  <2>2. \A n \in DOMAIN indexedBlocks : n \in Nat /\ n <= ancestor
    BY <2>1, RangeFacts DEF TablesIInv
  <2>3. indexedBlocks' = indexedBlocks
    <3>1. {m \in DOMAIN indexedBlocks : m < ancestor + 1} = DOMAIN indexedBlocks
      BY <2>1, <2>2
    <3> QED BY <1>3, <3>1 DEF RollbackTx, DeleteBlocksFrom, TablesIInv, TypeOK, IsHashMap
  <2>4. rawEvents' = rawEvents
    BY <1>3, <2>1, <2>2 DEF RollbackTx, DeleteRowsFrom, TablesIInv, RowsAreRelated
  <2>5. auctions' = auctions
    BY <1>3, <2>1, <2>2
    DEF RollbackTx, DeleteRowsFrom, TablesIInv, RowsAreRelated, AuctionFrom
  <2> QED BY <2>3, <2>4, <2>5 DEF tables
<1> QED BY <1>1, <1>2, <1>3, TablesMove

\* A transaction that writes or deletes rows moves the cursor row.
THEOREM RowsMoveOnlyWithCursor ==
  ASSUME "lostack" \notin Faults
  PROVE  Spec => RowsMoveWithCursor
<1>1. TablesIInv /\ [Next]_vars
        => [UNCHANGED cursorRow => UNCHANGED <<indexedBlocks, rawEvents, auctions>>]_tables
  BY RowsFollowCursor DEF tables
<1>2. []TablesIInv /\ [][Next]_vars => RowsMoveWithCursor
  BY <1>1, PTL DEF RowsMoveWithCursor
<1> QED BY <1>2, TablesInvariant, PTL DEF Spec

(***************************************************************************)
(* The tables and one branch of the chain.                                 *)
(***************************************************************************)
\* An ancestor is a block of its height.
LEMMA AncestorHeight ==
  ASSUME NEW h \in Blocks, NEW m \in 0..Height(h)
  PROVE  AncestorAt(h, m) \in Blocks /\ Height(AncestorAt(h, m)) = m
<1>1. h \in Seq(Label) /\ Height(h) = Len(h) /\ Len(h) \in Nat
  BY BlockTreeAssumption DEF Height
<1>2. Len(SubSeq(h, 1, m)) = m
  BY <1>1, PrefixIs
<1> QED BY <1>2, Ancestors DEF AncestorAt, Height

\* The ancestors of an ancestor are ancestors.
LEMMA AncestorTransitive ==
  ASSUME NEW g \in Blocks, NEW h \in Blocks, NEW k \in Blocks, IsAncestor(g, h), IsAncestor(h, k)
  PROVE  IsAncestor(g, k)
<1>1. Height(g) \in 0..Height(h) /\ Height(h) \in 0..Height(k) /\ Height(k) \in Nat
  BY Ancestors DEF IsAncestor
<1>2. AncestorAt(AncestorAt(k, Height(h)), Height(g)) = AncestorAt(k, Height(g))
  BY <1>1, AncestorOfAncestor
<1>3. AncestorAt(k, Height(h)) = h /\ AncestorAt(h, Height(g)) = g
  BY DEF IsAncestor
<1>4. Height(g) <= Height(k)
  BY <1>1
<1> QED BY <1>2, <1>3, <1>4 DEF IsAncestor

\* The logs of a block's ancestry are its ancestor's, up to the ancestor's height.
LEMMA LogsOfAncestor ==
  ASSUME NEW h \in Blocks, NEW m \in 0..Height(h), NEW S \in SUBSET (0..m)
  PROVE  LogsIn(AncestorAt(h, m), S) = LogsIn(h, S)
<1>1. \A n \in S : AncestorAt(AncestorAt(h, m), n) = AncestorAt(h, n)
  BY AncestorOfAncestor
<1>2. \A n \in S : LogsAt(AncestorAt(h, m), n) = LogsAt(h, n)
  BY <1>1 DEF LogsAt
<1> QED BY <1>2 DEF LogsIn

\* A range that the chain has reached is not cut.
LEMMA LogsOfRange ==
  ASSUME NEW h, NEW lo \in Nat, NEW hi \in Nat, Height(h) \in Nat, hi <= Height(h)
  PROVE  LogsOf(h, lo, hi) = LogsIn(h, lo..hi)
<1>1. {n \in lo..hi : n <= Height(h)} = lo..hi
  OBVIOUS
<1> QED BY <1>1 DEF LogsOf

\* The batch read so far is that of the branch of h, which goes on from the
\* stored one.
BatchFrom(h) ==
  /\ To <= Height(h)
  /\ logs = LogsOf(h, From, To)
  /\ \A n \in DOMAIN headers : headers[n] = AncestorAt(h, n)
Above(h) == cursorRow.block > 0 => IsAncestor(cursorRow.hash, h)

\* With no reorg between detectReorg and the last header, the branch is that of
\* the tip until the batch is complete, and some branch of the tree after that.
FollowInv ==
  /\ pc \in {"detect", "filter", "headers"} => safeHead <= Height(tip)
  /\ pc \in {"filter", "headers"} => Above(tip)
  /\ pc = "headers" => BatchFrom(tip)
  /\ pc = "commit" => \E h \in Blocks : Above(h) /\ BatchFrom(h)

BranchIInv == TablesIInv /\ OneBranch /\ FollowInv

\* The cursor row names a block of its height.
LEMMA RowIsBlock ==
  ASSUME TypeOK, RangeInv, OneBranch, cursorRow.block > 0
  PROVE  /\ cursorRow.hash \in Blocks /\ Height(cursorRow.hash) = cursorRow.block
         /\ cursorRow.block \in DOMAIN indexedBlocks
         /\ indexedBlocks[cursorRow.block] = cursorRow.hash
<1>1. /\ cursorRow.block \in DOMAIN indexedBlocks
      /\ indexedBlocks[cursorRow.block] = cursorRow.hash
  BY RangeFacts DEF RangeInv
<1>2. cursorRow.hash \in Blocks
  BY <1>1 DEF TypeOK, IsHashMap
<1>3. cursorRow.block \in 0..Height(cursorRow.hash)
  BY <1>1, <1>2, RangeFacts, Ancestors DEF OneBranch, Stored
<1>4. cursorRow.hash = AncestorAt(cursorRow.hash, cursorRow.block)
  BY <1>1 DEF OneBranch, Stored
<1> QED BY <1>1, <1>2, <1>3, <1>4, AncestorHeight

\* A batch of a branch that goes on from the stored one extends the image.
LEMMA BatchOneBranch ==
  ASSUME BranchIInv, pc = "commit", BatchTx
  PROVE  /\ Stored(cursorRow.hash)'
         /\ cursorRow.block > 0 => IsAncestor(cursorRow.hash, cursorRow'.hash)
<1>1. PICK h \in Blocks : Above(h) /\ BatchFrom(h)
  BY DEF BranchIInv, FollowInv
<1> DEFINE g == headers[To]
           D == DOMAIN indexedBlocks
<1>2. /\ From \in Nat \ {0} /\ To \in Nat /\ From <= To /\ To \in 0..Height(h)
      /\ Height(h) \in Nat /\ DOMAIN headers = From..To
      /\ cursorRow.block # 0 => From = cursorRow.block + 1
  BY <1>1, BatchContinues, Ancestors DEF BranchIInv, BatchFrom
<1>3. g = AncestorAt(h, To) /\ g \in Blocks /\ Height(g) = To
  BY <1>1, <1>2, AncestorHeight DEF BatchFrom
<1>4. \A n \in 0..To : AncestorAt(g, n) = AncestorAt(h, n)
  BY <1>2, <1>3, AncestorOfAncestor
<1>5. /\ rawEvents = LogsIn(g, D) /\ auctions = AuctionsFrom(LogsIn(g, D))
      /\ \A n \in D : indexedBlocks[n] = AncestorAt(g, n)
      /\ cursorRow.block > 0 => IsAncestor(cursorRow.hash, g)
  <2>1. CASE cursorRow.block = 0
    <3>1. D = {} /\ rawEvents = {} /\ auctions = {}
      BY <2>1, RangeFacts DEF BranchIInv, TablesIInv, RowsAreRelated
    <3> QED BY <2>1, <3>1 DEF LogsIn, AuctionsFrom
  <2>2. CASE cursorRow.block # 0
    <3> DEFINE b == cursorRow.block
               k == cursorRow.hash
    <3>1. /\ k \in Blocks /\ Height(k) = b /\ b \in Nat /\ b > 0 /\ b < From
          /\ D \in SUBSET (1..b)
      BY <1>2, <2>2, RowIsBlock, RangeFacts DEF BranchIInv, TablesIInv
    <3>2. k = AncestorAt(h, b) /\ b \in 0..Height(h) /\ b \in 0..To
      BY <1>1, <1>2, <3>1 DEF Above, IsAncestor
    <3>3. k = AncestorAt(g, b)
      BY <1>4, <3>2
    <3>4. \A n \in D : indexedBlocks[n] = AncestorAt(g, n)
      <4>1. \A n \in D : indexedBlocks[n] = AncestorAt(k, n)
        BY <3>1 DEF BranchIInv, OneBranch, Stored
      <4> QED BY <1>3, <3>1, <3>2, <3>3, <4>1, AncestorOfAncestor
    <3>5. LogsIn(k, D) = LogsIn(g, D)
      BY <1>3, <3>1, <3>2, <3>3, LogsOfAncestor
    <3>6. rawEvents = LogsIn(g, D) /\ auctions = AuctionsFrom(LogsIn(g, D))
      BY <3>1, <3>5 DEF BranchIInv, OneBranch, Stored
    <3>7. IsAncestor(k, g)
      BY <1>3, <3>1, <3>2, <3>3 DEF IsAncestor
    <3> QED BY <3>4, <3>6, <3>7
  <2> QED BY <2>1, <2>2
<1>6. D \in SUBSET (1..Height(g)) /\ From..To \in SUBSET (1..Height(g))
  BY <1>2, <1>3, RangeFacts DEF BranchIInv, TablesIInv
<1>7. logs = LogsIn(g, From..To)
  BY <1>1, <1>2, <1>3, LogsOfRange, LogsOfAncestor DEF BatchFrom
<1>8. /\ rawEvents' = LogsIn(g, D \cup From..To)
      /\ auctions' = AuctionsFrom(LogsIn(g, D \cup From..To))
  <2>1. rawEvents' = InsertRawEvents(rawEvents, logs) /\ auctions' = InsertAuctions(auctions, logs)
    BY DEF BatchTx
  <2>2. InsertRawEvents(LogsIn(g, D), LogsIn(g, From..To)) = LogsIn(g, D \cup From..To)
    BY EventsMerge
  <2>3. InsertAuctions(AuctionsFrom(LogsIn(g, D)), LogsIn(g, From..To))
          = AuctionsFrom(LogsIn(g, D \cup From..To))
    BY <1>3, <1>6, AuctionsMerge
  <2> HIDE DEF g, D
  <2> QED BY <1>5, <1>7, <2>1, <2>2, <2>3
<1>9. /\ DOMAIN indexedBlocks' = D \cup From..To /\ cursorRow'.hash = g
      /\ \A n \in DOMAIN indexedBlocks' : n <= Height(g) /\ indexedBlocks'[n] = AncestorAt(g, n)
  <2>1. \A n \in From..To : headers[n] = AncestorAt(g, n)
    BY <1>1, <1>2, <1>4 DEF BatchFrom
  <2>2. \A n \in D \cup From..To : n <= Height(g)
    BY <1>3, <1>6
  <2> QED BY <1>5, <2>1, <2>2, BatchBlocks DEF BranchIInv
<1> QED BY <1>5, <1>8, <1>9 DEF Stored

\* A rollback cuts the image back to an ancestor.
LEMMA RollbackOneBranch ==
  ASSUME BranchIInv, pc = "rollback", ~ IsTooDeep, RollbackTx, ancestor # 0
  PROVE  Stored(cursorRow.hash)' /\ IsAncestor(cursorRow'.hash, cursorRow.hash)
<1> DEFINE k == cursorRow.hash
           b == cursorRow.block
           g == AncestorAt(k, ancestor)
<1>1. ancestor \in DOMAIN indexedBlocks /\ cursorRow'.hash = indexedBlocks[ancestor]
  BY RollbackBlocks DEF BranchIInv
<1>2. DOMAIN indexedBlocks \in SUBSET (1..b) /\ b \in Nat /\ ancestor \in 1..b /\ b > 0
  BY <1>1, RangeFacts DEF BranchIInv, TablesIInv
<1>3. k \in Blocks /\ Height(k) = b
  BY <1>2, RowIsBlock DEF BranchIInv, TablesIInv
<1>4. Stored(k)
  BY <1>2 DEF BranchIInv, OneBranch
<1>5. g \in Blocks /\ Height(g) = ancestor /\ cursorRow'.hash = g
  BY <1>1, <1>2, <1>3, <1>4, AncestorHeight DEF Stored
<1>6. DOMAIN indexedBlocks' = {n \in DOMAIN indexedBlocks : n <= ancestor}
  BY RollbackBlocks DEF BranchIInv
<1>7. \A n \in DOMAIN indexedBlocks' : n <= Height(g) /\ indexedBlocks'[n] = AncestorAt(g, n)
  <2>1. \A n \in DOMAIN indexedBlocks' : indexedBlocks'[n] = AncestorAt(k, n)
    BY <1>4, <1>6, RollbackBlocks DEF BranchIInv, Stored
  <2> QED BY <1>2, <1>3, <1>5, <1>6, <2>1, AncestorOfAncestor
<1>8. {e \in LogsIn(k, DOMAIN indexedBlocks) : e.block < ancestor + 1}
        = LogsIn(k, DOMAIN indexedBlocks')
  BY <1>2, <1>6 DEF LogsIn, LogsAt
<1>9. rawEvents' = LogsIn(g, DOMAIN indexedBlocks')
  <2>1. LogsIn(g, DOMAIN indexedBlocks') = LogsIn(k, DOMAIN indexedBlocks')
    <3>1. DOMAIN indexedBlocks' \in SUBSET (0..ancestor) /\ ancestor \in 0..Height(k)
      BY <1>2, <1>3, <1>6
    <3> QED BY <1>3, <3>1, LogsOfAncestor
  <2> QED BY <1>4, <1>8, <2>1 DEF Stored, RollbackTx, DeleteRowsFrom
<1>10. auctions' = AuctionsFrom(rawEvents')
  BY <1>4 DEF Stored, RollbackTx, DeleteRowsFrom, AuctionsFrom, AuctionFrom
<1>11. IsAncestor(g, k)
  BY <1>2, <1>3, <1>5 DEF IsAncestor
<1> QED BY <1>5, <1>7, <1>9, <1>10, <1>11 DEF Stored

LEMMA StepOneBranch ==
  ASSUME BranchIInv, [Next]_vars
  PROVE  OneBranch'
<1>1. CASE UNCHANGED tables
  BY <1>1 DEF BranchIInv, OneBranch, Stored, tables
<1>2. CASE pc = "commit" /\ BatchTx
  BY <1>2, BatchOneBranch DEF OneBranch
<1>3. CASE pc = "rollback" /\ ~ IsTooDeep /\ RollbackTx
  <2>1. cursorRow'.block = ancestor
    BY <1>3 DEF RollbackTx
  <2> QED BY <1>3, <2>1, RollbackOneBranch DEF OneBranch
<1> QED BY <1>1, <1>2, <1>3, TablesMove

\* detectReorg has compared the cursor row with the chain.
LEMMA DetectCompares ==
  ASSUME BranchIInv, DetectNoReorg
  PROVE  Above(tip)
<1> SUFFICES ASSUME cursorRow.block > 0 PROVE IsAncestor(cursorRow.hash, tip)
  BY DEF Above
<1>1. /\ cursorRow.hash \in Blocks /\ Height(cursorRow.hash) = cursorRow.block
      /\ cursorRow.block \in DOMAIN indexedBlocks
      /\ indexedBlocks[cursorRow.block] = cursorRow.hash
  BY RowIsBlock DEF BranchIInv, TablesIInv
<1>2. cursor = cursorRow.block /\ cursor > 0
  BY RangeFacts DEF BranchIInv, TablesIInv, WorkInv, DetectNoReorg
<1>3. ~ NeedsNoHeader
  BY <1>1, <1>2, BlockTreeAssumption DEF NeedsNoHeader, GetHash
<1>4. cursor <= Height(tip) /\ cursorRow.hash = AncestorAt(tip, cursor)
  BY <1>1, <1>2, <1>3 DEF DetectNoReorg, HasHeader, SameAsChain, GetHash, HeaderAt
<1> QED BY <1>1, <1>2, <1>4 DEF IsAncestor

\* The chain grows above what has been read of a batch.
LEMMA GrowthKeepsBatch ==
  ASSUME TypeOK, BatchIsReady, NEW h \in Blocks, Mine(h), UNCHANGED procVars,
         pc = "headers", safeHead <= Height(tip), DOMAIN headers \subseteq Batch, BatchFrom(tip)
  PROVE  BatchFrom(tip)'
<1>1. From' = From /\ To' = To /\ logs' = logs /\ headers' = headers
  BY SameBatch DEF procVars
<1>2. /\ tip \in Blocks /\ tip' = h /\ IsAncestor(tip, h)
      /\ Height(tip) \in Nat /\ Height(h) \in Nat /\ Height(tip) <= Height(h)
  BY Ancestors DEF Mine, IsAncestor, TypeOK
<1>3. From \in Nat /\ To \in Nat /\ To <= Height(tip) /\ DOMAIN headers \subseteq From..To
  BY <1>2, BatchBounds DEF BatchIsReady, Batch, TypeOK
<1>4. tip = AncestorAt(h, Height(tip)) /\ Height(tip) \in 0..Height(h)
  BY <1>2 DEF IsAncestor
<1>5. From..To \in SUBSET (0..Height(tip))
  BY <1>2, <1>3
<1>6. LogsIn(h, From..To) = LogsIn(tip, From..To)
  BY <1>4, <1>5, LogsOfAncestor
<1>7. LogsOf(h, From, To) = LogsOf(tip, From, To)
  BY <1>2, <1>3, <1>6, LogsOfRange
<1>8. \A n \in DOMAIN headers : AncestorAt(h, n) = AncestorAt(tip, n)
  BY <1>3, <1>4, <1>5, AncestorOfAncestor
<1> QED BY <1>1, <1>2, <1>3, <1>7, <1>8 DEF BatchFrom

\* While a batch is being read the chain only grows, and keeps what was read.
LEMMA ChainKeepsFollow ==
  ASSUME ~ MidBatchReorgs, BranchIInv, ChainStep
  PROVE  FollowInv'
<1>1. UNCHANGED <<tables, procVars>> /\ From' = From /\ To' = To
  BY SameBatch DEF ChainStep, procVars
<1>2. CASE pc \in {"detect", "filter", "headers"}
  <2>1. PICK h \in Blocks : Mine(h)
    BY <1>2 DEF ChainStep, ReadingBatch
  <2>2. /\ tip \in Blocks /\ tip' = h /\ IsAncestor(tip, h)
        /\ Height(tip) \in Nat /\ Height(h) \in Nat /\ Height(tip) <= Height(h)
    BY <2>1, Ancestors DEF Mine, IsAncestor, BranchIInv, TablesIInv, TypeOK
  <2>3. safeHead <= Height(tip) /\ safeHead' <= Height(tip') /\ safeHead \in Nat
    BY <1>1, <1>2, <2>2 DEF BranchIInv, FollowInv, TablesIInv, TypeOK, procVars
  <2>4. pc \in {"filter", "headers"} => Above(tip)'
    <3>1. pc \in {"filter", "headers"} /\ cursorRow.block > 0 => IsAncestor(cursorRow.hash, tip')
      BY <2>2, RowIsBlock, AncestorTransitive DEF BranchIInv, TablesIInv, FollowInv, Above
    <3> QED BY <1>1, <3>1 DEF Above, tables
  <2>5. pc = "headers" => BatchFrom(tip)'
    <3> SUFFICES ASSUME pc = "headers" PROVE BatchFrom(tip)'
      OBVIOUS
    <3>1. DOMAIN headers \subseteq Batch /\ BatchFrom(tip)
      BY DEF BranchIInv, TablesIInv, WorkInv, FollowInv
    <3> QED BY <1>1, <2>1, <2>3, <3>1, GrowthKeepsBatch DEF BranchIInv, TablesIInv
  <2> QED BY <1>1, <1>2, <2>3, <2>4, <2>5 DEF FollowInv, procVars
<1>3. CASE pc = "commit"
  <2>1. PICK h \in Blocks : Above(h) /\ BatchFrom(h)
    BY <1>3 DEF BranchIInv, FollowInv
  <2>2. Above(h)' /\ BatchFrom(h)'
    BY <1>1, <2>1 DEF Above, BatchFrom, tables, procVars
  <2> QED BY <1>1, <1>3, <2>2 DEF FollowInv, procVars
<1>4. CASE pc \notin {"detect", "filter", "headers", "commit"}
  BY <1>1, <1>4 DEF FollowInv, procVars
<1> QED BY <1>2, <1>3, <1>4

LEMMA StepFollow ==
  ASSUME ~ MidBatchReorgs, BranchIInv, [Next]_vars
  PROVE  FollowInv'
<1>1. CASE pc' \notin {"detect", "filter", "headers", "commit"}
  BY <1>1 DEF FollowInv
<1>2. CASE GetHead
  <2>1. ConfirmedHead <= Height(tip)
    BY Ancestors, ConfigAssumption DEF ConfirmedHead, BranchIInv, TablesIInv, TypeOK
  <2> QED BY <1>2, <2>1 DEF GetHead, FollowInv, chainVars
<1>3. CASE DetectNoReorg
  BY <1>3, DetectCompares
  DEF DetectNoReorg, BranchIInv, FollowInv, Above, chainVars, tables
<1>4. CASE FilterLogs
  <2>1. To <= Height(tip) /\ DOMAIN headers = {}
    <3>1. From \in Nat /\ To \in Nat /\ To <= safeHead /\ safeHead <= Height(tip)
          /\ DOMAIN headers = {}
      BY <1>4, BatchBounds DEF FilterLogs, BranchIInv, TablesIInv, BatchIsReady, FollowInv, WorkInv
    <3>2. Height(tip) \in Nat /\ safeHead \in Nat
      BY Ancestors DEF BranchIInv, TablesIInv, TypeOK
    <3> QED BY <3>1, <3>2
  <2>2. From' = From /\ To' = To
    BY <1>4, SameBatch DEF FilterLogs, loopVars
  <2>3. BatchFrom(tip)'
    BY <1>4, <2>1, <2>2 DEF FilterLogs, BatchFrom, chainVars
  <2> QED BY <1>4, <2>3 DEF FilterLogs, BranchIInv, FollowInv, Above, chainVars, tables
<1>5. ASSUME NEW n \in Batch, FetchHeader(n) PROVE FollowInv'
  <2>1. From' = From /\ To' = To
    BY <1>5, SameBatch DEF FetchHeader, loopVars
  <2>2. BatchFrom(tip) /\ Above(tip) /\ safeHead <= Height(tip)
    BY <1>5 DEF FetchHeader, BranchIInv, FollowInv
  <2>3. \A m \in DOMAIN headers' : headers'[m] = AncestorAt(tip, m)
    BY <1>5, <2>2 DEF FetchHeader, HeaderAt, BatchFrom
  <2>4. tip' = tip /\ tip \in Blocks /\ safeHead' = safeHead /\ logs' = logs
        /\ cursorRow' = cursorRow /\ pc' \in {"headers", "commit"}
    BY <1>5 DEF FetchHeader, chainVars, tables, BranchIInv, TablesIInv, TypeOK
  <2>5. BatchFrom(tip)' /\ Above(tip)'
    BY <2>1, <2>2, <2>3, <2>4 DEF BatchFrom, Above
  <2>6. \E h \in Blocks : Above(h)' /\ BatchFrom(h)'
    BY <2>4, <2>5 DEF BatchFrom, Above
  <2> QED BY <2>2, <2>4, <2>5, <2>6 DEF FollowInv
<1>6. CASE ChainStep
  BY <1>6, ChainKeepsFollow
<1>7. CASE Signal \/ UNCHANGED vars
  <2>1. UNCHANGED <<tip, cursorRow, pc, cursor, safeHead, logs, headers>>
    BY <1>7 DEF Signal, vars, chainVars, tables, procVars, loopVars, batchVars
  <2>2. From' = From /\ To' = To
    BY <2>1, SameBatch
  <2> QED BY <2>1, <2>2 DEF BranchIInv, FollowInv, Above, BatchFrom
<1>8. CASE \/ LoadCursor \/ LoadFails \/ NothingToDo \/ GetHeadFails \/ DetectReorg \/ DetectFails
           \/ FilterLogsFails \/ FetchHeadersFails \/ CommitBatch \/ CommitFails \/ CommitAckLost
           \/ WalkBack \/ WalkEnds \/ WalkFails \/ TooDeep \/ Rollback \/ RollbackFails
           \/ RollbackAckLost \/ Wake \/ StopOnCancel \/ Crash \/ Restart
  BY <1>1, <1>8
  DEF LoadCursor, LoadFails, NothingToDo, GetHeadFails, DetectReorg, DetectFails, FilterLogsFails,
      FetchHeadersFails, CommitBatch, CommitFails, CommitAckLost, WalkBack, WalkEnds, WalkFails,
      TooDeep, Rollback, RollbackFails, RollbackAckLost, Wake, StopOnCancel, Crash, Restart,
      LoopError, Stop
<1> QED BY <1>2, <1>3, <1>4, <1>5, <1>6, <1>7, <1>8 DEF Next, RunStep

LEMMA BranchInvariant ==
  ASSUME "lostack" \notin Faults, ~ MidBatchReorgs
  PROVE  Spec => []BranchIInv
<1>1. Init => OneBranch /\ FollowInv
  BY DEF Init, StoreInit, ProcInit, OneBranch, FollowInv
<1>2. BranchIInv /\ [Next]_vars => OneBranch' /\ FollowInv'
  BY StepOneBranch, StepFollow
<1> QED BY <1>1, <1>2, TablesInvariant, PTL DEF Spec, BranchIInv

\* If no reorg comes between detectReorg and the last header of a batch, the
\* rows are those of one branch, whatever reorgs come at any other moment.
THEOREM RowsAreOfOneBranch ==
  ASSUME "lostack" \notin Faults, ~ MidBatchReorgs
  PROVE  Spec => []OneBranch
BY BranchInvariant, PTL DEF BranchIInv

\* That is what the README of the program calls reorg safety, under the same
\* conditions: while the block of the cursor row is on the canonical chain, which
\* is all that detectReorg looks at, every row is a row of the canonical chain.
THEOREM CanonicalCursorIsEnough ==
  ASSUME "lostack" \notin Faults, ~ MidBatchReorgs
  PROVE  Spec => []ReorgSafe
<1>1. BranchIInv => ReorgSafe
  <2> SUFFICES ASSUME BranchIInv, cursorRow.block > 0, IsAncestor(cursorRow.hash, tip)
               PROVE  Stored(tip)
    BY DEF ReorgSafe
  <2> DEFINE g == cursorRow.hash
             D == DOMAIN indexedBlocks
  <2>1. TypeOK /\ RangeInv /\ OneBranch /\ tip \in Blocks /\ Stored(g)
    BY DEF BranchIInv, TablesIInv, OneBranch, TypeOK
  <2>2. g \in Blocks /\ Height(g) = cursorRow.block /\ D \subseteq 1..cursorRow.block
        /\ cursorRow.block \in Nat
    BY <2>1, RowIsBlock, RangeFacts
  <2>3. Height(g) \in 0..Height(tip) /\ Height(tip) \in Nat /\ AncestorAt(tip, Height(g)) = g
    BY <2>1, <2>2, Ancestors DEF IsAncestor
  <2>4. \A n \in D : n \in 0..Height(g)
    BY <2>2
  <2>5. \A n \in D : n <= Height(tip) /\ AncestorAt(g, n) = AncestorAt(tip, n)
    BY <2>1, <2>2, <2>3, <2>4, AncestorOfAncestor
  <2>6. LogsIn(g, D) = LogsIn(tip, D)
    BY <2>5 DEF LogsIn, LogsAt
  <2> HIDE DEF g
  <2> QED BY <2>1, <2>5, <2>6 DEF Stored
<1> QED BY <1>1, BranchInvariant, PTL

(***************************************************************************)
(* The refinement of Mirror.                                               *)
(***************************************************************************)
\* The image that the invariants describe.
LEMMA ImageIsShown ==
  ASSUME TypeOK, RangeInv, OneBranch, cursorRow.block > 0
  PROVE  \E lo \in FirstBlocks :
           /\ lo <= cursorRow.block /\ DOMAIN indexedBlocks = lo..cursorRow.block
           /\ MirrorOf!Shows(cursorRow.hash, lo)
<1> DEFINE h == cursorRow.hash
<1>1. PICK lo \in FirstBlocks :
        lo <= cursorRow.block /\ DOMAIN indexedBlocks = lo..cursorRow.block
  BY DEF RangeInv
<1>2. h \in Blocks /\ Height(h) = cursorRow.block /\ cursorRow.block \in Nat /\ lo \in Nat
  BY <1>1, RowIsBlock, RangeFacts, FirstBlocksArePositive
<1>3. cursorRow = [block |-> Height(h), hash |-> h]
  BY <1>2 DEF TypeOK, CursorRow
<1>4. indexedBlocks = [n \in lo..Height(h) |-> AncestorAt(h, n)]
  BY <1>1, <1>2 DEF TypeOK, IsHashMap, OneBranch, Stored
<1>5. LogsOf(h, lo, Height(h)) = LogsIn(h, DOMAIN indexedBlocks)
  BY <1>1, <1>2, LogsOfRange
<1>6. /\ rawEvents = LogsOf(h, lo, Height(h))
      /\ auctions = AuctionsFrom(LogsOf(h, lo, Height(h)))
  BY <1>5 DEF OneBranch, Stored
<1>7. MirrorOf!Shows(h, lo)
  BY <1>3, <1>4, <1>6 DEF MirrorOf!Shows, Height, AncestorAt, LogsOf, LogsIn, LogsAt, AuctionsFrom,
     AuctionFrom, MirrorOf!Height, MirrorOf!AncestorAt, MirrorOf!LogsOf, MirrorOf!LogsIn,
     MirrorOf!LogsAt, MirrorOf!AuctionsFrom, MirrorOf!AuctionFrom
<1> QED BY <1>1, <1>7

\* The tables always show some image; what they show decides the step of Mirror.
ImageInv ==
  IF cursorRow.block = 0 THEN MirrorOf!ShowsNothing
  ELSE \E lo \in FirstBlocks :
         /\ lo <= cursorRow.block /\ DOMAIN indexedBlocks = lo..cursorRow.block
         /\ MirrorOf!Shows(cursorRow.hash, lo)

LEMMA ImageHolds == BranchIInv => ImageInv
<1> SUFFICES ASSUME BranchIInv PROVE ImageInv
  OBVIOUS
<1>1. CASE cursorRow.block = 0
  <2>1. DOMAIN indexedBlocks = {} /\ cursorRow = [block |-> 0, hash |-> NoHash]
    BY <1>1, RangeFacts, FirstBlocksArePositive DEF BranchIInv, TablesIInv, RangeInv
  <2>2. rawEvents = {} /\ auctions = {}
    BY <2>1 DEF BranchIInv, TablesIInv, RowsAreRelated
  <2> QED BY <1>1, <2>1, <2>2 DEF ImageInv, MirrorOf!ShowsNothing, MirrorOf!Empty
<1>2. CASE cursorRow.block # 0
  BY <1>2, ImageIsShown, RangeFacts DEF BranchIInv, TablesIInv, ImageInv
<1> QED BY <1>1, <1>2

\* Equal ranges that are not empty begin and end alike.
LEMMA SameRange ==
  ASSUME NEW a \in Int, NEW b \in Int, NEW c \in Int, a <= b, c <= b, a..b = c..b
  PROVE  a = c
<1>1. a \in c..b /\ c \in a..b
  OBVIOUS
<1> QED BY <1>1

LEMMA BatchMirrors ==
  ASSUME BranchIInv, BranchIInv', ImageInv, ImageInv', pc = "commit", BatchTx
  PROVE  MirrorOf!Start \/ MirrorOf!Extend
<1> USE DEF MirrorOf!FirstBlocks, FirstBlocks
<1> DEFINE g == cursorRow'.hash
<1>1. /\ From \in Nat \ {0} /\ To \in Nat /\ From <= To /\ To <= cursor + BlockBatchSize
      /\ IF cursorRow.block = 0 THEN From \in FirstBlocks ELSE From = cursorRow.block + 1
      /\ cursor \in Nat /\ From = cursor + 1 /\ BlockBatchSize \in Nat
      /\ cursorRow'.block = To
  BY BatchContinues, ConfigAssumption DEF BranchIInv, TablesIInv, TypeOK, From, BatchTx
<1>2. PICK lo \in FirstBlocks :
        /\ lo <= To /\ DOMAIN indexedBlocks' = lo..To
        /\ MirrorOf!Shows(cursorRow.hash, lo)'
  BY <1>1 DEF ImageInv
<1>3. lo \in Nat \ {0}
  BY FirstBlocksArePositive
<1>4. DOMAIN indexedBlocks' = DOMAIN indexedBlocks \cup From..To
  BY BatchBlocks DEF BranchIInv
<1>5. g \in Blocks /\ MirrorOf!Height(g) = To
  <2>1. g \in Blocks
    BY BatchTxTypes, BatchBlocks, <1>1 DEF BranchIInv, TablesIInv, TypeOK, BatchIsReady, IsHashMap
  <2> QED BY <1>1, <1>2, <2>1 DEF MirrorOf!Shows
<1>6. CASE cursorRow.block = 0
  <2>1. MirrorOf!ShowsNothing
    BY <1>6 DEF ImageInv
  <2>2. From..To = lo..To
    BY <1>2, <1>4, <2>1 DEF MirrorOf!ShowsNothing
  <2>3. lo = From
    BY <1>1, <1>2, <1>3, <2>2, SameRange
  <2>4. To \in lo..(lo + BlockBatchSize - 1)
    BY <1>1, <2>3
  <2> QED BY <1>2, <1>5, <2>1, <2>4 DEF MirrorOf!Start, MirrorOf!ShowsNothing, MirrorOf!Shows
<1>7. CASE cursorRow.block # 0
  <2>1. PICK l \in FirstBlocks :
          l <= cursorRow.block /\ DOMAIN indexedBlocks = l..cursorRow.block
    BY <1>7 DEF ImageInv
  <2>2. l \in Nat \ {0} /\ cursorRow.block \in Nat /\ From = cursorRow.block + 1
    BY <1>1, <1>7, FirstBlocksArePositive, RangeFacts DEF BranchIInv, TablesIInv
  <2>3. DOMAIN indexedBlocks' = l..To /\ l <= To
    BY <1>1, <1>4, <2>1, <2>2
  <2>4. l = lo
    BY <1>1, <1>2, <1>3, <2>2, <2>3, SameRange
  <2>5. IsAncestor(cursorRow.hash, g)
    BY <1>7, <2>2, BatchOneBranch
  <2>6. To \in (cursorRow.block + 1)..(cursorRow.block + BlockBatchSize)
    BY <1>1, <2>2
  <2>7. ~ MirrorOf!Empty
    BY <1>7 DEF MirrorOf!Empty
  <2>8. MirrorOf!IsAncestor(cursorRow.hash, g)
    BY <2>5 DEF IsAncestor, MirrorOf!IsAncestor, Height, AncestorAt, MirrorOf!Height,
                MirrorOf!AncestorAt
  <2> QED BY <1>2, <1>5, <2>1, <2>4, <2>6, <2>7, <2>8 DEF MirrorOf!Extend
<1> QED BY <1>6, <1>7

LEMMA RollbackMirrors ==
  ASSUME BranchIInv, BranchIInv', ImageInv, ImageInv', [Next]_vars,
         pc = "rollback", ~ IsTooDeep, RollbackTx
  PROVE  MirrorOf!Retreat \/ MirrorOf!Clear \/ UNCHANGED tables
<1> USE DEF MirrorOf!FirstBlocks, FirstBlocks
<1>1. cursorRow'.block = ancestor
  BY DEF RollbackTx
<1>2. CASE ancestor = 0
  BY <1>1, <1>2 DEF ImageInv, MirrorOf!Clear
<1>3. CASE ancestor # 0
  <2> DEFINE g == cursorRow'.hash
  <2>1. /\ ancestor \in DOMAIN indexedBlocks /\ g = indexedBlocks[ancestor]
        /\ cursorRow' = [block |-> ancestor, hash |-> g]
        /\ DOMAIN indexedBlocks' = {n \in DOMAIN indexedBlocks : n <= ancestor}
    BY <1>3, RollbackBlocks DEF BranchIInv
  <2>2. PICK l \in FirstBlocks :
          l <= cursorRow.block /\ DOMAIN indexedBlocks = l..cursorRow.block
    BY <2>1, RangeFacts DEF ImageInv, BranchIInv, TablesIInv
  <2>3. /\ l \in Nat \ {0} /\ cursorRow.block \in Nat /\ ancestor \in l..cursorRow.block
        /\ cursorRow.block > 0
    BY <2>1, <2>2, FirstBlocksArePositive, RangeFacts DEF BranchIInv, TablesIInv
  <2>4. CASE ancestor = cursorRow.block
    <3>1. cursorRow = [block |-> cursorRow.block, hash |-> cursorRow.hash]
      BY DEF BranchIInv, TablesIInv, TypeOK, CursorRow
    <3>2. cursorRow' = cursorRow
      BY <2>1, <2>3, <2>4, <3>1, RowIsBlock DEF BranchIInv, TablesIInv
    <3> QED BY <3>2, RowsFollowCursor DEF BranchIInv
  <2>5. CASE ancestor # cursorRow.block
    <3>1. PICK lo \in FirstBlocks :
            /\ lo <= ancestor /\ DOMAIN indexedBlocks' = lo..ancestor
            /\ MirrorOf!Shows(cursorRow.hash, lo)'
      BY <1>1, <1>3 DEF ImageInv
    <3>2. DOMAIN indexedBlocks' = l..ancestor /\ l <= ancestor
      BY <2>1, <2>2, <2>3
    <3>3. lo = l
      BY <2>3, <3>1, <3>2, FirstBlocksArePositive, SameRange
    <3>4. g \in Blocks /\ MirrorOf!Height(g) = ancestor
      BY <1>1, <2>1, <3>1 DEF BranchIInv, TablesIInv, TypeOK, IsHashMap, MirrorOf!Shows
    <3>5. MirrorOf!IsAncestor(g, cursorRow.hash)
      BY <1>3, RollbackOneBranch
      DEF IsAncestor, MirrorOf!IsAncestor, Height, AncestorAt, MirrorOf!Height, MirrorOf!AncestorAt
    <3>6. ancestor \in l..(cursorRow.block - 1)
      BY <2>3, <2>5
    <3>7. ~ MirrorOf!Empty
      BY <2>3 DEF MirrorOf!Empty
    <3> QED BY <2>2, <3>1, <3>3, <3>4, <3>5, <3>6, <3>7 DEF MirrorOf!Retreat
  <2> QED BY <2>4, <2>5
<1> QED BY <1>2, <1>3

\* A step of the indexer is one of Mirror, or leaves the tables alone.
LEMMA StepMirrors ==
  ASSUME BranchIInv, BranchIInv', ImageInv, ImageInv', [Next]_vars
  PROVE  [MirrorOf!MirrorNext]_(MirrorOf!tables)
<1>1. CASE UNCHANGED tables
  BY <1>1 DEF tables, MirrorOf!tables
<1>2. CASE pc = "commit" /\ BatchTx
  BY <1>2, BatchMirrors DEF MirrorOf!MirrorNext
<1>3. CASE pc = "rollback" /\ ~ IsTooDeep /\ RollbackTx
  BY <1>1, <1>3, RollbackMirrors DEF MirrorOf!MirrorNext
<1> QED BY <1>1, <1>2, <1>3, TablesMove

\* Every behaviour of the indexer, with failures, signals, crashes, restarts and
\* reorgs at any moment but within the reading of a batch, shows in its tables
\* the image of one branch, which batches extend and rollbacks cut.
THEOREM IndexerMirrors ==
  ASSUME "lostack" \notin Faults, ~ MidBatchReorgs
  PROVE  Spec => MirrorSpec
<1>1. Init => MirrorOf!ShowsNothing
  BY DEF Init, StoreInit, MirrorOf!ShowsNothing, MirrorOf!Empty
<1>2. BranchIInv /\ BranchIInv' /\ ImageInv /\ ImageInv' /\ [Next]_vars
        => [MirrorOf!MirrorNext]_(MirrorOf!tables)
  BY StepMirrors
<1> QED BY <1>1, <1>2, BranchInvariant, ImageHolds, PTL DEF Spec, MirrorSpec, MirrorOf!MirrorSpec

=============================================================================
