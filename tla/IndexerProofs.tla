--------------------------- MODULE IndexerProofs ---------------------------
(***************************************************************************)
(* Proofs about the indexer, for every block tree, configuration and set   *)
(* of faults.                                                              *)
(***************************************************************************)
EXTENDS IndexerProperties, SequenceTheorems, TLAPS

(***************************************************************************)
(* The chain.                                                              *)
(***************************************************************************)
\* Heights are naturals, and every block has all its ancestors.
LEMMA Ancestors ==
  ASSUME NEW h \in Blocks
  PROVE  /\ Height(h) \in Nat
         /\ \A n \in 0..Height(h) : AncestorAt(h, n) \in Blocks
  BY BlockTreeAssumption DEF Height

\* The logs of a range of a branch are rows of raw_events.
LEMMA LogsAreRows ==
  ASSUME NEW h \in Blocks, NEW lo \in Nat, NEW hi \in Nat
  PROVE  LogsOf(h, lo, hi) \subseteq EventRow
<1>1. ASSUME NEW n \in Nat, n <= Height(h)
      PROVE  LogsAt(h, n) \subseteq EventRow
  <2>1. AncestorAt(h, n) \in Blocks
    BY <1>1, Ancestors
  <2> QED BY <2>1, TxAssumption DEF LogsAt, EventRow
<1> QED BY <1>1 DEF LogsOf, LogsIn

\* FinalOnce never lowers final and never goes beyond the new head.
LEMMA FinalGrows ==
  ASSUME NEW h \in Blocks, final \in Nat, final <= Height(h)
  PROVE  /\ FinalOnce(h) \in final..Height(h)
         /\ Height(h) - FinalityDepth <= FinalOnce(h)
<1>1. Height(h) \in Nat /\ FinalityDepth \in Nat
  BY Ancestors, BlockTreeAssumption
<1> QED BY <1>1 DEF FinalOnce

(***************************************************************************)
(* The tables.                                                             *)
(***************************************************************************)
\* INSERT and DELETE of blocks keep indexed_blocks a map to hashes.
LEMMA BlocksStayHashes ==
  ASSUME NEW f, NEW g, IsHashMap(f), IsHashMap(g), NEW n \in Nat
  PROVE  /\ IsHashMap(InsertBlocks(f, g))
         /\ IsHashMap(DeleteBlocksFrom(f, n))
         /\ GetHash(f, n) \in Blocks \cup {NoHash}
  BY DEF IsHashMap, InsertBlocks, DeleteBlocksFrom, GetHash

\* INSERT and DELETE of events and auctions keep the rows typed.
LEMMA RowsStayRows ==
  ASSUME NEW E \in SUBSET EventRow, NEW A \in SUBSET AuctionRow,
         NEW L \in SUBSET EventRow, NEW n
  PROVE  /\ InsertRawEvents(E, L) \subseteq EventRow
         /\ InsertAuctions(A, L) \subseteq AuctionRow
         /\ DeleteRowsFrom(E, n) \subseteq EventRow
         /\ DeleteRowsFrom(A, n) \subseteq AuctionRow
<1>1. AuctionsFrom(L) \subseteq AuctionRow
  BY TxAssumption DEF AuctionsFrom, AuctionFrom, AuctionRow, EventRow
<1> QED BY <1>1 DEF InsertRawEvents, InsertAuctions, DeleteRowsFrom

(***************************************************************************)
(* Type correctness.                                                       *)
(***************************************************************************)
LEMMA NoHeadersIsHashMap == IsHashMap(NoHeaders)
  BY DEF NoHeaders, IsHashMap

LEMMA InitTypes == Init => TypeOK /\ BatchIsReady
<1> SUFFICES ASSUME Init PROVE TypeOK /\ BatchIsReady
  OBVIOUS
<1>1. tip \in Blocks /\ final \in 0..Height(tip)
  BY BlockTreeAssumption DEF Init, ChainInit, Height, Genesis
<1>2. IsHashMap(indexedBlocks)
  BY NoHeadersIsHashMap DEF Init, StoreInit, NoHeaders
<1>3. /\ cursorRow \in CursorRow
      /\ rawEvents \subseteq EventRow
      /\ auctions \subseteq AuctionRow
  BY DEF Init, StoreInit, CursorRow
<1>4. /\ pc \in Steps /\ exit \in ExitReasons /\ cancelled \in BOOLEAN
      /\ cursor \in Nat /\ consecutiveErrors \in Nat /\ safeHead \in Nat
      /\ ancestor \in Nat /\ logs \subseteq EventRow /\ IsHashMap(headers)
      /\ BatchIsReady
  BY NoHeadersIsHashMap
  DEF Init, ProcInit, Steps, ExitReasons, BatchIsReady
<1> QED BY <1>1, <1>2, <1>3, <1>4 DEF TypeOK

\* How the loop ends an iteration, or Run itself, keeps the types.
LEMMA EndTypes ==
  ASSUME TypeOK,
         \/ LoopError
         \/ \E why \in ExitReasons : Stop(why),
         UNCHANGED chainVars,
         cursorRow' \in CursorRow, IsHashMap(indexedBlocks'),
         rawEvents' \subseteq EventRow, auctions' \subseteq AuctionRow
  PROVE  (TypeOK /\ BatchIsReady)'
  BY NoHeadersIsHashMap
  DEF TypeOK, BatchIsReady, LoopError, Stop, ForgetBatch, chainVars, Steps, ExitReasons

\* The chain moves within the block tree, and final with it.
LEMMA ChainTypes ==
  ASSUME TypeOK, ChainStep
  PROVE  tip' \in Blocks /\ final' \in 0..Height(tip')
<1>1. PICK h \in Blocks : Mine(h) \/ Reorg(h)
  BY DEF ChainStep
<1>2. final \in Nat /\ final <= Height(h)
  <2>1. final \in Nat /\ final <= Height(tip) /\ Height(tip) \in Nat
    BY Ancestors DEF TypeOK
  <2> QED BY <1>1, <2>1 DEF Mine, Reorg
<1> QED BY <1>1, <1>2, FinalGrows DEF Mine, Reorg

\* The batch that is read and written.
LEMMA BatchBounds ==
  ASSUME TypeOK, cursor < safeHead
  PROVE  From \in Nat \ {0} /\ To \in Nat /\ From <= To /\ To <= safeHead
  BY ConfigAssumption DEF TypeOK, From, To, MinOf

\* The writes of a batch and of a rollback keep the tables typed.
LEMMA BatchTxTypes ==
  ASSUME TypeOK, BatchIsReady, pc = "commit", BatchTx
  PROVE  /\ cursorRow' \in CursorRow /\ IsHashMap(indexedBlocks')
         /\ rawEvents' \subseteq EventRow /\ auctions' \subseteq AuctionRow
<1>1. To \in Nat /\ headers[To] \in Blocks
  BY BatchBounds DEF TypeOK, BatchIsReady, IsHashMap
<1>2. cursorRow' \in CursorRow
  BY <1>1 DEF BatchTx, CursorRow
<1> QED BY <1>2, BlocksStayHashes, RowsStayRows DEF TypeOK, BatchTx

LEMMA RollbackTxTypes ==
  ASSUME TypeOK, RollbackTx
  PROVE  /\ cursorRow' \in CursorRow /\ IsHashMap(indexedBlocks')
         /\ rawEvents' \subseteq EventRow /\ auctions' \subseteq AuctionRow
<1>1. ancestor \in Nat /\ ancestor + 1 \in Nat
  BY DEF TypeOK
<1>2. IsHashMap(indexedBlocks')
  BY <1>1, BlocksStayHashes DEF TypeOK, RollbackTx
<1>3. cursorRow' \in CursorRow
  BY <1>1, <1>2, BlocksStayHashes DEF RollbackTx, CursorRow
<1> QED BY <1>2, <1>3, RowsStayRows DEF TypeOK, RollbackTx

LEMMA StepTypes == TypeOK /\ BatchIsReady /\ [Next]_vars => (TypeOK /\ BatchIsReady)'
<1> SUFFICES ASSUME TypeOK, BatchIsReady, [Next]_vars
             PROVE  (TypeOK /\ BatchIsReady)'
  OBVIOUS
<1> USE DEF Steps, ExitReasons
<1>1. CASE LoadCursor
  <2>1. StartingCursor(cursorRow) \in Nat
    BY ConfigAssumption DEF TypeOK, CursorRow, StartingCursor
  <2> QED BY <1>1, <2>1 DEF LoadCursor, TypeOK, BatchIsReady, chainVars, tables, batchVars
<1>2. CASE LoadFails
  BY <1>2, EndTypes DEF LoadFails, TypeOK, tables, chainVars
<1>3. CASE GetHead
  <2>1. ConfirmedHead \in Nat /\ cursor < ConfirmedHead
    BY <1>3, Ancestors, ConfigAssumption DEF GetHead, BehindChain, ConfirmedHead, TypeOK
  <2> QED BY <1>3, <2>1
        DEF GetHead, TypeOK, BatchIsReady, chainVars, tables, loopVars, batchVars
<1>4. CASE NothingToDo
  BY <1>4 DEF NothingToDo, TypeOK, BatchIsReady, chainVars, tables, loopVars, batchVars
<1>5. CASE GetHeadFails
  BY <1>5, EndTypes DEF GetHeadFails, TypeOK, tables, chainVars
<1>6. CASE DetectNoReorg
  BY <1>6 DEF DetectNoReorg, TypeOK, BatchIsReady, chainVars, tables, loopVars, batchVars
<1>7. CASE DetectReorg
  BY <1>7 DEF DetectReorg, TypeOK, BatchIsReady, chainVars, tables, loopVars, batchVars
<1>8. CASE DetectFails
  BY <1>8, EndTypes DEF DetectFails, TypeOK, tables, chainVars
<1>9. CASE FilterLogs
  <2>1. LogsOf(tip, From, To) \subseteq EventRow
    BY <1>9, BatchBounds, LogsAreRows DEF FilterLogs, TypeOK, BatchIsReady
  <2> QED BY <1>9, <2>1
        DEF FilterLogs, TypeOK, BatchIsReady, chainVars, tables, loopVars
<1>10. CASE FilterLogsFails
  BY <1>10, EndTypes DEF FilterLogsFails, TypeOK, tables, chainVars
<1>11. ASSUME NEW n \in Batch, FetchHeader(n) PROVE (TypeOK /\ BatchIsReady)'
  <2>1. From \in Nat /\ To \in Nat /\ From <= To
    BY <1>11, BatchBounds DEF FetchHeader, BatchIsReady
  <2>2. n \in Nat /\ HeaderAt(n) \in Blocks
    BY <1>11, <2>1, Ancestors DEF FetchHeader, HasHeader, HeaderAt, TypeOK, Batch
  <2>3. IsHashMap(headers')
    BY <1>11, <2>2 DEF FetchHeader, IsHashMap, TypeOK
  <2>4. pc' = "commit" => To \in DOMAIN headers'
    BY <1>11, <2>1 DEF FetchHeader, Batch
  <2>5. To' = To
    BY <1>11 DEF FetchHeader, To, MinOf, loopVars
  <2> QED BY <1>11, <2>3, <2>4, <2>5
        DEF FetchHeader, TypeOK, BatchIsReady, chainVars, tables, loopVars
<1>12. CASE FetchHeadersFails
  BY <1>12, EndTypes DEF FetchHeadersFails, TypeOK, tables, chainVars
<1>13. CASE CommitBatch
  <2>1. To \in Nat
    BY <1>13, BatchBounds DEF CommitBatch, BatchIsReady
  <2> QED BY <1>13, <2>1, BatchTxTypes, NoHeadersIsHashMap
        DEF CommitBatch, ForgetBatch, TypeOK, BatchIsReady, chainVars
<1>14. CASE CommitFails
  BY <1>14, EndTypes DEF CommitFails, TypeOK, tables, chainVars
<1>15. CASE CommitAckLost
  BY <1>15, BatchTxTypes, EndTypes DEF CommitAckLost
<1>16. CASE WalkBack
  BY <1>16 DEF WalkBack, MayWalk, TypeOK, BatchIsReady, chainVars, tables, loopVars, batchVars
<1>17. CASE WalkEnds
  BY <1>17 DEF WalkEnds, TypeOK, BatchIsReady, chainVars, tables, loopVars, batchVars
<1>18. CASE WalkFails
  BY <1>18, EndTypes DEF WalkFails, TypeOK, tables, chainVars
<1>19. CASE TooDeep
  BY <1>19, EndTypes DEF TooDeep, TypeOK, tables, chainVars
<1>20. CASE Rollback
  BY <1>20, RollbackTxTypes, NoHeadersIsHashMap
  DEF Rollback, ForgetBatch, TypeOK, BatchIsReady, chainVars
<1>21. CASE RollbackFails
  BY <1>21, EndTypes DEF RollbackFails, TypeOK, tables, chainVars
<1>22. CASE RollbackAckLost
  BY <1>22, RollbackTxTypes, EndTypes DEF RollbackAckLost
<1>23. CASE Wake
  BY <1>23 DEF Wake, TypeOK, BatchIsReady, chainVars, tables, loopVars, batchVars
<1>24. CASE StopOnCancel
  BY <1>24, EndTypes DEF StopOnCancel, TypeOK, tables, chainVars
<1>25. CASE Signal
  <2>1. To' = To
    BY <1>25 DEF Signal, To, MinOf, loopVars
  <2> QED BY <1>25, <2>1
        DEF Signal, TypeOK, BatchIsReady, chainVars, tables, loopVars, batchVars
<1>26. CASE Crash
  BY <1>26, EndTypes DEF Crash, TypeOK, tables, chainVars
<1>27. CASE Restart
  BY <1>27, NoHeadersIsHashMap
  DEF Restart, ForgetBatch, TypeOK, BatchIsReady, chainVars, tables
<1>28. CASE ChainStep
  <2>1. tip' \in Blocks /\ final' \in 0..Height(tip')
    BY <1>28, ChainTypes
  <2>2. To' = To /\ UNCHANGED <<tables, procVars>>
    BY <1>28 DEF ChainStep, To, MinOf, procVars
  <2> QED BY <2>1, <2>2 DEF TypeOK, BatchIsReady, tables, procVars
<1>29. CASE UNCHANGED vars
  <2>1. To' = To
    BY <1>29 DEF vars, procVars, To, MinOf
  <2> QED BY <1>29, <2>1 DEF vars, chainVars, tables, procVars, TypeOK, BatchIsReady
<1> QED
  BY <1>1, <1>2, <1>3, <1>4, <1>5, <1>6, <1>7, <1>8, <1>9, <1>10, <1>11, <1>12,
     <1>13, <1>14, <1>15, <1>16, <1>17, <1>18, <1>19, <1>20, <1>21, <1>22, <1>23,
     <1>24, <1>25, <1>26, <1>27, <1>28, <1>29
  DEF Next, RunStep

LEMMA TypesInvariant == Spec => [](TypeOK /\ BatchIsReady)
<1>1. Init => TypeOK /\ BatchIsReady
  BY InitTypes
<1>2. TypeOK /\ BatchIsReady /\ [Next]_vars => (TypeOK /\ BatchIsReady)'
  BY StepTypes
<1> QED BY <1>1, <1>2, PTL DEF Spec

\* Under every configuration and every interleaving, the variables keep their
\* types: Run and handleReorg leave every table and variable well-formed.
THEOREM TypeCorrect == Spec => []TypeOK
  BY TypesInvariant, PTL

\* The last header of the batch, headers[to-from], is there when Run reads it.
THEOREM BatchAlwaysReady == Spec => []BatchIsReady
  BY TypesInvariant, PTL

(***************************************************************************)
(* Prefixes: the ancestor of an ancestor.                                  *)
(***************************************************************************)
\* A prefix of a block's ancestry, element by element.
LEMMA PrefixIs ==
  ASSUME NEW h \in Seq(Label), NEW n \in 0..Len(h)
  PROVE  /\ SubSeq(h, 1, n) \in Seq(Label)
         /\ Len(SubSeq(h, 1, n)) = n
         /\ \A i \in 1..n : SubSeq(h, 1, n)[i] = h[i]
<1>1. \A i \in 1..n : h[i] \in Label
  OBVIOUS
<1> QED BY <1>1, SubSeqProperties

LEMMA AncestorOfAncestor ==
  ASSUME NEW h \in Blocks, NEW m \in 0..Height(h), NEW n \in 0..m
  PROVE  AncestorAt(AncestorAt(h, m), n) = AncestorAt(h, n)
<1>1. h \in Seq(Label) /\ Height(h) = Len(h) /\ Len(h) \in Nat
  BY BlockTreeAssumption DEF Height
<1> DEFINE g == SubSeq(h, 1, m)
<1>2. g \in Seq(Label) /\ Len(g) = m /\ \A i \in 1..m : g[i] = h[i]
  BY <1>1, PrefixIs
<1> DEFINE p == SubSeq(g, 1, n)  q == SubSeq(h, 1, n)
<1>3. p \in Seq(Label) /\ Len(p) = n /\ \A i \in 1..n : p[i] = g[i]
  <2> HIDE DEF g
  <2> QED BY <1>2, PrefixIs
<1>4. q \in Seq(Label) /\ Len(q) = n /\ \A i \in 1..n : q[i] = h[i]
  BY <1>1, PrefixIs
<1>5. p = q
  <2> HIDE DEF p, q, g
  <2> QED BY <1>1, <1>2, <1>3, <1>4
<1> QED BY <1>5 DEF AncestorAt

(***************************************************************************)
(* The final part of the chain does not change.                            *)
(***************************************************************************)
LEMMA FinalStays ==
  ASSUME TypeOK, ChainStep
  PROVE  /\ final <= final'
         /\ Height(tip') - FinalityDepth <= final'
         /\ \A n \in 0..final : AncestorAt(tip', n) = AncestorAt(tip, n)
         /\ \A n \in 0..final : LogsAt(tip', n) = LogsAt(tip, n)
<1>1. PICK h \in Blocks : Mine(h) \/ Reorg(h)
  BY DEF ChainStep
<1>2. /\ tip \in Blocks /\ final \in Nat /\ final <= Height(tip)
      /\ Height(tip) \in Nat /\ Height(h) \in Nat
      /\ tip' = h /\ final' = FinalOnce(h)
  BY <1>1, Ancestors DEF TypeOK, Mine, Reorg
<1>3. final <= Height(h)
  BY <1>1, <1>2 DEF Mine, Reorg
<1>4. final <= final' /\ Height(tip') - FinalityDepth <= final'
  BY <1>2, <1>3, FinalGrows
<1>5. PICK m \in final..Height(h) : m <= Height(tip) /\ AncestorAt(h, m) = AncestorAt(tip, m)
  <2>1. CASE Mine(h)
    <3>1. AncestorAt(h, Height(tip)) = tip /\ AncestorAt(tip, Height(tip)) = tip
      BY <2>1, <1>2, BlockTreeAssumption, SubSeqFull DEF Mine, IsAncestor, AncestorAt, Height
    <3> QED BY <3>1, <2>1, <1>2 DEF Mine
  <2>2. CASE Reorg(h)
    BY <2>2, <1>2, <1>3 DEF Reorg
  <2> QED BY <1>1, <2>1, <2>2
<1>6. ASSUME NEW n \in 0..final PROVE AncestorAt(h, n) = AncestorAt(tip, n)
  <2>1. m \in 0..Height(h) /\ m \in 0..Height(tip) /\ n \in 0..m
    BY <1>2, <1>5
  <2>2. AncestorAt(AncestorAt(h, m), n) = AncestorAt(h, n)
    BY <2>1, AncestorOfAncestor
  <2>3. AncestorAt(AncestorAt(tip, m), n) = AncestorAt(tip, n)
    BY <2>1, <1>2, AncestorOfAncestor
  <2> QED BY <1>5, <2>2, <2>3
<1>7. ASSUME NEW n \in 0..final PROVE LogsAt(h, n) = LogsAt(tip, n)
  BY <1>6 DEF LogsAt
<1> QED BY <1>2, <1>4, <1>6, <1>7

\* Final rows are the same rows on the new chain.
LEMMA SameFinalLogs ==
  ASSUME TypeOK, ChainStep, NEW S \in SUBSET (0..final)
  PROVE  LogsIn(tip', S) = LogsIn(tip, S)
<1>1. \A n \in S : LogsAt(tip', n) = LogsAt(tip, n)
  BY FinalStays
<1> QED BY <1>1 DEF LogsIn

(***************************************************************************)
(* What ON CONFLICT DO NOTHING does to rows of one branch: nothing is lost.*)
(***************************************************************************)
LEMMA EventsMerge ==
  ASSUME NEW h, NEW S, NEW T
  PROVE  InsertRawEvents(LogsIn(h, S), LogsIn(h, T)) = LogsIn(h, S \cup T)
<1>1. ASSUME NEW r \in LogsIn(h, S), NEW l \in LogsIn(h, T),
             r.block = l.block, r.tx = l.tx
      PROVE  r = l
  BY <1>1 DEF LogsIn, LogsAt
<1>2. LogsIn(h, S \cup T) = LogsIn(h, S) \cup LogsIn(h, T)
  BY DEF LogsIn
<1> QED BY <1>1, <1>2 DEF InsertRawEvents

LEMMA AuctionsMerge ==
  ASSUME NEW h \in Blocks,
         NEW S \in SUBSET (1..Height(h)), NEW T \in SUBSET (1..Height(h))
  PROVE  InsertAuctions(AuctionsFrom(LogsIn(h, S)), LogsIn(h, T))
           = AuctionsFrom(LogsIn(h, S \cup T))
<1>1. ASSUME NEW r \in LogsIn(h, S), NEW l \in LogsIn(h, T),
             AuctionOf[r.tx] = AuctionOf[l.tx]
      PROVE  AuctionFrom(r) = AuctionFrom(l)
  <2>1. PICK m \in S : \E t \in TxsIn[AncestorAt(h, m)] :
          r = [block |-> m, tx |-> t, hash |-> AncestorAt(h, m)]
    BY DEF LogsIn, LogsAt
  <2>2. PICK n \in T : \E u \in TxsIn[AncestorAt(h, n)] :
          l = [block |-> n, tx |-> u, hash |-> AncestorAt(h, n)]
    BY DEF LogsIn, LogsAt
  <2>3. r.block = l.block /\ r.tx = l.tx
    BY <1>1, <2>1, <2>2, TxAssumption
  <2> QED BY <2>3 DEF AuctionFrom
<1>2. AuctionsFrom(LogsIn(h, S \cup T))
        = AuctionsFrom(LogsIn(h, S)) \cup AuctionsFrom(LogsIn(h, T))
  BY DEF LogsIn, AuctionsFrom
<1>3. ASSUME NEW r \in AuctionsFrom(LogsIn(h, S)), NEW a \in AuctionsFrom(LogsIn(h, T)),
             r.address = a.address
      PROVE  r = a
  <2>1. PICK e \in LogsIn(h, S) : r = AuctionFrom(e)
    BY DEF AuctionsFrom
  <2>2. PICK l \in LogsIn(h, T) : a = AuctionFrom(l)
    BY DEF AuctionsFrom
  <2>3. AuctionOf[e.tx] = AuctionOf[l.tx]
    BY <1>3, <2>1, <2>2 DEF AuctionFrom
  <2> QED BY <1>1, <2>1, <2>2, <2>3
<1> QED BY <1>2, <1>3 DEF InsertAuctions

(***************************************************************************)
(* Finality: with at least FinalityDepth confirmations, the tables are     *)
(* those of the canonical chain.                                           *)
(***************************************************************************)
FinalityIInv == TypeOK /\ BatchIsReady /\ FinalityInv

LEMMA FirstIsPositive == FirstIndexed \in Nat \ {0}
  BY ConfigAssumption DEF FirstIndexed

\* Facts of the chain and the tables that every step below starts from.
LEMMA StoredBounds ==
  ASSUME FinalityIInv
  PROVE  /\ tip \in Blocks /\ Height(tip) \in Nat
         /\ final \in Nat /\ final <= Height(tip)
         /\ DOMAIN indexedBlocks \subseteq 1..final
         /\ DOMAIN indexedBlocks \subseteq 1..Height(tip)
<1>1. tip \in Blocks /\ Height(tip) \in Nat /\ final \in Nat /\ final <= Height(tip)
  BY Ancestors DEF FinalityIInv, TypeOK
<1>2. \A n \in DOMAIN indexedBlocks : n \in Nat /\ n >= FirstIndexed /\ n <= final
  BY DEF FinalityIInv, TypeOK, IsHashMap, FinalityInv, Canonical, StoredIsFinal
<1> QED BY <1>1, <1>2, FirstIsPositive

\* The chain moves: what is stored and what is read are final, so they stay.
LEMMA ChainKeepsFinality ==
  ASSUME FinalityIInv, ChainStep
  PROVE  FinalityInv'
<1>1. UNCHANGED <<tables, procVars>>
  BY DEF ChainStep
<1>2. TypeOK /\ BatchIsReady /\ FinalityInv
  BY DEF FinalityIInv
<1>3. /\ final <= final' /\ final' \in Nat /\ final' <= Height(tip')
      /\ Height(tip') \in Nat /\ Height(tip') - FinalityDepth <= final'
  BY <1>2, FinalStays, ChainTypes, Ancestors
<1>4. \A n \in 0..final : AncestorAt(tip', n) = AncestorAt(tip, n)
  BY <1>2, FinalStays
<1>5. DOMAIN indexedBlocks \in SUBSET (0..final) /\ final \in Nat
  BY StoredBounds
<1>6. Stored(tip)'
  <2>1. LogsIn(tip', DOMAIN indexedBlocks) = LogsIn(tip, DOMAIN indexedBlocks)
    BY <1>2, <1>5, SameFinalLogs
  <2>2. \A n \in DOMAIN indexedBlocks :
          n <= Height(tip') /\ indexedBlocks[n] = AncestorAt(tip', n)
    BY <1>2, <1>3, <1>4, <1>5 DEF FinalityInv, Canonical, Stored
  <2> QED BY <1>1, <1>2, <2>1, <2>2 DEF FinalityInv, Canonical, Stored, tables
<1>7. Canonical'
  BY <1>1, <1>2, <1>6 DEF FinalityInv, Canonical, FirstIndexed, tables
<1>8. StoredIsFinal'
  BY <1>1, <1>3, <1>5 DEF StoredIsFinal, tables
<1>9. BatchIsFinal'
  <2>1. From' = From /\ To' = To /\ Batch' = Batch
    BY <1>1 DEF From, To, Batch, MinOf, procVars
  <2>2. CASE pc \in {"headers", "commit"}
    <3>1. From \in Nat \ {0} /\ To \in Nat /\ To <= final
      BY <2>2, <1>2, <1>5, BatchBounds DEF BatchIsReady, FinalityInv, BatchIsFinal, TypeOK
    <3>2. {n \in From..To : n <= Height(tip)} = From..To
      BY <3>1, StoredBounds
    <3>3. {n \in From..To : n <= Height(tip')} = From..To
      BY <3>1, <1>3, <1>5
    <3>4. From..To \in SUBSET (0..final)
      BY <3>1, <1>5
    <3>5. LogsOf(tip', From, To) = LogsOf(tip, From, To)
      BY <1>2, <3>2, <3>3, <3>4, SameFinalLogs DEF LogsOf
    <3>6. \A n \in Batch : AncestorAt(tip', n) = AncestorAt(tip, n)
      BY <3>4, <1>4 DEF Batch
    <3>7. UNCHANGED <<pc, logs, headers, safeHead>>
      BY <1>1 DEF procVars
    <3>8. safeHead' <= final'
      BY <2>2, <1>2, <1>3, <1>5, <3>7 DEF FinalityInv, BatchIsFinal, TypeOK
    <3> QED BY <1>2, <2>1, <2>2, <3>5, <3>6, <3>7, <3>8 DEF FinalityInv, BatchIsFinal
  <2>3. CASE pc \notin {"headers", "commit"}
    BY <1>1, <1>2, <1>3, <1>5, <2>3 DEF FinalityInv, BatchIsFinal, procVars, TypeOK
  <2> QED BY <2>2, <2>3
<1> QED BY <1>1, <1>2, <1>3, <1>7, <1>8, <1>9
      DEF FinalityInv, NeverRollsBack, FinalCoversSafeHead, CursorIsStored,
          FirstIndexed, tables, procVars

\* The transaction of a batch extends the image of the canonical chain.
LEMMA BatchTxKeepsFinality ==
  ASSUME FinalityIInv, pc = "commit", BatchTx, UNCHANGED chainVars
  PROVE  /\ Canonical' /\ StoredIsFinal'
         /\ DOMAIN indexedBlocks \subseteq DOMAIN indexedBlocks'
         /\ To \in DOMAIN indexedBlocks' /\ To >= FirstIndexed
<1> DEFINE S == DOMAIN indexedBlocks
           T == From..To
<1>1. TypeOK /\ BatchIsReady /\ FinalityInv
  BY DEF FinalityIInv
<1>2. /\ From \in Nat \ {0} /\ To \in Nat /\ From <= To /\ To <= final
      /\ From = cursor + 1 /\ cursor \in Nat
  BY <1>1, BatchBounds, StoredBounds
  DEF BatchIsReady, FinalityInv, BatchIsFinal, TypeOK, From
<1>3. DOMAIN headers = T /\ \A n \in T : headers[n] = AncestorAt(tip, n)
  BY <1>1 DEF FinalityInv, BatchIsFinal, Batch
<1>4. /\ tip \in Blocks /\ Height(tip) \in Nat /\ final \in Nat /\ final <= Height(tip)
      /\ S \subseteq 1..final
      /\ S \in SUBSET (1..Height(tip)) /\ T \in SUBSET (1..Height(tip))
      /\ \A n \in T : n <= final /\ n <= Height(tip)
  BY <1>2, StoredBounds
<1>5. logs = LogsIn(tip, T)
  <2>1. {n \in From..To : n <= Height(tip)} = T
    BY <1>4
  <2> QED BY <1>1, <2>1 DEF FinalityInv, BatchIsFinal, LogsOf
<1>6. /\ rawEvents = LogsIn(tip, S) /\ auctions = AuctionsFrom(rawEvents)
      /\ \A n \in S : n <= Height(tip) /\ indexedBlocks[n] = AncestorAt(tip, n)
      /\ \A n \in S : n >= FirstIndexed /\ FirstIndexed..n \subseteq S
  BY <1>1 DEF FinalityInv, Canonical, Stored
<1>7. /\ rawEvents' = LogsIn(tip, S \cup T)
      /\ auctions' = AuctionsFrom(LogsIn(tip, S \cup T))
  <2>1. rawEvents' = InsertRawEvents(rawEvents, logs) /\ auctions' = InsertAuctions(auctions, logs)
    BY DEF BatchTx
  <2>2. InsertRawEvents(LogsIn(tip, S), LogsIn(tip, T)) = LogsIn(tip, S \cup T)
    BY <1>4, EventsMerge
  <2>3. InsertAuctions(AuctionsFrom(LogsIn(tip, S)), LogsIn(tip, T))
          = AuctionsFrom(LogsIn(tip, S \cup T))
    BY <1>4, AuctionsMerge
  <2> QED BY <1>5, <1>6, <2>1, <2>2, <2>3
<1>8. /\ DOMAIN indexedBlocks' = S \cup T
      /\ \A n \in S \cup T : indexedBlocks'[n] = AncestorAt(tip, n)
  BY <1>3, <1>6 DEF BatchTx, InsertBlocks
<1>9. tip' = tip /\ final' = final
  BY DEF chainVars
<1>10. Stored(tip)'
  BY <1>4, <1>6, <1>7, <1>8, <1>9 DEF Stored
<1>11. /\ cursor >= FirstIndexed - 1
       /\ cursor >= FirstIndexed => cursor \in S
  BY <1>1 DEF FinalityInv, CursorIsStored
<1>12. ASSUME NEW n \in S \cup T
       PROVE  n >= FirstIndexed /\ FirstIndexed..n \subseteq S \cup T
  <2>1. CASE n \in S
    BY <2>1, <1>6
  <2>2. CASE n \in T
    <3>1. n \in From..To /\ n >= FirstIndexed
      BY <2>2, <1>2, <1>11, FirstIsPositive
    <3>2. FirstIndexed..cursor \subseteq S
      BY <1>2, <1>6, <1>11, FirstIsPositive
    <3>3. FirstIndexed..n \subseteq (FirstIndexed..cursor) \cup T
      BY <3>1, <1>2, FirstIsPositive
    <3> QED BY <3>1, <3>2, <3>3
  <2> QED BY <2>1, <2>2
<1>13. To \in T /\ To >= FirstIndexed
  BY <1>2, <1>11, FirstIsPositive
<1>14. cursorRow' = [block |-> To, hash |-> AncestorAt(tip, To)]
  BY <1>3, <1>13 DEF BatchTx
<1>15. Canonical'
  BY <1>8, <1>10, <1>12, <1>13, <1>14 DEF Canonical, FirstIndexed
<1>16. StoredIsFinal'
  BY <1>4, <1>8, <1>9 DEF StoredIsFinal
<1> QED BY <1>8, <1>13, <1>15, <1>16

\* The end of an iteration, or of Run, forgets the batch.
LEMMA EndKeepsFinality ==
  ASSUME FinalityIInv, UNCHANGED chainVars, Canonical', StoredIsFinal',
         DOMAIN indexedBlocks \subseteq DOMAIN indexedBlocks',
         \/ pc \notin {"load", "stopped"} /\ LoopError
         \/ \E why \in ExitReasons \ {"reorg", "deep"} : Stop(why)
  PROVE  FinalityInv'
<1>1. FinalityInv
  BY DEF FinalityIInv
<1>2. /\ pc' \in {"sleep", "stopped"} /\ exit' \notin {"reorg", "deep"}
      /\ headers' = NoHeaders /\ cursor' = cursor
      /\ pc' = "sleep" => pc \notin {"load", "stopped"}
  BY <1>1 DEF LoopError, Stop, ForgetBatch, FinalityInv, NeverRollsBack
<1>3. CursorIsStored'
  BY <1>1, <1>2 DEF FinalityInv, CursorIsStored, FirstIndexed
<1>4. BatchIsFinal'
  BY <1>2 DEF BatchIsFinal, NoHeaders
<1> QED BY <1>1, <1>2, <1>3, <1>4
      DEF FinalityInv, NeverRollsBack, FinalCoversSafeHead, chainVars

\* The same for an end that leaves the tables alone.
LEMMA QuietEndKeepsFinality ==
  ASSUME FinalityIInv, UNCHANGED <<chainVars, tables>>,
         \/ pc \notin {"load", "stopped"} /\ LoopError
         \/ \E why \in ExitReasons \ {"reorg", "deep"} : Stop(why)
  PROVE  FinalityInv'
<1>1. Canonical' /\ StoredIsFinal'
  BY DEF FinalityIInv, FinalityInv, Canonical, Stored, StoredIsFinal, FirstIndexed,
         chainVars, tables
<1>2. DOMAIN indexedBlocks \subseteq DOMAIN indexedBlocks'
  BY DEF tables
<1> QED BY <1>1, <1>2, EndKeepsFinality

\* With the stored block on the canonical chain, detectReorg sees no reorg.
LEMMA NoReorgIsSeen ==
  ASSUME FinalityIInv, pc = "detect"
  PROVE  ~ DetectReorg
<1> SUFFICES ASSUME ~ NeedsNoHeader PROVE SameAsChain(cursor)
  BY DEF DetectReorg
<1>1. cursor \in DOMAIN indexedBlocks
  BY DEF NeedsNoHeader, GetHash
<1>2. indexedBlocks[cursor] = AncestorAt(tip, cursor)
  BY <1>1 DEF FinalityIInv, FinalityInv, Canonical, Stored
<1> QED BY <1>1, <1>2 DEF SameAsChain, GetHash, HeaderAt

LEMMA InitFinality == Init => FinalityInv
<1> SUFFICES ASSUME Init PROVE FinalityInv
  OBVIOUS
<1>1. DOMAIN indexedBlocks = {} /\ DOMAIN headers = {}
  BY DEF Init, StoreInit, ProcInit, NoHeaders
<1>2. /\ pc = "load" /\ exit = "running"
      /\ Height(tip) = 0 /\ final = 0 /\ cursorRow.block = 0
      /\ rawEvents = {} /\ auctions = {}
  BY DEF Init, ChainInit, StoreInit, ProcInit, Height, Genesis
<1>3. Canonical
  BY <1>1, <1>2 DEF Canonical, Stored, LogsIn, AuctionsFrom
<1>4. FinalCoversSafeHead
  BY <1>2, BlockTreeAssumption DEF FinalCoversSafeHead
<1> QED BY <1>1, <1>2, <1>3, <1>4
      DEF FinalityInv, NeverRollsBack, StoredIsFinal, CursorIsStored, BatchIsFinal

LEMMA StepFinality ==
  ASSUME FinalityDepth <= Confirmations, FinalityIInv, [Next]_vars
  PROVE  FinalityInv'
<1>1. TypeOK /\ BatchIsReady /\ FinalityInv
  BY DEF FinalityIInv
<1>2. /\ pc \notin {"walk", "rollback"}
      /\ exit \notin {"reorg", "deep"}
      /\ Canonical /\ StoredIsFinal /\ CursorIsStored /\ BatchIsFinal
      /\ FinalCoversSafeHead
  BY <1>1 DEF FinalityInv, NeverRollsBack
\* Steps that leave the chain and the tables alone keep what is stored final.
<1>3. ASSUME UNCHANGED <<chainVars, tables>>
      PROVE  Canonical' /\ StoredIsFinal' /\ FinalCoversSafeHead'
  BY <1>2, <1>3 DEF Canonical, Stored, StoredIsFinal, FinalCoversSafeHead, FirstIndexed,
                    chainVars, tables
<1> USE DEF ExitReasons
<1>4. CASE LoadCursor
  <2>1. UNCHANGED <<chainVars, tables, headers, exit>> /\ pc' = "head" /\ pc = "load"
    BY <1>4 DEF LoadCursor, batchVars
  <2>2. CursorIsStored'
    <3>1. cursor' = StartingCursor(cursorRow) /\ cursorRow.block \in Nat
      BY <1>1, <1>4 DEF LoadCursor, TypeOK, CursorRow
    <3>2. CASE cursorRow.block = 0
      <4>1. cursor' = FirstIndexed - 1
        BY <3>1, <3>2, ConfigAssumption DEF StartingCursor, FirstIndexed
      <4> QED BY <4>1, FirstIsPositive DEF CursorIsStored, FirstIndexed
    <3>3. CASE cursorRow.block > 0
      <4>1. cursor' = cursorRow.block /\ cursor' \in DOMAIN indexedBlocks
            /\ cursor' >= FirstIndexed
        BY <1>2, <3>1, <3>3 DEF StartingCursor, Canonical
      <4> QED BY <2>1, <3>1, <4>1, FirstIsPositive DEF CursorIsStored, FirstIndexed, tables
    <3> QED BY <3>1, <3>2, <3>3
  <2>3. BatchIsFinal'
    BY <1>2, <2>1 DEF BatchIsFinal
  <2> QED BY <1>2, <1>3, <2>1, <2>2, <2>3 DEF FinalityInv, NeverRollsBack
<1>5. CASE LoadFails
  BY <1>5, QuietEndKeepsFinality DEF LoadFails
<1>6. CASE GetHead
  <2>1. UNCHANGED <<chainVars, tables, headers, exit, cursor>> /\ pc' = "detect" /\ pc = "head"
    BY <1>6 DEF GetHead, batchVars, loopVars
  <2>2. safeHead' <= final' /\ final' = final
    <3>1. Height(tip) \in Nat /\ final \in Nat /\ FinalityDepth \in Nat /\ Confirmations \in Nat
      BY StoredBounds, BlockTreeAssumption, ConfigAssumption
    <3> QED BY <1>2, <1>6, <2>1, <3>1 DEF GetHead, ConfirmedHead, FinalCoversSafeHead, chainVars
  <2> QED BY <1>2, <1>3, <2>1, <2>2
        DEF FinalityInv, NeverRollsBack, CursorIsStored, BatchIsFinal, FirstIndexed, tables
<1>7. CASE NothingToDo \/ Wake
  <2>1. /\ UNCHANGED <<chainVars, tables, headers, exit, cursor>>
        /\ pc \in {"head", "sleep"} /\ pc' \in {"head", "sleep"}
    BY <1>7 DEF NothingToDo, Wake, batchVars, loopVars
  <2> QED BY <1>2, <1>3, <2>1
        DEF FinalityInv, NeverRollsBack, CursorIsStored, BatchIsFinal, FirstIndexed, tables
<1>8. CASE GetHeadFails
  BY <1>8, QuietEndKeepsFinality DEF GetHeadFails
<1>9. CASE DetectNoReorg
  <2>1. /\ UNCHANGED <<chainVars, tables, headers, safeHead, exit, cursor>>
        /\ pc = "detect" /\ pc' = "filter"
    BY <1>9 DEF DetectNoReorg, batchVars, loopVars
  <2> QED BY <1>2, <1>3, <2>1
        DEF FinalityInv, NeverRollsBack, CursorIsStored, BatchIsFinal, FirstIndexed, tables, chainVars
<1>10. CASE DetectReorg
  BY <1>10, NoReorgIsSeen DEF DetectReorg
<1>11. CASE DetectFails
  BY <1>11, QuietEndKeepsFinality DEF DetectFails
<1>12. CASE FilterLogs
  <2>1. /\ UNCHANGED <<chainVars, tables, headers, safeHead, exit, cursor>>
        /\ pc = "filter" /\ pc' = "headers" /\ logs' = LogsOf(tip, From, To)
    BY <1>12 DEF FilterLogs, loopVars
  <2>2. From' = From /\ To' = To /\ tip' = tip /\ final' = final
    BY <2>1 DEF From, To, MinOf, chainVars
  <2> QED BY <1>2, <1>3, <2>1, <2>2
        DEF FinalityInv, NeverRollsBack, CursorIsStored, BatchIsFinal, FirstIndexed, tables
<1>13. CASE FilterLogsFails
  BY <1>13, QuietEndKeepsFinality DEF FilterLogsFails
<1>14. ASSUME NEW n \in Batch, FetchHeader(n) PROVE FinalityInv'
  <2>1. /\ UNCHANGED <<chainVars, tables, safeHead, logs, exit, cursor>>
        /\ pc = "headers" /\ pc' \in {"headers", "commit"}
        /\ headers' = [m \in DOMAIN headers \cup {n} |->
                          IF m = n THEN HeaderAt(n) ELSE headers[m]]
        /\ pc' = "commit" => Batch \subseteq DOMAIN headers'
    BY <1>14 DEF FetchHeader, loopVars
  <2>2. From' = From /\ To' = To /\ Batch' = Batch /\ tip' = tip /\ final' = final
    BY <2>1 DEF From, To, Batch, MinOf, chainVars
  <2>3. \A m \in DOMAIN headers' : m \in Batch /\ headers'[m] = AncestorAt(tip, m)
    BY <1>2, <1>14, <2>1 DEF BatchIsFinal, HeaderAt
  <2>4. BatchIsFinal'
    BY <1>2, <2>1, <2>2, <2>3 DEF BatchIsFinal
  <2> QED BY <1>2, <1>3, <2>1, <2>4
        DEF FinalityInv, NeverRollsBack, CursorIsStored, FirstIndexed, tables
<1>15. CASE FetchHeadersFails
  BY <1>15, QuietEndKeepsFinality DEF FetchHeadersFails
<1>16. CASE CommitBatch
  <2>1. /\ UNCHANGED <<chainVars, exit>> /\ BatchTx /\ pc = "commit" /\ pc' = "head"
        /\ cursor' = To /\ headers' = NoHeaders
    BY <1>16 DEF CommitBatch, ForgetBatch
  <2>2. /\ Canonical' /\ StoredIsFinal'
        /\ To \in DOMAIN indexedBlocks' /\ To >= FirstIndexed
    BY <2>1, BatchTxKeepsFinality
  <2>3. CursorIsStored'
    <3>1. To \in Nat
      BY <1>1, <2>1, BatchBounds DEF BatchIsReady
    <3> QED BY <2>1, <2>2, <3>1, FirstIsPositive DEF CursorIsStored, FirstIndexed
  <2>4. BatchIsFinal' /\ FinalCoversSafeHead'
    BY <1>2, <2>1 DEF BatchIsFinal, NoHeaders, FinalCoversSafeHead, chainVars
  <2> QED BY <1>2, <2>1, <2>2, <2>3, <2>4 DEF FinalityInv, NeverRollsBack
<1>17. CASE CommitFails
  BY <1>17, QuietEndKeepsFinality DEF CommitFails
<1>18. CASE CommitAckLost
  BY <1>18, BatchTxKeepsFinality, EndKeepsFinality DEF CommitAckLost
<1>19. CASE WalkBack \/ WalkEnds \/ WalkFails \/ TooDeep \/ Rollback
            \/ RollbackFails \/ RollbackAckLost
  BY <1>2, <1>19 DEF WalkBack, WalkEnds, WalkFails, TooDeep, Rollback, RollbackFails,
                     RollbackAckLost
<1>20. CASE StopOnCancel
  BY <1>20, QuietEndKeepsFinality DEF StopOnCancel
<1>21. CASE Signal
  <2>1. UNCHANGED <<chainVars, tables, pc, cursor, safeHead, logs, headers, exit>>
    BY <1>21 DEF Signal, loopVars, batchVars
  <2>2. From' = From /\ To' = To /\ Batch' = Batch /\ tip' = tip /\ final' = final
    BY <2>1 DEF From, To, Batch, MinOf, chainVars
  <2> QED BY <1>2, <1>3, <2>1, <2>2
        DEF FinalityInv, NeverRollsBack, CursorIsStored, BatchIsFinal, FirstIndexed, tables
<1>22. CASE Crash
  BY <1>22, QuietEndKeepsFinality DEF Crash
<1>23. CASE Restart
  <2>1. /\ UNCHANGED <<chainVars, tables>> /\ pc' = "load" /\ exit' = "running"
        /\ headers' = NoHeaders
    BY <1>23 DEF Restart, ForgetBatch
  <2> QED BY <1>3, <2>1
        DEF FinalityInv, NeverRollsBack, CursorIsStored, BatchIsFinal, NoHeaders
<1>24. CASE ChainStep
  BY <1>24, ChainKeepsFinality
<1>25. CASE UNCHANGED vars
  <2>1. UNCHANGED <<chainVars, tables, pc, cursor, safeHead, logs, headers, exit>>
    BY <1>25 DEF vars, procVars
  <2>2. From' = From /\ To' = To /\ Batch' = Batch /\ tip' = tip /\ final' = final
    BY <2>1 DEF From, To, Batch, MinOf, chainVars
  <2> QED BY <1>2, <1>3, <2>1, <2>2
        DEF FinalityInv, NeverRollsBack, CursorIsStored, BatchIsFinal, FirstIndexed, tables
<1> QED
  BY <1>4, <1>5, <1>6, <1>7, <1>8, <1>9, <1>10, <1>11, <1>12, <1>13, <1>14, <1>15,
     <1>16, <1>17, <1>18, <1>19, <1>20, <1>21, <1>22, <1>23, <1>24, <1>25
  DEF Next, RunStep

LEMMA FinalityInvariant ==
  ASSUME FinalityDepth <= Confirmations
  PROVE  Spec => []FinalityIInv
<1>1. Init => FinalityIInv
  BY InitTypes, InitFinality DEF FinalityIInv
<1>2. FinalityIInv /\ [Next]_vars => FinalityIInv'
  BY StepTypes, StepFinality DEF FinalityIInv
<1> QED BY <1>1, <1>2, PTL DEF Spec

\* With at least FinalityDepth confirmations, whatever fails and whenever the
\* chain reorganises, the tables hold exactly the rows of the canonical chain.
THEOREM TablesAreCanonical ==
  ASSUME FinalityDepth <= Confirmations
  PROVE  Spec => []Canonical
<1>1. FinalityIInv => Canonical
  BY DEF FinalityIInv, FinalityInv
<1> QED BY <1>1, FinalityInvariant, PTL

\* With at least FinalityDepth confirmations, handleReorg is never entered.
THEOREM ReorgsAreNeverSeen ==
  ASSUME FinalityDepth <= Confirmations
  PROVE  Spec => []NeverRollsBack
<1>1. FinalityIInv => NeverRollsBack
  BY DEF FinalityIInv, FinalityInv
<1> QED BY <1>1, FinalityInvariant, PTL

LEMMA StepKeepsAuctions ==
  ASSUME FinalityIInv, [Next]_vars
  PROVE  auctions \subseteq auctions'
<1>1. pc \notin {"walk", "rollback"}
  BY DEF FinalityIInv, FinalityInv, NeverRollsBack
<1>2. CASE CommitBatch \/ CommitAckLost
  BY <1>2 DEF CommitBatch, CommitAckLost, BatchTx, InsertAuctions
<1>3. CASE ~ (CommitBatch \/ CommitAckLost)
  <2> USE DEF tables
  <2>1. CASE UNCHANGED vars
    BY <2>1 DEF vars
  <2>2. CASE RunStep
    BY <1>1, <1>3, <2>2
    DEF RunStep, LoadCursor, LoadFails, GetHead, NothingToDo, GetHeadFails,
        DetectNoReorg, DetectReorg, DetectFails, FilterLogs, FilterLogsFails,
        FetchHeader, FetchHeadersFails, CommitFails, WalkBack, WalkEnds, WalkFails,
        TooDeep, Rollback, RollbackFails, RollbackAckLost, Wake, StopOnCancel
  <2>3. CASE Signal \/ Crash \/ Restart \/ ChainStep
    BY <2>3 DEF Signal, Crash, Restart, ChainStep
  <2> QED BY <2>1, <2>2, <2>3 DEF Next
<1> QED BY <1>2, <1>3

\* With at least FinalityDepth confirmations, no auction ever changes or goes.
THEOREM AuctionsNeverChange ==
  ASSUME FinalityDepth <= Confirmations
  PROVE  Spec => AuctionsImmutable
<1>1. FinalityIInv /\ [Next]_vars => auctions \subseteq auctions'
  BY StepKeepsAuctions
<1>2. []FinalityIInv /\ [][Next]_vars => [][auctions \subseteq auctions']_tables
  BY <1>1, PTL
<1> QED BY <1>2, FinalityInvariant, PTL DEF Spec, AuctionsImmutable

=============================================================================
