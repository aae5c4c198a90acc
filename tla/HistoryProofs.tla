--------------------------- MODULE HistoryProofs ---------------------------
(***************************************************************************)
(* Proofs about what has happened to the indexer before: the iterations    *)
(* that have failed in a row, and the auctions that have been given away.  *)
(***************************************************************************)
EXTENDS RetryBudget, Caches, ReorgWalk, TablesProofs, FiniteSetTheorems

(***************************************************************************)
(* The retry budget of Run, for every maxLoopRetries, every set of faults  *)
(* and every chain.                                                        *)
(***************************************************************************)
\* consecutiveErrors counts at least the iterations that have failed in a row,
\* and the process stops when it reaches the budget.
BudgetInv ==
  /\ failures \in Nat
  /\ failures <= consecutiveErrors
  /\ pc # "stopped" => consecutiveErrors < MaxLoopRetries

\* What a step does to consecutiveErrors: an error counts, a new process and an
\* iteration that ends well start again from 0, and nothing else changes it.
LEMMA CountedErrors ==
  ASSUME TypeOK, [Next]_vars
  PROVE  \/ /\ consecutiveErrors' = consecutiveErrors + 1
            /\ pc' # "stopped" => consecutiveErrors' < MaxLoopRetries
         \/ /\ consecutiveErrors' = consecutiveErrors
            /\ pc' # "stopped" => pc # "stopped"
         \/ /\ consecutiveErrors' = 0
            /\ pc = "stopped" \/ (pc \in {"load", "commit", "rollback"} /\ pc' = "head")
<1>1. CASE \/ GetHeadFails \/ DetectFails \/ FilterLogsFails \/ FetchHeadersFails \/ CommitFails
           \/ CommitAckLost
  <2>1. LoopError
    BY <1>1 DEF GetHeadFails, DetectFails, FilterLogsFails, FetchHeadersFails, CommitFails,
                CommitAckLost
  <2>2. consecutiveErrors \in Nat /\ MaxLoopRetries \in Nat
    BY ConfigAssumption DEF TypeOK
  <2> QED BY <2>1, <2>2 DEF LoopError
<1>2. CASE \/ LoadFails \/ WalkFails \/ TooDeep \/ RollbackFails \/ RollbackAckLost \/ StopOnCancel
           \/ Crash
  BY <1>2 DEF LoadFails, WalkFails, TooDeep, RollbackFails, RollbackAckLost, StopOnCancel, Crash, Stop
<1>3. CASE LoadCursor \/ CommitBatch \/ Rollback \/ Restart
  BY <1>3 DEF LoadCursor, CommitBatch, Rollback, Restart
<1>4. CASE \/ GetHead \/ NothingToDo \/ DetectNoReorg \/ DetectReorg \/ FilterLogs \/ WalkBack
           \/ WalkEnds \/ Wake \/ Signal \/ ChainStep \/ UNCHANGED vars
  BY <1>4 DEF GetHead, NothingToDo, DetectNoReorg, DetectReorg, FilterLogs, WalkBack, WalkEnds, Wake,
              Signal, ChainStep, vars, procVars, loopVars
<1>5. ASSUME NEW n \in Batch, FetchHeader(n)
      PROVE  consecutiveErrors' = consecutiveErrors /\ pc # "stopped"
  BY <1>5 DEF FetchHeader, loopVars
<1> QED BY <1>1, <1>2, <1>3, <1>4, <1>5 DEF Next, RunStep

LEMMA BudgetStep ==
  ASSUME TypeOK, BudgetInv, [Next]_vars, CountFailures
  PROVE  BudgetInv'
<1>1. consecutiveErrors \in Nat /\ failures \in Nat /\ failures <= consecutiveErrors
      /\ MaxLoopRetries \in Nat \ {0}
  BY ConfigAssumption DEF TypeOK, BudgetInv
<1>2. CASE IterationFails
  BY <1>1, <1>2, CountedErrors DEF IterationFails, CountFailures, BudgetInv
<1>3. CASE ~ IterationFails
  <2>1. failures' \in {0, failures}
    BY <1>3 DEF CountFailures
  <2>2. CASE consecutiveErrors' = consecutiveErrors /\ (pc' # "stopped" => pc # "stopped")
    BY <1>1, <2>1, <2>2 DEF BudgetInv
  <2>3. CASE /\ consecutiveErrors' = 0
             /\ pc = "stopped" \/ (pc \in {"load", "commit", "rollback"} /\ pc' = "head")
    <3>1. failures' = 0
      BY <1>3, <2>3 DEF CountFailures, IterationEndsWell
    <3> QED BY <1>1, <2>3, <3>1 DEF BudgetInv
  <2> QED BY <1>3, <2>2, <2>3, CountedErrors DEF IterationFails
<1> QED BY <1>2, <1>3

\* However the calls that fail are mixed, of the chain head, of detectReorg, of
\* the logs, of the headers or of the transaction, Run never goes on after
\* maxLoopRetries iterations that have failed in a row.
THEOREM BudgetIsKept == BudgetSpec => []GivesUpInTime
<1>1. BudgetInit => TypeOK /\ BatchIsReady /\ BudgetInv
  BY InitTypes, ConfigAssumption DEF BudgetInit, BudgetInv, Init, ProcInit
<1>2. ASSUME TypeOK, BatchIsReady, BudgetInv, [BudgetNext]_<<vars, failures>>
      PROVE  TypeOK' /\ BatchIsReady' /\ BudgetInv'
  <2>1. [Next]_vars
    BY <1>2 DEF BudgetNext
  <2>2. CASE CountFailures
    BY <1>2, <2>1, <2>2, StepTypes, BudgetStep
  <2>3. CASE UNCHANGED <<vars, failures>>
    <3>1. BudgetInv'
      BY <1>2, <2>3 DEF BudgetInv, vars, procVars
    <3> QED BY <1>2, <2>1, <3>1, StepTypes
  <2> QED BY <1>2, <2>2, <2>3 DEF BudgetNext
<1>3. TypeOK /\ BudgetInv => GivesUpInTime
  BY ConfigAssumption DEF TypeOK, BudgetInv, GivesUpInTime
<1> QED BY <1>1, <1>2, <1>3, PTL DEF BudgetSpec

(***************************************************************************)
(* The answers of the API.                                                 *)
(***************************************************************************)
\* With at least FinalityDepth confirmations the API may tell caches that an
\* auction is immutable: no answer, of whatever age, ever differs from the row.
THEOREM AnswersStayTrue ==
  ASSUME FinalityDepth <= Confirmations
  PROVE  CachesSpec => []CachedIsStored
<1>1. CachesInit => FinalityIInv /\ CachedIsStored
  BY InitTypes, InitFinality DEF CachesInit, FinalityIInv, CachedIsStored
<1>2. ASSUME FinalityIInv, CachedIsStored, [CachesNext]_<<vars, cached>>
      PROVE  FinalityIInv' /\ CachedIsStored'
  <2>1. [Next]_vars
    BY <1>2 DEF CachesNext, Get, Forget
  <2>2. FinalityIInv' /\ auctions \subseteq auctions'
    BY <1>2, <2>1, StepTypes, StepFinality, StepKeepsAuctions DEF FinalityIInv
  <2>3. cached' \subseteq cached \cup auctions
    BY <1>2 DEF CachesNext, Get, GetByAddress, Forget
  <2> QED BY <1>2, <2>2, <2>3 DEF CachedIsStored
<1> QED BY <1>1, <1>2, PTL DEF CachesSpec

(***************************************************************************)
(* The walk of handleReorg.                                                *)
(***************************************************************************)
\* The block where the walk begins is stored.  While the chain only grows, every
\* block above the ancestor is off the chain, and the walk ends at a block that is
\* on it, at 0, or too far down.
WalkInv ==
  /\ Walking => cursor \in DOMAIN indexedBlocks
  /\ Walking /\ ~ moved =>
       /\ ancestor <= cursor /\ cursor <= Height(tip)
       /\ \A n \in (ancestor + 1)..cursor : ~ SameAsChain(n)
  /\ pc = "walk" /\ ~ moved => ~ SameAsChain(ancestor)
  /\ pc = "rollback" /\ ~ moved => IsTooDeep \/ ancestor = 0 \/ SameAsChain(ancestor)

Moves == moved' <=> (Walking' /\ (moved \/ ~ IsAncestor(tip, tip')))

\* A chain that grows keeps the hashes it had.
LEMMA GrowthKeepsHashes ==
  ASSUME tip \in Blocks, tip' \in Blocks, IsAncestor(tip, tip'),
         NEW n \in 0..Height(tip), UNCHANGED indexedBlocks
  PROVE  SameAsChain(n)' <=> SameAsChain(n)
<1>1. Height(tip) \in 0..Height(tip') /\ AncestorAt(tip', Height(tip)) = tip
  BY Ancestors DEF IsAncestor
<1>2. AncestorAt(tip', n) = AncestorAt(tip, n)
  BY <1>1, AncestorOfAncestor
<1> QED BY <1>2 DEF SameAsChain, HeaderAt

LEMMA ItselfAncestor == ASSUME NEW h \in Blocks PROVE IsAncestor(h, h)
<1>1. h \in Seq(Label) /\ Height(h) = Len(h)
  BY BlockTreeAssumption DEF Height
<1> QED BY <1>1 DEF IsAncestor, AncestorAt

LEMMA WalkStep ==
  ASSUME TypeOK, TypeOK', WalkInv, [Next]_vars, Moves
  PROVE  WalkInv'
<1> USE DEF Walking
<1>1. CASE pc' \notin {"walk", "rollback"}
  BY <1>1 DEF WalkInv
<1>2. CASE DetectReorg
  <2>1. /\ pc' = "walk" /\ ancestor' = cursor /\ cursor' = cursor
        /\ UNCHANGED <<tip, indexedBlocks>>
        /\ HasHeader(cursor) /\ ~ SameAsChain(cursor) /\ cursor \in Nat
    BY <1>2 DEF DetectReorg, loopVars, chainVars, tables, TypeOK
  <2>2. ~ SameAsChain(ancestor)' /\ cursor <= Height(tip)
    BY <2>1 DEF SameAsChain, HeaderAt, HasHeader
  <2>3. cursor \in DOMAIN indexedBlocks
    BY <1>2 DEF DetectReorg, NeedsNoHeader, GetHash
  <2> QED BY <2>1, <2>2, <2>3 DEF WalkInv
<1>3. CASE WalkBack
  <2>1. /\ pc = "walk" /\ ancestor' = ancestor - 1 /\ cursor' = cursor
        /\ UNCHANGED <<tip, indexedBlocks>>
        /\ pc' = IF SameAsChain(ancestor - 1) THEN "rollback" ELSE "walk"
        /\ cursor \in Nat /\ ancestor \in Nat
    BY <1>3 DEF WalkBack, loopVars, chainVars, tables, TypeOK
  <2>2. \A n : SameAsChain(n)' <=> SameAsChain(n)
    BY <2>1 DEF SameAsChain, HeaderAt
  <2>3. SameAsChain(ancestor)' <=> SameAsChain(ancestor - 1)
    BY <2>1 DEF SameAsChain, HeaderAt
  <2>4. CASE moved'
    BY <2>1, <2>4 DEF WalkInv
  <2>5. CASE ~ moved'
    <3>1. /\ ancestor <= cursor /\ cursor <= Height(tip) /\ ~ SameAsChain(ancestor)
          /\ \A n \in (ancestor + 1)..cursor : ~ SameAsChain(n)
      BY <2>1, <2>5 DEF WalkInv, Moves
    <3>2. \A n \in (ancestor' + 1)..cursor' : ~ SameAsChain(n)'
      BY <2>1, <2>2, <3>1
    <3> QED BY <2>1, <2>3, <3>1, <3>2 DEF WalkInv
  <2> QED BY <2>4, <2>5
<1>4. CASE WalkEnds
  <2>1. /\ pc = "walk" /\ pc' = "rollback" /\ UNCHANGED <<ancestor, cursor, tip, indexedBlocks>>
        /\ ~ MayWalk /\ ancestor \in Nat /\ cursor \in Nat /\ MaxReorgDepth \in Nat
    BY <1>4, ConfigAssumption DEF WalkEnds, loopVars, chainVars, tables, TypeOK
  <2>2. IsTooDeep' \/ ancestor' = 0
    BY <2>1 DEF MayWalk, IsTooDeep
  <2> QED BY <2>1, <2>2 DEF WalkInv, Moves, SameAsChain, HeaderAt
<1>5. CASE \/ UNCHANGED <<pc, ancestor, cursor, tip, indexedBlocks>>
           \/ ChainStep
  <2>1. UNCHANGED <<pc, ancestor, cursor, indexedBlocks>> /\ tip \in Blocks /\ tip' \in Blocks
    BY <1>5 DEF ChainStep, procVars, loopVars, batchVars, tables, TypeOK
  <2>2. CASE moved' \/ pc \notin {"walk", "rollback"}
    BY <2>1, <2>2 DEF WalkInv
  <2>3. CASE ~ moved' /\ pc \in {"walk", "rollback"}
    <3>1. ~ moved /\ IsAncestor(tip, tip')
      BY <2>1, <2>3 DEF Moves
    <3>2. /\ ancestor <= cursor /\ cursor <= Height(tip)
          /\ ancestor \in Nat /\ cursor \in Nat /\ Height(tip) \in Nat
      BY <2>1, <2>3, <3>1, Ancestors DEF WalkInv, TypeOK
    <3>3. \A n \in 0..cursor : SameAsChain(n)' <=> SameAsChain(n)
      BY <2>1, <3>1, <3>2, GrowthKeepsHashes
    <3>4. SameAsChain(ancestor)' <=> SameAsChain(ancestor)
      <4>1. ancestor' = ancestor /\ ancestor \in 0..cursor
        BY <2>1, <3>2
      <4> QED BY <4>1, <3>3 DEF SameAsChain
    <3>5. Height(tip) <= Height(tip') /\ Height(tip') \in Nat
      BY <2>1, <3>1, Ancestors DEF IsAncestor
    <3>6. \A n \in (ancestor + 1)..cursor : ~ SameAsChain(n)'
      BY <2>3, <3>1, <3>2, <3>3 DEF WalkInv
    <3>7. IsTooDeep' <=> IsTooDeep
      BY <2>1 DEF IsTooDeep
    <3> QED BY <2>1, <2>3, <3>1, <3>2, <3>4, <3>5, <3>6, <3>7 DEF WalkInv
  <2> QED BY <2>2, <2>3
<1>6. ASSUME NEW n \in Batch, FetchHeader(n) PROVE pc' \notin {"walk", "rollback"}
  BY <1>6 DEF FetchHeader
<1>7. CASE \/ LoadCursor \/ LoadFails \/ GetHead \/ NothingToDo \/ GetHeadFails \/ DetectNoReorg
           \/ DetectFails \/ FilterLogs \/ FilterLogsFails \/ FetchHeadersFails \/ CommitBatch
           \/ CommitFails \/ CommitAckLost \/ WalkFails \/ TooDeep \/ Rollback \/ RollbackFails
           \/ RollbackAckLost \/ Wake \/ StopOnCancel \/ Crash \/ Restart
  <2>1. pc' \notin {"walk", "rollback"}
    BY <1>7
    DEF LoadCursor, LoadFails, GetHead, NothingToDo, GetHeadFails, DetectNoReorg, DetectFails,
        FilterLogs, FilterLogsFails, FetchHeadersFails, CommitBatch, CommitFails, CommitAckLost,
        WalkFails, TooDeep, Rollback, RollbackFails, RollbackAckLost, Wake, StopOnCancel, Crash,
        Restart, LoopError, Stop
  <2> QED BY <1>1, <2>1
<1>8. CASE Signal \/ UNCHANGED vars
  BY <1>5, <1>8 DEF Signal, vars, chainVars, tables, procVars, loopVars, batchVars
<1> QED BY <1>1, <1>2, <1>3, <1>4, <1>5, <1>6, <1>7, <1>8 DEF Next, RunStep

LEMMA WalkIsSpec == WalkSpec => Spec
<1>1. WalkInit => Init
  BY DEF WalkInit
<1>2. [WalkNext]_<<vars, moved>> => [Next]_vars
  BY DEF WalkNext
<1> QED BY <1>1, <1>2, PTL DEF WalkSpec, Spec

LEMMA WalkInvariant ==
  ASSUME "lostack" \notin Faults
  PROVE  WalkSpec => [](TablesIInv /\ WalkInv)
<1>1. WalkInit => WalkInv
  BY DEF WalkInit, Init, ProcInit, WalkInv, Walking
<1>2. ASSUME TablesIInv, TablesIInv', WalkInv, [WalkNext]_<<vars, moved>> PROVE WalkInv'
  <2>1. CASE WalkNext
    <3>1. Moves
      BY <2>1 DEF WalkNext, FollowChain, Moves
    <3> QED BY <1>2, <2>1, <3>1, WalkStep DEF WalkNext, TablesIInv
  <2>2. CASE UNCHANGED <<vars, moved>>
    BY <1>2, <2>2
    DEF WalkInv, Walking, SameAsChain, HeaderAt, IsTooDeep, vars, chainVars, tables, procVars
  <2> QED BY <1>2, <2>1, <2>2
<1> QED BY <1>1, <1>2, WalkIsSpec, TablesInvariant, PTL DEF WalkSpec

\* When handleReorg decides, its cursor is the top of the stored range.
LEMMA CursorAtRollback ==
  ASSUME TablesIInv, pc = "rollback"
  PROVE  /\ cursor \in Nat /\ ancestor \in Nat
         /\ DOMAIN indexedBlocks \subseteq 1..cursor
         /\ cursorRow.block # 0 => cursorRow.block = cursor
<1>1. cursor \in {cursorRow.block, StartingCursor(cursorRow)} /\ TypeOK /\ RangeInv
  BY DEF TablesIInv, WorkInv
<1>2. cursorRow.block # 0 => cursorRow.block = cursor
  BY <1>1, RangeFacts
<1>3. CASE cursorRow.block = 0
  BY <1>1, <1>3, RangeFacts DEF TypeOK
<1>4. CASE cursorRow.block # 0
  BY <1>1, <1>2, <1>4, RangeFacts DEF TypeOK
<1> QED BY <1>2, <1>3, <1>4

LEMMA RollbackTakes ==
  ASSUME TablesIInv, WalkInv, [WalkNext]_<<vars, moved>>, tables' # tables, ~ moved
  PROVE  DOMAIN indexedBlocks \ DOMAIN indexedBlocks' \subseteq Orphaned
<1>1. [Next]_vars
  BY DEF WalkNext
<1>2. CASE pc = "commit" /\ BatchTx
  BY <1>2, BatchBlocks
<1>3. CASE pc = "rollback" /\ ~ IsTooDeep /\ RollbackTx
  <2> SUFFICES ASSUME NEW n \in DOMAIN indexedBlocks, n \notin DOMAIN indexedBlocks'
               PROVE  ~ SameAsChain(n)
    BY DEF Orphaned
  <2>1. ~ (n <= ancestor)
    BY <1>3, RollbackBlocks
  <2>2. n \in (ancestor + 1)..cursor
    BY <1>3, <2>1, CursorAtRollback
  <2> QED BY <1>3, <2>2 DEF WalkInv, Walking
<1> QED BY <1>1, <1>2, <1>3, TablesMove

\* Where the walk has ended on the chain, so is every stored block below: blocks of
\* one branch that agree with the chain at one height agree with it below.
LEMMA RollbackKeeps ==
  ASSUME BranchIInv, WalkInv, ~ moved, pc = "rollback", ~ IsTooDeep,
         NEW n \in DOMAIN indexedBlocks, n <= ancestor
  PROVE  n \notin Orphaned
<1>1. /\ TablesIInv /\ TypeOK /\ ancestor \in Nat /\ cursor \in Nat
      /\ DOMAIN indexedBlocks \subseteq 1..cursor
  BY CursorAtRollback DEF BranchIInv, TablesIInv
<1> DEFINE k == cursorRow.hash
<1>2. n \in 1..ancestor /\ ancestor \in DOMAIN indexedBlocks
  BY <1>1 DEF TablesIInv, WorkInv
<1>3. cursorRow.block > 0 /\ cursorRow.block \in Nat
  BY <1>1, <1>2, RangeFacts DEF TablesIInv
<1>4. k \in Blocks /\ Stored(k) /\ Height(k) \in Nat
  BY <1>1, <1>3, RowIsBlock, Ancestors DEF BranchIInv, TablesIInv, OneBranch
<1>5. ancestor \in 0..Height(k) /\ indexedBlocks[ancestor] = AncestorAt(k, ancestor)
      /\ indexedBlocks[n] = AncestorAt(k, n)
  BY <1>1, <1>2, <1>4 DEF Stored
<1>6. SameAsChain(ancestor) /\ ancestor <= cursor /\ cursor <= Height(tip)
  BY <1>2 DEF WalkInv, Walking
<1>7. tip \in Blocks /\ Height(tip) \in Nat /\ ancestor \in 0..Height(tip) /\ n \in 0..ancestor
  BY <1>1, <1>2, <1>6, Ancestors DEF TypeOK
<1>8. AncestorAt(k, ancestor) = AncestorAt(tip, ancestor)
  BY <1>2, <1>5, <1>6 DEF SameAsChain, GetHash, HeaderAt
<1>9. AncestorAt(k, n) = AncestorAt(tip, n)
  <2>1. AncestorAt(AncestorAt(k, ancestor), n) = AncestorAt(k, n)
    BY <1>4, <1>5, <1>7, AncestorOfAncestor
  <2>2. AncestorAt(AncestorAt(tip, ancestor), n) = AncestorAt(tip, n)
    BY <1>7, AncestorOfAncestor
  <2> QED BY <1>8, <2>1, <2>2
<1> QED BY <1>5, <1>7, <1>9 DEF Orphaned, HasHeader, SameAsChain, GetHash, HeaderAt

\* Whatever the walk passes has left the chain: a rollback never deletes a block
\* that was still canonical when the walk compared it, if the chain only grows
\* from there on, and whatever reorgs have come while the batches were read.
THEOREM RollbackTakesOrphans ==
  ASSUME "lostack" \notin Faults
  PROVE  WalkSpec => LosesOnlyOrphans
<1>1. TablesIInv /\ WalkInv /\ [WalkNext]_<<vars, moved>>
        => [~ moved => DOMAIN indexedBlocks \ DOMAIN indexedBlocks' \subseteq Orphaned]_tables
  BY RollbackTakes
<1> QED BY <1>1, WalkInvariant, PTL DEF WalkSpec, LosesOnlyOrphans

\* A rollback takes exactly the blocks that have left the chain, if the batches are
\* of one branch and the chain only grows while handleReorg works.
THEOREM RollbackIsExact ==
  ASSUME "lostack" \notin Faults, ~ MidBatchReorgs
  PROVE  WalkSpec => TakesAllOrphans
<1>1. ASSUME BranchIInv, WalkInv, [WalkNext]_<<vars, moved>>, tables' # tables, ~ moved,
             pc = "rollback"
      PROVE  DOMAIN indexedBlocks \ DOMAIN indexedBlocks' = Orphaned
  <2>1. [Next]_vars /\ TablesIInv
    BY <1>1 DEF WalkNext, BranchIInv
  <2>2. ~ IsTooDeep /\ RollbackTx
    BY <1>1, <2>1, TablesMove
  <2>3. DOMAIN indexedBlocks' = {n \in DOMAIN indexedBlocks : n <= ancestor}
    BY <1>1, <2>1, <2>2, RollbackBlocks
  <2>4. Orphaned \cap DOMAIN indexedBlocks' = {}
    BY <1>1, <2>2, <2>3, RollbackKeeps
  <2>5. DOMAIN indexedBlocks \ DOMAIN indexedBlocks' \subseteq Orphaned
    BY <1>1, <2>1, RollbackTakes
  <2>6. Orphaned \subseteq DOMAIN indexedBlocks
    BY DEF Orphaned
  <2> QED BY <2>4, <2>5, <2>6
<1>2. BranchIInv /\ WalkInv /\ [WalkNext]_<<vars, moved>>
        => [~ moved /\ pc = "rollback" =>
              DOMAIN indexedBlocks \ DOMAIN indexedBlocks' = Orphaned]_tables
  BY <1>1
<1> QED BY <1>2, WalkInvariant, WalkIsSpec, BranchInvariant, PTL DEF WalkSpec, TakesAllOrphans

\* "reorg deeper than 128 blocks" is said of no other reorg: the block of the cursor
\* is off the chain, and so are as many stored blocks as maxReorgDepth, or all of
\* them, if the chain only grows from the detection on.
THEOREM DeepReorgsAreDeep ==
  ASSUME "lostack" \notin Faults
  PROVE  WalkSpec => DeepIsDeep
<1> DEFINE Deep == /\ cursor \in Orphaned
                   /\ Cardinality(Orphaned) >= MaxReorgDepth \/ Orphaned = DOMAIN indexedBlocks
<1>1. ASSUME TablesIInv, WalkInv, [WalkNext]_<<vars, moved>>, ~ moved, exit # "deep", exit' = "deep"
      PROVE  Deep
  <2>1. [Next]_vars /\ TypeOK /\ RangeInv
    BY <1>1 DEF WalkNext, TablesIInv
  <2>2. pc = "rollback" /\ IsTooDeep
    BY <1>1, <2>1
    DEF Next, RunStep, LoadCursor, LoadFails, GetHead, NothingToDo, GetHeadFails, DetectNoReorg,
        DetectReorg, DetectFails, FilterLogs, FilterLogsFails, FetchHeader, FetchHeadersFails,
        CommitBatch, CommitFails, CommitAckLost, WalkBack, WalkEnds, WalkFails, TooDeep, Rollback,
        RollbackFails, RollbackAckLost, Wake, StopOnCancel, Signal, Crash, Restart, ChainStep, vars,
        procVars, LoopError, Stop
  <2>3. /\ cursor \in Nat /\ ancestor \in Nat /\ cursor \in DOMAIN indexedBlocks
        /\ cursorRow.block # 0 => cursorRow.block = cursor
        /\ MaxReorgDepth \in Nat \ {0} /\ cursor - ancestor >= MaxReorgDepth
    BY <1>1, <2>2, CursorAtRollback, ConfigAssumption DEF IsTooDeep, WalkInv, Walking
  <2>4. PICK lo \in Nat : lo <= cursor /\ DOMAIN indexedBlocks = lo..cursor
    BY <2>1, <2>3, RangeFacts, FirstBlocksArePositive DEF RangeInv
  <2>5. DOMAIN indexedBlocks \cap (ancestor + 1)..cursor \subseteq Orphaned
    BY <1>1, <2>2 DEF WalkInv, Walking, Orphaned
  <2>6. cursor \in Orphaned
    BY <2>3, <2>5
  <2>7. CASE lo > ancestor
    <3>1. DOMAIN indexedBlocks \subseteq (ancestor + 1)..cursor
      BY <2>3, <2>4, <2>7
    <3>2. Orphaned = DOMAIN indexedBlocks
      BY <2>5, <3>1 DEF Orphaned
    <3> QED BY <2>6, <3>2
  <2>8. CASE lo <= ancestor
    <3>1. (ancestor + 1)..cursor \subseteq DOMAIN indexedBlocks
      BY <2>3, <2>4, <2>8
    <3>2. (ancestor + 1)..cursor \in SUBSET Orphaned
      BY <2>5, <3>1
    <3>3. IsFiniteSet(lo..cursor) /\ Orphaned \in SUBSET (lo..cursor)
      BY <2>3, <2>4, FS_Interval DEF Orphaned
    <3>4. IsFiniteSet(Orphaned) /\ Cardinality(Orphaned) \in Nat
      BY <3>3, FS_Subset, FS_CardinalityType
    <3>5. Cardinality((ancestor + 1)..cursor) = cursor - ancestor
      BY <2>3, FS_Interval
    <3>6. Cardinality((ancestor + 1)..cursor) <= Cardinality(Orphaned)
      BY <3>2, <3>4, FS_Subset
    <3> QED BY <2>3, <2>6, <3>4, <3>5, <3>6
  <2> QED BY <2>3, <2>4, <2>7, <2>8
<1>2. TablesIInv /\ WalkInv /\ [WalkNext]_<<vars, moved>>
        => [~ moved /\ exit # "deep" /\ exit' = "deep" => Deep]_exit
  BY <1>1
<1> QED BY <1>2, WalkInvariant, PTL DEF WalkSpec, DeepIsDeep

=============================================================================
