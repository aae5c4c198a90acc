------------------------- MODULE IndexerProperties -------------------------
(***************************************************************************)
(* What is claimed of the indexer: invariants and action properties of the *)
(* tables, the fairness of the process and of its environment, the         *)
(* liveness they give, and the refinement of Mirror.                       *)
(***************************************************************************)
EXTENDS Indexer

IsHashMap(f) ==
  /\ DOMAIN f \subseteq Nat
  /\ \A n \in DOMAIN f : f[n] \in Blocks
  /\ f = [n \in DOMAIN f |-> f[n]]

\* Every variable of the chain, the tables and the process has its type.
TypeOK ==
  /\ tip \in Blocks
  /\ final \in 0..Height(tip)
  /\ cursorRow \in CursorRow
  /\ IsHashMap(indexedBlocks)
  /\ rawEvents \subseteq EventRow
  /\ auctions \subseteq AuctionRow
  /\ pc \in Steps
  /\ cursor \in Nat
  /\ consecutiveErrors \in Nat
  /\ safeHead \in Nat
  /\ logs \subseteq EventRow
  /\ IsHashMap(headers)
  /\ ancestor \in Nat
  /\ cancelled \in BOOLEAN
  /\ exit \in ExitReasons

\* What TypeOK rests on: a batch is not empty while it is read, and its last
\* header is there when it is written (the code indexes headers[to-from]).
BatchIsReady ==
  /\ pc \in {"detect", "filter", "headers", "commit"} => cursor < safeHead
  /\ pc = "commit" => To \in DOMAIN headers

(***************************************************************************)
(* Consistency of the tables with each other, whatever the chain does.     *)
(***************************************************************************)
\* The indexed blocks form one gapless range that ends at the cursor row,
\* and the cursor row holds the hash of the last of them: no interleaving of
\* batches, rollbacks, failures and restarts leaves a hole or a stray block.
CursorIsTop ==
  IF DOMAIN indexedBlocks = {}
    THEN cursorRow = [block |-> 0, hash |-> NoHash]
    ELSE /\ cursorRow.block \in DOMAIN indexedBlocks
         /\ cursorRow.hash = indexedBlocks[cursorRow.block]
         /\ \A n \in DOMAIN indexedBlocks :
              n \in 1..cursorRow.block /\ n..cursorRow.block \subseteq DOMAIN indexedBlocks

\* No event outlives its block, and the auctions are those of the events: the
\* three DELETEs of a rollback and the INSERTs of a batch never leave an
\* auction without the event it came from, or an event without its auction.
RowsAreRelated ==
  /\ \A e \in rawEvents : e.block \in DOMAIN indexedBlocks
  /\ \A a \in auctions : \E e \in rawEvents : AuctionFrom(e) = a
  /\ \A e \in rawEvents : \E a \in auctions :
       a.address = AuctionOf[e.tx] /\ a.block <= e.block

\* Between two calls, Run's cursor is the one a restart would load, except
\* that a rollback to block 0 lets the running process go on from block 1, and
\* that a COMMIT cut short by the signal may have been applied.
CursorIsDurable ==
  pc \notin {"load", "stopped"} /\ ~ cancelled =>
    cursor \in {cursorRow.block, StartingCursor(cursorRow)}

\* Rows change only in a transaction that moves the cursor row with them.
RowsMoveWithCursor ==
  [][UNCHANGED cursorRow => UNCHANGED <<indexedBlocks, rawEvents, auctions>>]_tables

(***************************************************************************)
(* The tables against the chain.                                           *)
(***************************************************************************)
\* The rows are exactly those of the indexed range on the branch of h.
Stored(h) ==
  /\ \A n \in DOMAIN indexedBlocks : n <= Height(h) /\ indexedBlocks[n] = AncestorAt(h, n)
  /\ rawEvents = LogsIn(h, DOMAIN indexedBlocks)
  /\ auctions = AuctionsFrom(rawEvents)

\* Every row comes from one branch, the one the cursor row names: a batch is
\* never written above blocks of another branch, and a rollback takes away
\* every row of the branch it leaves.
OneBranch == cursorRow.block > 0 => Stored(cursorRow.hash)

\* While the hash of the cursor row is on the canonical chain, which is all
\* that detectReorg looks at, the rows are those of the canonical chain.
ReorgSafe ==
  cursorRow.block > 0 /\ IsAncestor(cursorRow.hash, tip) => Stored(tip)

FirstIndexed == IF StartBlock = 0 THEN 1 ELSE StartBlock

\* The rows are those of the canonical chain, complete from the first block
\* up and at least up to the cursor row.
Canonical ==
  /\ Stored(tip)
  /\ \A n \in DOMAIN indexedBlocks :
       n >= FirstIndexed /\ FirstIndexed..n \subseteq DOMAIN indexedBlocks
  /\ cursorRow.block > 0 =>
       /\ cursorRow.block \in DOMAIN indexedBlocks
       /\ cursorRow.hash = indexedBlocks[cursorRow.block]

\* No reorg is ever detected, and none makes the process stop.
NeverRollsBack == pc \notin {"walk", "rollback"} /\ exit \notin {"reorg", "deep"}

\* An auction, once it can be read from the API, is there for good: this is
\* what lets the API serve it with Cache-Control: immutable.
AuctionsImmutable == [][auctions \subseteq auctions']_tables

\* Why it is: with FinalityDepth <= Confirmations, everything that is stored, or
\* read to be stored, lies in the final part of the canonical chain.
FinalCoversSafeHead == Height(tip) - FinalityDepth <= final
StoredIsFinal == \A n \in DOMAIN indexedBlocks : n <= final
CursorIsStored ==
  pc \notin {"load", "stopped"} =>
    /\ cursor >= FirstIndexed - 1
    /\ cursor >= FirstIndexed => cursor \in DOMAIN indexedBlocks
BatchIsFinal ==
  /\ pc \in {"detect", "filter", "headers", "commit"} => safeHead <= final
  /\ pc \in {"headers", "commit"} =>
       /\ logs = LogsOf(tip, From, To)
       /\ \A n \in DOMAIN headers : n \in Batch /\ headers[n] = AncestorAt(tip, n)
  /\ pc \notin {"headers", "commit"} => DOMAIN headers = {}
  /\ pc = "commit" => Batch \subseteq DOMAIN headers
FinalityInv ==
  /\ Canonical
  /\ NeverRollsBack
  /\ FinalCoversSafeHead
  /\ StoredIsFinal
  /\ CursorIsStored
  /\ BatchIsFinal

\* The promise as an abstract specification of the tables alone.
MirrorOf == INSTANCE Mirror
              WITH StartBlock <- StartBlock, BlockBatchSize <- BlockBatchSize
MirrorSpec == MirrorOf!MirrorSpec

(***************************************************************************)
(* The process.                                                            *)
(***************************************************************************)
\* handleReorg gives up, with an error that says "reorg deeper than 128 blocks"
\* (internal/indexer/reorg.go:65), only if at least maxReorgDepth stored blocks
\* have left the chain.
Orphaned == {n \in DOMAIN indexedBlocks : ~ (HasHeader(n) /\ SameAsChain(n))}
DeepMeansDeep ==
  [][exit # "deep" /\ exit' = "deep" => Cardinality(Orphaned) >= MaxReorgDepth]_vars

\* What the scheduler gives: the process keeps running, its timers fire, and
\* its supervisor starts it again.
Scheduling == WF_vars(RunStep) /\ WF_vars(Restart)

\* What the environment gives: a call that is made again and again, at the
\* same stage of the same piece of work, succeeds at last.
FetchAfter(k) ==
  Cardinality(DOMAIN headers) = k /\ \E n \in Batch : FetchHeader(n)
Heights == {Height(h) : h \in Blocks}
FairCalls ==
  /\ SF_vars(LoadCursor)
  /\ SF_vars(GetHead \/ NothingToDo)
  /\ SF_vars(DetectNoReorg \/ DetectReorg)
  /\ SF_vars(FilterLogs)
  /\ \A k \in 0..(BlockBatchSize - 1) : SF_vars(FetchAfter(k))
  /\ SF_vars(CommitBatch)
  /\ \A n \in Heights : SF_vars(ancestor = n /\ WalkBack)
  /\ SF_vars(Rollback)

FairSpec == Spec /\ Scheduling /\ FairCalls

\* When the chain comes to rest, the cursor row reaches its safe head, through
\* whatever reorgs, rollbacks, failed calls and restarts are still to come.
CatchesUp ==
  <>[][UNCHANGED tip]_tip => <>[](cursorRow.block >= Height(tip) - Confirmations)

\* A process told to stop does so, wherever the signal finds it, even if no
\* call ever succeeds.
ShutsDown == cancelled ~> pc = "stopped"

=============================================================================
