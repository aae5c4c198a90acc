------------------------------- MODULE Mirror -------------------------------
(***************************************************************************)
(* What the indexer promises of its database (README.md, "Stores indexed   *)
(* data in PostgreSQL with full reorg safety"): at every moment the tables *)
(* are the exact image of the top of ONE branch of the chain, and a        *)
(* transaction either adds at most a batch of further blocks of that       *)
(* branch or cuts the image back to one of its ancestors.                  *)
(***************************************************************************)
EXTENDS Store

CONSTANTS StartBlock, BlockBatchSize

\* Where an image may begin: at START_BLOCK, or at block 1 after a rollback
\* that found no common ancestor.
FirstBlocks == {1, StartBlock} \ {0}

Empty == cursorRow = [block |-> 0, hash |-> NoHash]

\* The tables are the image of the blocks lo..Height(h) of the branch of h.
Shows(h, lo) ==
  /\ cursorRow = [block |-> Height(h), hash |-> h]
  /\ indexedBlocks = [n \in lo..Height(h) |-> AncestorAt(h, n)]
  /\ rawEvents = LogsOf(h, lo, Height(h))
  /\ auctions = AuctionsFrom(LogsOf(h, lo, Height(h)))

ShowsNothing ==
  /\ Empty
  /\ DOMAIN indexedBlocks = {}
  /\ rawEvents = {}
  /\ auctions = {}

Start ==
  \E lo \in FirstBlocks, h \in Blocks :
    /\ Empty
    /\ Height(h) \in lo..(lo + BlockBatchSize - 1)
    /\ Shows(h, lo)'

Extend ==
  \E lo \in FirstBlocks, h \in Blocks :
    /\ ~ Empty
    /\ DOMAIN indexedBlocks = lo..cursorRow.block
    /\ IsAncestor(cursorRow.hash, h)
    /\ Height(h) \in (cursorRow.block + 1)..(cursorRow.block + BlockBatchSize)
    /\ Shows(h, lo)'

Retreat ==
  \E lo \in FirstBlocks, h \in Blocks :
    /\ ~ Empty
    /\ DOMAIN indexedBlocks = lo..cursorRow.block
    /\ IsAncestor(h, cursorRow.hash)
    /\ Height(h) \in lo..(cursorRow.block - 1)
    /\ Shows(h, lo)'

Clear == ShowsNothing'

MirrorNext == Start \/ Extend \/ Retreat \/ Clear

MirrorSpec == ShowsNothing /\ [][MirrorNext]_tables

=============================================================================
