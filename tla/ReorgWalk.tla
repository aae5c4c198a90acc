----------------------------- MODULE ReorgWalk -----------------------------
(***************************************************************************)
(* The walk of handleReorg, one call to the node per block, while the      *)
(* chain moves under it.  The history variable moved says whether a reorg  *)
(* has come between two calls of the walk in work.                         *)
(***************************************************************************)
EXTENDS IndexerProperties

VARIABLE moved

Walking == pc \in {"walk", "rollback"}

FollowChain == moved' = (Walking' /\ (moved \/ ~ IsAncestor(tip, tip')))

WalkInit == Init /\ moved = FALSE
WalkNext == Next /\ FollowChain
WalkSpec == WalkInit /\ [][WalkNext]_<<vars, moved>>

\* A rollback takes no more than it must: the blocks it deletes have all left
\* the chain, unless the chain has come back to them since they were compared.
LosesOnlyOrphans ==
  [][~ moved => DOMAIN indexedBlocks \ DOMAIN indexedBlocks' \subseteq Orphaned]_tables

\* It takes all of them: what is left is the part of the rows that the new branch
\* has in common with the old one.
TakesAllOrphans ==
  [][~ moved /\ pc = "rollback" =>
       DOMAIN indexedBlocks \ DOMAIN indexedBlocks' = Orphaned]_tables

\* "reorg deeper than 128 blocks" (internal/indexer/reorg.go:65) is said only if
\* that many stored blocks have left the chain, or all of them, where there are
\* fewer, unless the chain has come back.
DeepIsDeep ==
  [][~ moved /\ exit # "deep" /\ exit' = "deep" =>
       /\ cursor \in Orphaned
       /\ Cardinality(Orphaned) >= MaxReorgDepth \/ Orphaned = DOMAIN indexedBlocks]_exit

=============================================================================
