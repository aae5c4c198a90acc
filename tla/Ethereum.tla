------------------------------ MODULE Ethereum ------------------------------
(***************************************************************************)
(* The EVM chain as the indexer sees it through eth.Client                 *)
(* (internal/eth/client.go): BlockNumber, HeaderByNumber and FilterLogs,   *)
(* each answered from the canonical chain of the moment of the call.       *)
(*                                                                         *)
(* A block hash commits to the whole ancestry of its block, so a hash is   *)
(* modelled by that ancestry: the sequence of the labels of the blocks     *)
(* from height 1 up.  Genesis is the empty sequence, the height of a hash  *)
(* is its length, and its ancestor at height n is its prefix of length n.  *)
(* Blocks is the tree of all the blocks that can ever be canonical.        *)
(***************************************************************************)
EXTENDS Integers, Sequences

CONSTANTS
  Label,          \* what distinguishes two children of one block
  Blocks,         \* the block tree: a prefix-closed set of hashes
  NoHash,         \* common.Hash{}, the hash no block has
  Txs,            \* the transactions that make the factory emit AuctionCreated
  Addresses,      \* auction addresses
  TxsIn,          \* TxsIn[h]: the transactions in the body of block h
  AuctionOf,      \* AuctionOf[t]: the address of the auction t creates
  FinalityDepth   \* a block this far below the highest head seen is final

Genesis == << >>
Height(h) == Len(h)
AncestorAt(h, n) == SubSeq(h, 1, n)

ASSUME BlockTreeAssumption ==
  /\ Blocks \subseteq Seq(Label)
  /\ Genesis \in Blocks
  /\ \A h \in Blocks : \A n \in 0..Height(h) : AncestorAt(h, n) \in Blocks
  /\ NoHash \notin Blocks
  /\ FinalityDepth \in Nat

\* A transaction is included once on a branch, and an address is created once.
ASSUME TxAssumption ==
  /\ TxsIn \in [Blocks -> SUBSET Txs]
  /\ AuctionOf \in [Txs -> Addresses]
  /\ \A h \in Blocks : \A m, n \in 1..Height(h) :
       \A t \in TxsIn[AncestorAt(h, m)], u \in TxsIn[AncestorAt(h, n)] :
         AuctionOf[t] = AuctionOf[u] => m = n /\ t = u

VARIABLES
  tip,    \* the head of the canonical chain
  final   \* the height up to which the canonical chain can no longer change

chainVars == <<tip, final>>

IsAncestor(g, h) == Height(g) <= Height(h) /\ AncestorAt(h, Height(g)) = g

LogsAt(h, n) ==
  {[block |-> n, tx |-> t, hash |-> AncestorAt(h, n)] : t \in TxsIn[AncestorAt(h, n)]}

LogsIn(h, heights) == UNION {LogsAt(h, n) : n \in heights}

\* FilterLogs over the range lo..hi when h is the head: a node answers from
\* the blocks it has, so a range that reaches beyond the head is cut there.
LogsOf(h, lo, hi) == LogsIn(h, {n \in lo..hi : n <= Height(h)})

\* HeaderByNumber answers when block n exists ...
HasHeader(n) == n <= Height(tip)
\* ... with the hash of the canonical block of that height.
HeaderAt(n) == AncestorAt(tip, n)

FinalOnce(h) ==
  IF Height(h) - FinalityDepth > final THEN Height(h) - FinalityDepth ELSE final

ChainInit ==
  /\ tip = Genesis
  /\ final = 0

\* The canonical chain grows by a block.
Mine(h) ==
  /\ Height(h) = Height(tip) + 1
  /\ IsAncestor(tip, h)
  /\ tip' = h
  /\ final' = FinalOnce(h)

\* Another branch becomes canonical.  It keeps the final blocks; it may be
\* shorter (evm_revert, a node that lags behind) or return to an old branch.
Reorg(h) ==
  /\ h # tip
  /\ ~ (Height(h) = Height(tip) + 1 /\ IsAncestor(tip, h))
  /\ final <= Height(h)
  /\ AncestorAt(h, final) = AncestorAt(tip, final)
  /\ tip' = h
  /\ final' = FinalOnce(h)

=============================================================================
