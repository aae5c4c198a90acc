------------------------------- MODULE Store -------------------------------
(***************************************************************************)
(* The PostgreSQL tables of one chain (internal/store): the variables hold *)
(* what is committed, and the operators say what each statement of the     *)
(* repositories does to a table.  Every INSERT of the repositories ends in *)
(* ON CONFLICT DO NOTHING: a row whose primary key is taken is dropped and *)
(* the row already there is kept.                                          *)
(*                                                                         *)
(*   cursorRow      indexer_cursors            key chain_id                *)
(*   indexedBlocks  indexed_blocks             key block_number            *)
(*   rawEvents      raw_events                 key block_number, tx_hash   *)
(*   auctions       event_ccaf_auction_created key auction_address         *)
(*                                                                         *)
(* A transaction emits one AuctionCreated log, so log_index is left out of *)
(* the key; parent_hash, a function of block_hash that no statement reads, *)
(* is left out of indexed_blocks.                                          *)
(***************************************************************************)
EXTENDS Ethereum

VARIABLES cursorRow, indexedBlocks, rawEvents, auctions

tables == <<cursorRow, indexedBlocks, rawEvents, auctions>>

CursorRow == [block : Nat, hash : Blocks \cup {NoHash}]
EventRow == [block : Nat, tx : Txs, hash : Blocks]
AuctionRow == [address : Addresses, block : Nat, tx : Txs]

\* blockRepo.GetHash: no row reads as the zero hash.
GetHash(blocks, n) == IF n \in DOMAIN blocks THEN blocks[n] ELSE NoHash

\* blockRepo.Insert for every header of a batch.
InsertBlocks(blocks, headers) ==
  [n \in DOMAIN blocks \cup DOMAIN headers |->
     IF n \in DOMAIN blocks THEN blocks[n] ELSE headers[n]]

DeleteBlocksFrom(blocks, from) ==
  [n \in {m \in DOMAIN blocks : m < from} |-> blocks[n]]

\* rawEventRepo.Insert for every log of a batch.
InsertRawEvents(rows, logs) ==
  rows \cup {l \in logs : \A r \in rows : ~ (r.block = l.block /\ r.tx = l.tx)}

\* The row AuctionCreatedHandler.Handle derives from a log.
AuctionFrom(l) == [address |-> AuctionOf[l.tx], block |-> l.block, tx |-> l.tx]
AuctionsFrom(logs) == {AuctionFrom(l) : l \in logs}

\* auctionRepo.Insert for every log of a batch.
InsertAuctions(rows, logs) ==
  rows \cup {a \in AuctionsFrom(logs) : \A r \in rows : r.address # a.address}

\* DeleteFromBlock of rawEventRepo and of auctionRepo.
DeleteRowsFrom(rows, from) == {r \in rows : r.block < from}

\* The schema is migrated and empty; Get on an absent cursor reads as block 0.
StoreInit ==
  /\ cursorRow = [block |-> 0, hash |-> NoHash]
  /\ indexedBlocks = [n \in {} |-> NoHash]
  /\ rawEvents = {}
  /\ auctions = {}

=============================================================================
