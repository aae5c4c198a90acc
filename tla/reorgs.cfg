SPECIFICATION Spec
CONSTANTS
  NoHash = NoHash
  t1 = t1
  t2 = t2
  addr = addr
  MaxHeight = 4
  MaxFork = 3
  Label <- MCLabel
  Blocks <- MCBlocks
  Txs <- MCTxs
  Addresses <- MCAddresses
  TxsIn <- MCTxsIn
  AuctionOf <- MCAuctionOf
  FinalityDepth = 8
  StartBlock = 0
  BlockBatchSize = 2
  Confirmations = 0
  HeaderConcurrency = 2
  MaxLoopRetries = 2
  MaxReorgDepth = 3
  Faults = {"rpc", "db", "crash", "signal"}
  MidBatchReorgs = TRUE
INVARIANTS
  TypeOK
  CursorIsTop
  RowsAreRelated
  CursorIsDurable
PROPERTIES
  RowsMoveWithCursor
