SPECIFICATION TxSpec
CONSTANTS
  NoHash = NoHash
  t1 = t1
  t2 = t2
  addr = addr
  t3 = t3
  t4 = t4
  addr2 = addr2
  MaxHeight = 4
  MaxFork = 2
  Label <- MCLabel
  Blocks <- MCBlocks
  Txs <- MCTxTxs
  Addresses <- MCTxAddresses
  TxsIn <- MCTxTxsIn
  AuctionOf <- MCTxAuctionOf
  FinalityDepth = 8
  StartBlock = 0
  BlockBatchSize = 2
  Confirmations = 0
  HeaderConcurrency = 2
  MaxLoopRetries = 2
  MaxReorgDepth = 3
  Faults = {"rpc", "db", "lostack", "crash", "signal"}
  MidBatchReorgs = FALSE
  Poison <- MCPoison
INVARIANTS
  NothingSkipped
PROPERTIES
  ImplementsIndexer
