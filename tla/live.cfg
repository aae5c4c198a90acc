SPECIFICATION FairSpec
CONSTANTS
  NoHash = NoHash
  t1 = t1
  t2 = t2
  addr = addr
  MaxHeight = 3
  MaxFork = 1
  Label <- MCLabel
  Blocks <- MCBlocks
  Txs <- MCTxs
  Addresses <- MCAddresses
  TxsIn <- MCTxsIn
  AuctionOf <- MCAuctionOf
  FinalityDepth = 8
  StartBlock = 0
  BlockBatchSize = 2
  Confirmations = 0
  HeaderConcurrency = 2
  MaxLoopRetries = 2
  MaxReorgDepth = 8
  Faults = {"rpc", "db"}
  MidBatchReorgs = TRUE
PROPERTIES
  CatchesUp
