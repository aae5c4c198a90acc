SPECIFICATION CachesSpec
CONSTANTS
  NoHash = NoHash
  t1 = t1
  t2 = t2
  addr = addr
  MaxHeight = 6
  MaxFork = 6
  Label <- MCLabel
  Blocks <- MCBlocks
  Txs <- MCTxs
  Addresses <- MCAddresses
  TxsIn <- MCTxsIn
  AuctionOf <- MCAuctionOf
  FinalityDepth = 2
  StartBlock = 2
  BlockBatchSize = 2
  Confirmations = 2
  HeaderConcurrency = 2
  MaxLoopRetries = 2
  MaxReorgDepth = 3
  Faults = {"rpc", "db", "lostack", "crash", "signal"}
  MidBatchReorgs = TRUE
INVARIANTS
  Canonical
  NeverRollsBack
  CachedIsStored
