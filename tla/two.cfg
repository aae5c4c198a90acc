SPECIFICATION FairSpec
CONSTANTS
  Processes = {"p", "q"}
  StartBlock = 2
  BlockBatchSize = 2
  HasLog = {2, 3}
  MaxSafeHead = 4
  MaxFaults = 2
INVARIANTS
  NothingMissing
  NoDeadlock
PROPERTIES
  EveryBlockStored
CHECK_DEADLOCK FALSE
