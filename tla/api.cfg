SPECIFICATION FairSpec
CONSTANTS
  Requests = {1, 2}
  PoolSize = 1
  Signals = TRUE
INVARIANTS
  TypeOK
  GracefulMeansServed
  ServesMigrated
  LogTellsStatus
  OnlyAuctionsCached
PROPERTIES
  EndsWhenTold
  HealthAnswers
CHECK_DEADLOCK FALSE
