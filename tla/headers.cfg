SPECIFICATION FairFetchSpec
CONSTANTS
  Requests = {1, 2, 3}
  MaxRetries = 1
  BatchLength = 3
  HeaderConcurrency = 2
INVARIANTS
  NoBodyLeaks
  WholeBodySent
  NotGivenUpEarly
  WithinLimit
  FetchedInOrder
  AllSlotsFilled
  NothingLeftRunning
PROPERTIES
  CancelEndsGroup
CHECK_DEADLOCK FALSE
