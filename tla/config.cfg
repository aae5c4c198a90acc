SPECIFICATION FairSpec
CONSTANTS
  Modulus = 16
  DefaultBatchSize = 3
  Unset = Unset
  Junk = Junk
  Error = Error
  Envs <- MCEnvs
  MaxHead = 7
  MaxLoopRetries = 2
INVARIANTS
  TypeOK
  RangeIsSound
  PanicMeansMisconfigured
  RunsAsConfigured
PROPERTIES
  AdvancesOrEnds
CHECK_DEADLOCK FALSE
