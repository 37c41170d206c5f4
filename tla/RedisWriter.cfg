\* Two jobs, three operations, pipelines of two, a request and a restart; Redis may fail for ever.
SPECIFICATION FairProviderSpec
CONSTANTS
  Keys = {k1, k2}
  Requests = {q1}
  MaxOps = 3
  MaxBatch = 2
  FinishedJobTTL = 1
  MaxRestarts = 1
INVARIANTS
  RedisIsRight
PROPERTIES
  NoOlderVersion
  RestartLosesOnlyWhatWaits
  NobodyWaitsForRedis
  SavedInTheEnd
CHECK_DEADLOCK FALSE
