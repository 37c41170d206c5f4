\* Two jobs in two topics, a crash, one call of the admin API; then a load test of two jobs.
SPECIFICATION CountsSpec
CONSTANTS
  MaxJobId = 2
  Resources = {"r1", "r2"}
  Topics = {"a", "b"}
  Needs <- MCNeeds
  TopicOf <- MCTopicOf
  MaxRetry = 2
  MaxFails <- MCMaxFails
  MaxCrashes = 1
  MaxUnlocks = 1
  Jobs = {"i", "j"}
  TestResources = {}
  Settings <- TestSettings
INVARIANTS
  CountsAreRight
  LocksAreShown
  EachEndCountsOnce
PROPERTIES
  TestEnds
CHECK_DEADLOCK FALSE
