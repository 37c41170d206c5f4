\* Three jobs, two at a time, under the fairness of the service loop.
SPECIFICATION FairSpec
CONSTANTS
  MaxJobId = 3
  Resources = {"r1", "r2"}
  Topics = {"a"}
  Requests <- ConflictingRequests
  MaxAllowedJobs = 2
  BackendMaxJobs = 2
  MaxRetry = 2
  RetryDelay <- ImmediateThenDelayed
  MaxVisibilityTimeout = 1
  MaxPull = 1
  RetentionMaxJobs = 1
  RetentionMaxAge = 1
  AgeCap = 2
INVARIANTS
  RetryBudget
  LimitsHold
PROPERTIES
  ImplementsJobQueue
  RetentionIsRight
  RunningEnds
  WaitingEnds
