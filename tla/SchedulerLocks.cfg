\* Three jobs that compete for two resources.
SPECIFICATION Spec
CONSTANTS
  MaxJobId = 3
  Resources = {"r1", "r2"}
  Topics = {"a"}
  Requests <- ConflictingRequests
  MaxAllowedJobs = 0
  BackendMaxJobs = 0
  MaxRetry = 2
  RetryDelay <- ImmediateThenDelayed
  MaxVisibilityTimeout = 1
  MaxPull = 1
  RetentionMaxJobs = 1
  RetentionMaxAge = 1
  AgeCap = 1
INVARIANTS
  TypeOK
  OneContainer
  LocksMatchJobs
  ExclusiveUse
  PendingIsBlocked
PROPERTIES
  CompletedIsFinal
  NoOvertaking
