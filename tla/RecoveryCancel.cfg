\* A crash in the middle of a cancellation.
SPECIFICATION Spec
CONSTANTS
  MaxJobId = 2
  Resources = {"r1", "r2"}
  Needs <- MCNeeds
  MaxRetry = 2
  MaxFails <- MCMaxFails
  MaxCrashes = 1
INVARIANTS
  CanceledIsQueuedAgain
CHECK_DEADLOCK FALSE
