\* Three jobs in a chain of two resources, a crash at any event.
SPECIFICATION FairSpec
CONSTANTS
  MaxJobId = 3
  Resources = {"r1", "r2"}
  Needs <- MCNeeds
  MaxRetry = 2
  MaxFails <- MCMaxFails
  MaxCrashes = 1
INVARIANTS
  RecoveryIsConsistent
  CrashCostsOneFailure
  SavedEndIsFinal
PROPERTIES
  PendingIsServed
CHECK_DEADLOCK FALSE
