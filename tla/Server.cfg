\* Two runs, two requests that need not end, a change.
SPECIFICATION FairSpec
CONSTANTS
  Requests = {q1, q2}
  MaxRuns = 2
  MaxChanges = 1
INVARIANTS
  RunsEndCleanly
PROPERTIES
  StopEnds
CHECK_DEADLOCK FALSE
