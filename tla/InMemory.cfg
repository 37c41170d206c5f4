\* Two jobs, three changes (and the jobs an earlier run left), a failed write.
SPECIFICATION FairSpec
CONSTANTS
  Jobs = {j1, j2}
  MaxJobs = 2
  MaxChanges = 4
  MaxFaults = 1
INVARIANTS
  FileIsRight
PROPERTIES
  ChangesAreSaved
