\* Two jobs, a clock of four half seconds and a restart; timeouts missing, equal and too long.
SPECIFICATION Spec
CONSTANTS
  Jobs = {j1, j2}
  Second = 2
  DefaultTimeout = 2
  MaxTimeout = 2
  Configs <- MCConfigs
  Queries = {0, 1, 3}
  StartDates = {0, 2}
  StartDelays = {0, 1}
  MaxTime = 4
  MaxLoads = 1
INVARIANTS
  ExpiredHadTheirTime
  RunIsBounded
PROPERTIES
  DelaysAreRight
SYMMETRY Symmetry
