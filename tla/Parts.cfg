\* Some parts really stop.
SPECIFICATION PartsSpec
CONSTANTS
  \* Two goroutines that want to run the loop, three that stop it.
  Loops = {l1, l2}
  Callers = {c1, c2, c3}
  \* Two jobs, three callbacks, one slot, two attempts, a restart.
  Jobs = {"i", "j"}
  Slots = 1
  MaxAttempts = 2
  MaxCallbacks = 3
  MaxRestarts = 1
  \* Three jobs, pages of two.
  MaxJobs = 3
  Statuses = {"queued", "running"}
  ListTopics = {"a"}
  Sorts <- MCSorts
  Filters <- MCFilters
  Limits = {2}
  MaxTime = 2
  \* Six jobs of two topics.
  Ranks <- MCRanks
  IndexTopics = {"a", "b"}
  TopicOfRank <- MCTopicOfRank
  MaxFirst = 2
  \* Three values, two priorities, four insertions.
  Values = {"v", "w", "x"}
  Priorities = {1, 2}
  MaxTickets = 4
INVARIANTS
  StopIsRight
  EndsAreTold
  PagesAreRight
  IndexIsRight
PROPERTIES
  ImplementsDelayQueue
CHECK_DEADLOCK FALSE
