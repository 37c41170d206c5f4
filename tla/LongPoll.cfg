\* Two polls, two jobs of two topics, queued twice in all.
SPECIFICATION FairSpec
CONSTANTS
  Polls = {p1, p2}
  Jobs = {1, 2}
  Topics = {"a", "b"}
  TopicOf <- MCTopicOf
  NumJobs = 1
  MaxQueued = 2
INVARIANTS
  PollsAreRight
PROPERTIES
  PollsEnd
