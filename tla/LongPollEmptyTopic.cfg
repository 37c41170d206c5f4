\* A poll without a topic and a job that has one.
SPECIFICATION Spec
CONSTANTS
  Polls = {p1}
  Jobs = {1, 2}
  Topics = {"", "b"}
  TopicOf <- DefaultTopicOf
  NumJobs = 1
  MaxQueued = 2
INVARIANTS
  EmptyTopicMeansAny
