----------------------------- MODULE MCScheduler -----------------------------
(* Instances of Scheduler for TLC. *)
EXTENDS Scheduler

\* Two jobs that fight for r1 with different priorities, and a delayed one.
ConflictingRequests ==
  {[res |-> {"r1"}, prio |-> 0, topic |-> "a", delay |-> 0],
   [res |-> {"r1", "r2"}, prio |-> 1, topic |-> "a", delay |-> 0],
   [res |-> {"r2"}, prio |-> 0, topic |-> "a", delay |-> 1]}

\* Independent jobs in two topics.
TopicRequests ==
  {[res |-> {}, prio |-> 0, topic |-> "a", delay |-> 0],
   [res |-> {"r1"}, prio |-> 1, topic |-> "b", delay |-> 0]}

\* Jobs that fight for r1, or free ones that start later.
LivenessRequests ==
  {[res |-> {"r1"}, prio |-> 0, topic |-> "a", delay |-> 0],
   [res |-> {}, prio |-> 1, topic |-> "a", delay |-> 1]}

\* The first retry is immediate, the next ones wait.
ImmediateThenDelayed == [n \in 1 .. MaxRetry |-> IF n = 1 THEN 0 ELSE 1]
=============================================================================
