----------------------------- MODULE QueueParts -----------------------------
(***************************************************************************)
(* Two views of the jobs, beside each other: the index of the queued jobs, *)
(* and the list that clients read.  They share no state; each property is  *)
(* that of its part, under its own name.                                   *)
(***************************************************************************)
EXTENDS Naturals, Sequences, FiniteSets

\* The parameters and variables of the index of the queued jobs, ...
CONSTANTS Ranks, IndexTopics, TopicOfRank, MaxFirst
VARIABLES all, byTopic, answer

\* ... and those of the list of the jobs.
CONSTANTS MaxJobs, Statuses, ListTopics, Sorts, Filters, Limits, MaxTime
VARIABLES jobs, now, client

QI == INSTANCE QueueIndex WITH Jobs <- Ranks, Topics <- IndexTopics, TopicOf <- TopicOfRank
JL == INSTANCE JobList WITH Topics <- ListTopics

ASSUME IndexAssumption ==
  /\ Ranks \subseteq Nat /\ TopicOfRank \in [Ranks -> IndexTopics] /\ QI!Any \notin IndexTopics
  /\ MaxFirst \in Nat

Criterion == [field : {"created", "updated", "priority", "topic"}, desc : BOOLEAN]

ASSUME ListAssumption ==
  /\ IsFiniteSet(ListTopics) /\ MaxJobs \in Nat
  /\ Sorts \subseteq Seq(Criterion) /\ Limits \subseteq Nat \ {0}

\* The heaps give the queued jobs in pull order, whatever was added and removed (queue.go).
IndexIsRight == QI!IndexIsRight

\* What a client reads page by page is the list (Service.GetJobs).
PagesAreRight == JL!PagesAreRight
=============================================================================
