------------------------------ MODULE LongPoll ------------------------------
(***************************************************************************)
(* Long polls (Service.PullJobs): a pull that finds no job waits until a   *)
(* job is queued, its wait time is over, or the service stops.             *)
(*                                                                         *)
(* Between two searches a poll does not hold the mutex: it waits on the    *)
(* channel svc.queued it read under the mutex.  notifyQueuedLocked closes  *)
(* that channel and makes another one; channels are numbered here, and all *)
(* but the last are closed.  Which of the candidates a pull takes is in    *)
(* module Scheduler.                                                       *)
(***************************************************************************)
EXTENDS Naturals, FiniteSets

CONSTANTS
  Polls,      \* the requests that pull jobs
  Jobs, Topics,
  TopicOf,    \* job -> topic
  NumJobs,    \* jobs asked for by a pull
  MaxQueued   \* bound: how many times a job is queued

AnyTopic == "*"

ASSUME LongPollAssumption ==
  /\ TopicOf \in [Jobs -> Topics] /\ AnyTopic \notin Topics
  /\ NumJobs \in Nat \ {0} /\ MaxQueued \in Nat

VARIABLES
  queuedJobs,  \* svc.queuedJobs
  queued,      \* svc.queued: the number of the channel that is still open
  stopping,    \* svc.stopping is closed
  poll         \* the state of each poll

vars == <<queuedJobs, queued, stopping, poll>>

(* over: the deadline has passed; last, wake: the variables of PullJobs;   *)
(* got: the jobs of the answer; notified: EmptyPollReceived events.        *)
NewPoll(t, o) == [pc |-> "start", topic |-> t, over |-> o, last |-> FALSE, wake |-> 0,
                  got |-> {}, notified |-> 0]

Init ==
  /\ queuedJobs = {} /\ queued = 1 /\ stopping = FALSE
  /\ poll = [p \in Polls |-> [NewPoll(AnyTopic, FALSE) EXCEPT !.pc = "answered"]]

Candidates(p) == {j \in queuedJobs : poll[p].topic \in {AnyTopic, TopicOf[j]}}
Polling(p) == poll[p].pc # "answered"

-----------------------------------------------------------------------------
\* Mutant: a way to the queue that does not wake the polls.
EnqueueSilently(j) ==
  /\ queued <= MaxQueued
  /\ j \notin queuedJobs
  /\ queuedJobs' = queuedJobs \cup {j}
  /\ UNCHANGED <<queued, stopping, poll>>

\* Every way to the queue (enqueueJobLocked, retryJobLocked, CancelJob) ends with
\* notifyQueuedLocked, under the same mutex.
Enqueue(j) ==
  /\ queued <= MaxQueued
  /\ j \notin queuedJobs
  /\ queuedJobs' = queuedJobs \cup {j}
  /\ queued' = queued + 1
  /\ UNCHANGED <<stopping, poll>>

\* A job leaves the queue otherwise: DeleteJob, PullSpecificJob.
Leave(j) ==
  /\ j \in queuedJobs
  /\ queuedJobs' = queuedJobs \ {j}
  /\ UNCHANGED <<queued, stopping, poll>>

BeginShutdown ==
  /\ ~stopping
  /\ stopping' = TRUE
  /\ UNCHANGED <<queuedJobs, queued, poll>>

-----------------------------------------------------------------------------
\* A request that does not wait has its deadline behind it.
PullJobs(p, t, o) ==
  /\ ~Polling(p)
  /\ poll' = [poll EXCEPT ![p] = NewPoll(t, o)]
  /\ UNCHANGED <<queuedJobs, queued, stopping>>

Expire(p) ==
  /\ Polling(p) /\ ~poll[p].over
  /\ poll' = [poll EXCEPT ![p].over = TRUE]
  /\ UNCHANGED <<queuedJobs, queued, stopping>>

\* The deadline is read before the mutex is taken.
ReadClock(p) ==
  /\ poll[p].pc = "start"
  /\ poll' = [poll EXCEPT ![p].pc = "search", ![p].last = poll[p].over]
  /\ UNCHANGED <<queuedJobs, queued, stopping>>

\* pullJobsOnce, when there are candidates: they are started under the same mutex.
StartCandidates(p) ==
  /\ poll[p].pc = "search"
  /\ \E C \in SUBSET Candidates(p) :
       /\ C # {}
       /\ Cardinality(C) = NumJobs \/ (Cardinality(C) < NumJobs /\ C = Candidates(p))
       /\ queuedJobs' = queuedJobs \ C
       /\ poll' = [poll EXCEPT ![p].pc = "answered", ![p].got = C]
  /\ UNCHANGED <<queued, stopping>>

\* Mutant: each search in vain is an empty poll.
NotifyEachSearch(p) ==
  /\ poll[p].pc = "search"
  /\ Candidates(p) = {}
  /\ poll' = [poll EXCEPT ![p].pc = IF poll[p].last THEN "answered" ELSE "wait",
                          ![p].wake = queued,
                          ![p].notified = @ + 1]
  /\ UNCHANGED <<queuedJobs, queued, stopping>>

\* pullJobsOnce, when there are none: svc.queued is read under the same mutex.
FindNothing(p) ==
  /\ poll[p].pc = "search"
  /\ Candidates(p) = {}
  /\ poll' = [poll EXCEPT ![p].pc = IF poll[p].last THEN "answered" ELSE "wait",
                          ![p].wake = queued,
                          ![p].notified = IF poll[p].last THEN @ + 1 ELSE @]
  /\ UNCHANGED <<queuedJobs, queued, stopping>>

\* The select: the channel, the timer, ...
WakeUp(p) ==
  /\ poll[p].pc = "wait"
  /\ poll[p].wake # queued \/ poll[p].over
  /\ poll' = [poll EXCEPT ![p].pc = "start"]
  /\ UNCHANGED <<queuedJobs, queued, stopping>>

\* Mutant: the stop is seen at the deadline only.
StopAtDeadline(p) ==
  /\ poll[p].pc = "wait"
  /\ stopping /\ poll[p].over
  /\ poll' = [poll EXCEPT ![p].pc = "search", ![p].last = TRUE]
  /\ UNCHANGED <<queuedJobs, queued, stopping>>

\* ... or the end of the service: a last search.
StopWaiting(p) ==
  /\ poll[p].pc = "wait"
  /\ stopping
  /\ poll' = [poll EXCEPT ![p].pc = "search", ![p].last = TRUE]
  /\ UNCHANGED <<queuedJobs, queued, stopping>>

PollStep(p) ==
  ReadClock(p) \/ StartCandidates(p) \/ FindNothing(p) \/ WakeUp(p) \/ StopWaiting(p)

Next ==
  \/ \E j \in Jobs : Enqueue(j) \/ Leave(j)
  \/ BeginShutdown
  \/ \E p \in Polls : PollStep(p) \/ Expire(p)
  \/ \E p \in Polls, t \in Topics \cup {AnyTopic}, o \in BOOLEAN : PullJobs(p, t, o)

(* A poll that can go on does.  Nothing is said of the deadlines: what the *)
(* liveness properties promise does not wait for them.                     *)
Fairness == \A p \in Polls : WF_vars(PollStep(p))

Spec == Init /\ [][Next]_vars
FairSpec == Spec /\ Fairness

-----------------------------------------------------------------------------
\* No lost wakeup: while a poll waits on the open channel there is nothing for it in
\* the queue, even when the job came between its search and its select.
NoLostWakeup ==
  \A p \in Polls : poll[p].pc = "wait" /\ poll[p].wake = queued => Candidates(p) = {}

\* The metric of the empty polls: a poll counts once if it got no job, whatever woke it
\* up meanwhile, and not at all if it got one.
EmptyPollCountsOnce ==
  \A p \in Polls :
    /\ poll[p].got # {} => poll[p].notified = 0
    /\ poll[p].pc = "wait" => poll[p].notified = 0
    /\ poll[p].pc = "answered" /\ poll[p].wake # 0 /\ poll[p].got = {} => poll[p].notified = 1

\* What a poll sees and what is counted of it agree with the queue, whatever came between
\* its searches.
PollsAreRight == NoLostWakeup /\ EmptyPollCountsOnce

\* A queued job does not stay beside a poll that waits for one: the job goes, or the
\* poll has its answer, long before the deadline.
QueuedJobIsPulled ==
  \A p \in Polls, j \in Jobs :
    (Polling(p) /\ j \in Candidates(p)) ~> (~Polling(p) \/ j \notin queuedJobs)

\* What iservice.go:12 says of the topic of a pull: "if empty pull from any topic".  A
\* poll without a topic would then never wait beside a queued job.
EmptyTopicMeansAny ==
  \A p \in Polls :
    poll[p].pc = "wait" /\ poll[p].topic = "" /\ poll[p].wake = queued => queuedJobs = {}

\* When the service stops every poll is answered at once: the HTTP server can stop.
StopEndsPolls == \A p \in Polls : (stopping /\ Polling(p)) ~> ~Polling(p)

\* Both, together: no poll waits for nothing.
PollsEnd == QueuedJobIsPulled /\ StopEndsPolls
=============================================================================
