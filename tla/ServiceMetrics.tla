--------------------------- MODULE ServiceMetrics ---------------------------
(***************************************************************************)
(* The counters of the metrics service, beside the jobs they count (module *)
(* Recovery, with its operations, its crashes and its events one by one).  *)
(*                                                                         *)
(* The service never recounts its jobs: each event moves a job from its    *)
(* previous state to its new one, each lock and unlock moves the count of  *)
(* its topic, and a start adds up the histories of the loaded jobs.  The   *)
(* admin API and the deletion of all the jobs go past the events.          *)
(***************************************************************************)
EXTENDS Integers, FiniteSets

CONSTANTS MaxJobId, Resources, Needs, MaxRetry, MaxFails, MaxCrashes,  \* of Recovery
  Topics,
  TopicOf,    \* job -> its topic
  MaxUnlocks  \* bound: calls of the admin API

VARIABLES job, lock, todo, admitting, saved, crashes, mixed   \* of Recovery

R == INSTANCE Recovery

ASSUME ServiceMetricsAssumption ==
  /\ MaxJobId \in Nat /\ Needs \in [R!JobIds -> SUBSET Resources]  \* as Recovery assumes
  /\ MaxRetry \in Nat \ {0} /\ MaxFails \in [R!JobIds -> Nat] /\ MaxCrashes \in Nat
  /\ IsFiniteSet(Resources)
  /\ TopicOf \in [R!JobIds -> Topics] /\ MaxUnlocks \in Nat

VARIABLES
  count,     \* topic -> state -> JobMetrics.JobsStatus...
  existing,  \* topic -> JobMetrics.JobsExisting
  deleted,   \* topic -> JobMetrics.JobsCounterDeleted
  locked,    \* topic -> JobMetrics.ResourcesLockedCount
  total,     \* topic -> TopicMetrics.TotalJobs
  active,    \* topic -> TopicMetrics.ActiveJobs
  success,   \* topic -> the ratio TopicMetrics.SuccessRate, as a pair (<<0, 0>>: 0.0)
  owner,     \* ResourceMetricsMap: resource -> the job shown as its owner
  unlocks

serviceVars == <<job, lock, todo, admitting, saved, crashes, mixed>>
stateVars == <<count, existing, deleted, total, active, success>>
metricsVars == <<stateVars, locked, owner>>
vars == <<serviceVars, metricsVars, unlocks>>

Counted == R!States \ {"NoState", "Deleted"}
Working == {"Pending", "Queued", "Running"}
Ended == {"Succeeded", "Failed", "Canceled"}

InTopic(t) == {j \in R!JobIds : TopicOf[j] = t}
LiveIn(t) == {j \in InTopic(t) : job[j].state \in Counted}
LockedFor(locks, t) == {r \in Resources : locks[r] # R!NoJob /\ TopicOf[locks[r]] = t}

Zero == [t \in Topics |-> 0]
Less(n, k) == IF n > k THEN n - k ELSE 0
One(b) == IF b THEN 1 ELSE 0

Init ==
  /\ R!Init
  /\ count = [t \in Topics |-> [s \in Counted |-> 0]]
  /\ existing = Zero /\ deleted = Zero /\ locked = Zero
  /\ total = Zero /\ active = Zero
  /\ success = [t \in Topics |-> <<0, 0>>]
  /\ owner = [r \in Resources |-> R!NoJob]
  /\ unlocks = 0

-----------------------------------------------------------------------------
(* An event of a job.                                                      *)

\* OnJobStateChange: the counters of the topic.
OnJobStateChange(t, old, new) ==
  /\ count' = [count EXCEPT ![t] =
       [s \in Counted |-> LET n == count[t][s]
                          IN  IF old = new THEN n
                              ELSE Less(n, One(s = old)) + One(s = new)]]
  /\ existing' = [existing EXCEPT ![t] = IF new = "Deleted" THEN Less(@, 1) ELSE @ + One(new = "Created")]
  /\ deleted' = [deleted EXCEPT ![t] = @ + One(new = "Deleted")]

\* UpdateTopicMetrics, after it.
UpdateTopicMetrics(t, old, new) ==
  /\ active' = [active EXCEPT ![t] = Less(@, One(old \in Working)) + One(new \in Working)]
  /\ total' = [total EXCEPT ![t] = IF new = "Deleted" THEN Less(@, 1) ELSE @ + One(new = "Created")]
  /\ LET c == count'[t]
     IN  success' = [success EXCEPT ![t] =
           <<c["Succeeded"], c["Succeeded"] + c["Failed"] + c["Canceled"]>>]

\* The resources shown as locked: an active job takes those it needs, whoever had them.
Owners(j, new) ==
  [r \in Resources |->
     IF new \in {"Queued", "Running"} /\ r \in Needs[j] THEN j
     ELSE IF new \in Ended \cup {"Deleted", "Hidden"} /\ owner[r] = j THEN R!NoJob
     ELSE owner[r]]

NewState(e) == R!After(e)

\* The service's event, and ServiceMetrics.NotifyJobEvent.
NotifyJobEvent ==
  /\ R!Notify
  /\ LET j == todo[1][1]
         old == job[j].state
         new == NewState(todo[1][2])
     IN  /\ OnJobStateChange(TopicOf[j], old, new)
         /\ UpdateTopicMetrics(TopicOf[j], old, new)
         /\ owner' = Owners(j, new)
  /\ UNCHANGED <<locked, unlocks>>

-----------------------------------------------------------------------------
(* The locks.                                                              *)

\* Mutant: a job that loses its locks counts one.
CountOneRelease ==
  locked' = [t \in Topics |->
    LET before == LockedFor(lock, t)
        after == LockedFor(lock', t)
    IN  Less(locked[t], One(before \ after # {})) + Cardinality(after \ before)]

\* UpdateResourcesLockedCountMetric, with what a job acquired or released.
UpdateResourcesLockedCountMetric ==
  locked' = [t \in Topics |->
    LET before == LockedFor(lock, t)
        after == LockedFor(lock', t)
    IN  Less(locked[t], Cardinality(before \ after)) + Cardinality(after \ before)]

LockStep ==
  /\ R!Operation \/ R!Admit
  /\ UpdateResourcesLockedCountMetric
  /\ UNCHANGED <<stateVars, owner, unlocks>>

\* The admin API, between operations, then tryEnqueuePendingJobsLocked.
UnlockResource(r) ==
  /\ R!Idle /\ unlocks < MaxUnlocks
  /\ lock[r] # R!NoJob
  /\ lock' = [lock EXCEPT ![r] = R!NoJob]
  /\ admitting' = TRUE
  /\ locked' = [locked EXCEPT ![TopicOf[lock[r]]] = Less(@, 1)]
  /\ owner' = [owner EXCEPT ![r] = R!NoJob]
  /\ unlocks' = unlocks + 1
  /\ UNCHANGED <<job, todo, saved, crashes, mixed, stateVars>>

UnlockAllResources ==
  /\ R!Idle /\ unlocks < MaxUnlocks
  /\ lock' = [r \in Resources |-> R!NoJob]
  /\ admitting' = TRUE
  /\ locked' = Zero
  /\ owner' = [r \in Resources |-> R!NoJob]
  /\ unlocks' = unlocks + 1
  /\ UNCHANGED <<job, todo, saved, crashes, mixed, stateVars>>

-----------------------------------------------------------------------------
(* All the jobs at once.                                                   *)

\* DeleteAllJobs: OnUnlockAllResources, then OnDeleteAllJobs.
OnDeleteAllJobs ==
  /\ R!DeleteAllJobs
  /\ count' = [t \in Topics |-> [s \in Counted |-> 0]]
  /\ existing' = Zero /\ locked' = Zero /\ total' = Zero /\ active' = Zero
  /\ success' = [t \in Topics |-> <<0, 0>>]
  /\ deleted' = [t \in Topics |-> deleted[t] + existing[t]]
  /\ owner' = [r \in Resources |-> R!NoJob]
  /\ UNCHANGED unlocks

Loaded(t, S) == Cardinality({j \in InTopic(t) : job'[j].state \in S})

\* Mutant: the metrics service of the run before counts on.
LoadOnTop ==
  /\ R!CrashAndLoadJobs
  /\ count' = [t \in Topics |-> [s \in Counted |-> count[t][s] + Loaded(t, {s})]]
  /\ existing' = [t \in Topics |-> existing[t] + Loaded(t, Counted)]
  /\ total' = [t \in Topics |-> total[t] + Loaded(t, Counted)]
  /\ active' = [t \in Topics |-> active[t] + Loaded(t, Working)]
  /\ UNCHANGED <<deleted, success, locked, owner, unlocks>>

\* A new process: UpdateMetricsFromJobHistory for each loaded job, then the lock counts.
\* The state changes of a history add up to its last state.  The last of the jobs that
\* claim a resource is shown as its owner.
UpdateMetricsFromJobHistory ==
  /\ R!CrashAndLoadJobs
  /\ count' = [t \in Topics |-> [s \in Counted |-> Loaded(t, {s})]]
  /\ existing' = [t \in Topics |-> Loaded(t, Counted)]
  /\ total' = [t \in Topics |-> Loaded(t, Counted)]
  /\ active' = [t \in Topics |-> Loaded(t, Working)]
  /\ deleted' = Zero
  /\ success' = [t \in Topics |-> <<0, 0>>]
  /\ locked' = [t \in Topics |-> Cardinality(LockedFor(lock', t))]
  /\ owner' = [r \in Resources |-> R!LoadedLock(job', r)]
  /\ UNCHANGED unlocks

SaveStep == R!Save /\ UNCHANGED <<metricsVars, unlocks>>

-----------------------------------------------------------------------------
Next ==
  \/ NotifyJobEvent \/ LockStep \/ SaveStep
  \/ \E r \in Resources : UnlockResource(r)
  \/ UnlockAllResources \/ OnDeleteAllJobs \/ UpdateMetricsFromJobHistory

Spec == Init /\ [][Next]_vars

-----------------------------------------------------------------------------

\* The counters by state are those of the jobs, after any events, restarts and deletions.
StatesAreCounted ==
  \A t \in Topics :
    /\ existing[t] = Cardinality(LiveIn(t))
    /\ \A s \in Counted : count[t][s] = Cardinality({j \in InTopic(t) : job[j].state = s})

\* The totals of the topics, kept by another function, agree with the counters.
TotalsAgree ==
  \A t \in Topics :
    /\ total[t] = existing[t]
    /\ active[t] = count[t]["Pending"] + count[t]["Queued"] + count[t]["Running"]

\* So does the success rate, which no restart restores.
SuccessRateAgrees ==
  crashes = 0 =>
    \A t \in Topics :
      LET c == count[t]
      IN  success[t] = <<c["Succeeded"], c["Succeeded"] + c["Failed"] + c["Canceled"]>>

\* Counted one event at a time, the jobs of a topic are what a recount would find.
CountsAreRight == StatesAreCounted /\ TotalsAgree /\ SuccessRateAgrees

\* The locks counted for a topic are those its jobs hold, the admin API included; between
\* operations the resources shown as locked are the locked ones, with their owners, as
\* long as no two active jobs claim a resource (UnlockResource takes it away from its
\* owner, or mixed copies were loaded).
LocksAreShown ==
  /\ \A t \in Topics : locked[t] = Cardinality(LockedFor(lock, t))
  /\ R!Idle /\ unlocks = 0 /\ ~mixed => owner = lock
=============================================================================
