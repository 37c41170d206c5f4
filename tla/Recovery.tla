------------------------------ MODULE Recovery ------------------------------
(***************************************************************************)
(* Crashes and recovery.  An operation of the service changes its jobs one *)
(* event at a time and notifies the backend of each: a crash may come      *)
(* between two copies of the same operation, or long after, and            *)
(* Service.LoadJobs starts again from the copies that were saved.          *)
(*                                                                         *)
(* Copies are saved in the order they were notified, by the file (a copy   *)
(* of the map) and by the Redis writer alike: what was saved is the state  *)
(* of the jobs at some earlier event.  Only a pipeline of Redis that fails *)
(* leaves the copies of some jobs newer than those of others, until it is  *)
(* sent again: a crash may come first.  Module Scheduler has the operations *)
(* in full; here the topics, delays and ages are left out, and priorities  *)
(* are the numbers of the jobs.                                            *)
(***************************************************************************)
EXTENDS Naturals, Sequences, FiniteSets

CONSTANTS
  MaxJobId,    \* bound: jobs
  Resources,
  Needs,       \* job -> the resources it needs
  MaxRetry,    \* jobs.retryPolicy.maxRetry
  MaxFails,    \* bound: job -> its failures
  MaxCrashes   \* bound: crashes

JobIds == 1 .. MaxJobId
NoJob == 0

ASSUME RecoveryAssumption ==
  /\ MaxJobId \in Nat /\ Needs \in [JobIds -> SUBSET Resources]
  /\ MaxRetry \in Nat \ {0} /\ MaxFails \in [JobIds -> Nat] /\ MaxCrashes \in Nat

VARIABLES
  job,        \* svc.jobs
  lock,       \* the locked resources
  todo,       \* the events left in the operation that holds the mutex
  admitting,  \* its last part: tryEnqueuePendingJobsLocked
  saved,      \* the jobs as the storage has them
  crashes,
  mixed       \* history: the jobs were loaded from copies of different events

vars == <<job, lock, todo, admitting, saved, crashes, mixed>>

NewJob == [state |-> "NoState", fails |-> 0]
States == {"NoState", "Created", "Pending", "Queued", "Running", "Hidden",
           "Succeeded", "Failed", "Canceled", "Deleted"}
InState(s) == {j \in JobIds : job[j].state = s}
Active == InState("Queued") \cup InState("Running")
Idle == todo = <<>> /\ ~admitting

Init ==
  /\ job = [j \in JobIds |-> NewJob] /\ saved = job
  /\ lock = [r \in Resources |-> NoJob]
  /\ todo = <<>> /\ admitting = FALSE /\ crashes = 0 /\ mixed = FALSE

\* The state after an event (Job.GetStateFromEvent).
After(e) ==
  CASE e = "CREATE" -> "Created"  [] e = "PENDING" -> "Pending" [] e = "ENQUEUE" -> "Queued"
    [] e = "START" -> "Running"   [] e = "FAIL" -> "Running"    [] e = "HIDE" -> "Hidden"
    [] e = "SUCCESS" -> "Succeeded" [] e = "TERMINATE" -> "Failed"
    [] e = "CANCEL" -> "Canceled" [] e = "DELETE" -> "Deleted"

-----------------------------------------------------------------------------
(* The operations: the locks they release or take, then their events.      *)

Free(j) == \A r \in Needs[j] : lock[r] \in {NoJob, j}
Unlock(j) == [r \in Resources |-> IF lock[r] = j THEN NoJob ELSE lock[r]]

Lock(j) == [r \in Resources |-> IF r \in Needs[j] THEN j ELSE lock[r]]

Do(j, events, newLock, admit) ==
  /\ Idle
  /\ todo' = [i \in DOMAIN events |-> <<j, events[i]>>]
  /\ lock' = newLock
  /\ admitting' = admit
  /\ UNCHANGED <<job, saved, crashes, mixed>>

Create(j) == job[j].state = "NoState" /\ Do(j, <<"CREATE", "PENDING">>, lock, TRUE)

Start(j) == job[j].state = "Queued" /\ Do(j, <<"START">>, lock, FALSE)

Succeed(j) == job[j].state = "Running" /\ Do(j, <<"SUCCESS">>, Unlock(j), TRUE)

Cancel(j) == job[j].state = "Running" /\ Do(j, <<"CANCEL", "ENQUEUE">>, lock, TRUE)

\* Mutant: a late failure is accepted in any state.
FailLate(j) ==
  /\ job[j].state \notin {"NoState", "Deleted"} /\ job[j].fails < MaxFails[j]
  /\ Do(j, <<"FAIL", IF job[j].fails + 1 >= MaxRetry THEN "TERMINATE" ELSE "HIDE">>, Unlock(j), TRUE)

\* failJobLocked (by a worker, or by the visibility timeout).
Fail(j) ==
  /\ job[j].state = "Running" /\ job[j].fails < MaxFails[j]
  /\ LET n == job[j].fails + 1
     IN  \/ n >= MaxRetry /\ Do(j, <<"FAIL", "TERMINATE">>, Unlock(j), TRUE)
         \/ n < MaxRetry /\ Do(j, <<"FAIL", "HIDE">>, Unlock(j), TRUE)
         \/ n < MaxRetry /\ Free(j) /\ Do(j, <<"FAIL", "ENQUEUE">>, Lock(j), FALSE)

\* AttemptJobRetries
Retry(j) == job[j].state = "Hidden" /\ Free(j) /\ Do(j, <<"ENQUEUE">>, Lock(j), FALSE)

Delete(j) ==
  /\ job[j].state \notin {"NoState", "Deleted"}
  /\ Do(j, <<"DELETE">>, Unlock(j), TRUE)

DeleteAllJobs ==
  /\ Idle
  /\ job' = [j \in JobIds |-> IF job[j].state = "NoState" THEN job[j] ELSE [job[j] EXCEPT !.state = "Deleted"]]
  /\ lock' = [r \in Resources |-> NoJob]
  /\ UNCHANGED <<todo, admitting, saved, crashes, mixed>>

\* Mutant: the ticker waits for a moment without any lock.
TryWhenNothingIsLocked ==
  /\ \E j \in InState("Pending") : Free(j)
  /\ \A r \in Resources : lock[r] = NoJob
  /\ Idle
  /\ admitting' = TRUE
  /\ UNCHANGED <<job, lock, todo, saved, crashes, mixed>>

\* The ticker, when it has an effect.
TryEnqueuePendingJobs ==
  /\ \E j \in InState("Pending") : Free(j)
  /\ Idle
  /\ admitting' = TRUE
  /\ UNCHANGED <<job, lock, todo, saved, crashes, mixed>>

-----------------------------------------------------------------------------
(* The events of the operation, one by one.                                *)

\* AddHistoryEvent, then NotifyJobEvent: the backend has a new copy of the job.
Notify ==
  /\ todo # <<>>
  /\ LET j == todo[1][1]
         e == todo[1][2]
     IN  job' = [job EXCEPT ![j].state = After(e),
                            ![j].fails = IF e = "FAIL" THEN @ + 1 ELSE @]
  /\ todo' = Tail(todo)
  /\ UNCHANGED <<lock, admitting, saved, crashes, mixed>>

\* The walk of tryEnqueuePendingJobsLocked: the next pending job that is free.
Admit ==
  /\ admitting /\ todo = <<>>
  /\ LET free == {j \in InState("Pending") : Free(j)}
     IN  IF free = {}
           THEN admitting' = FALSE /\ UNCHANGED <<lock, todo>>
           ELSE \E j \in free :
                  /\ \A k \in free : j <= k
                  /\ lock' = Lock(j)
                  /\ todo' = <<<<j, "ENQUEUE">>>>
                  /\ UNCHANGED admitting
  /\ UNCHANGED <<job, saved, crashes, mixed>>

-----------------------------------------------------------------------------
(* The storage.                                                            *)

\* Mutant: the copies of the jobs are saved in any order.
SaveSome ==
  /\ \E S \in SUBSET JobIds : saved' = [j \in JobIds |-> IF j \in S THEN job[j] ELSE saved[j]]
  /\ UNCHANGED <<job, lock, todo, admitting, crashes, mixed>>

\* The storage catches up with the copies, at any moment.
Save ==
  /\ saved' = job
  /\ UNCHANGED <<job, lock, todo, admitting, crashes, mixed>>

\* LockResourcesForJobs: the locks are those of the active jobs.
LoadedLock(jobs, r) ==
  LET claimants == {j \in JobIds : r \in Needs[j] /\ jobs[j].state \in {"Queued", "Running"}}
  IN  IF claimants = {} THEN NoJob ELSE CHOOSE j \in claimants : \A k \in claimants : k <= j

\* The jobs saved before their first scheduling, scheduled in id order.
Unscheduled(jobs) == {j \in JobIds : jobs[j].state = "Created"}

Rank(S, j) == Cardinality({i \in S : i <= j})

InOrder(S) == [n \in 1 .. Cardinality(S) |-> <<CHOOSE j \in S : Rank(S, j) = n, "PENDING">>]

(* The process dies, and another one loads what was saved.  A job that was *)
(* never saved, or whose deletion was, is gone: its number is not used     *)
(* again.  If a pipeline has failed just before, some jobs (S) were saved  *)
(* again and the others were not.                                          *)
CrashAndLoadJobs ==
  /\ crashes < MaxCrashes
  /\ crashes' = crashes + 1
  /\ \E S \in SUBSET JobIds :
       LET copies == [j \in JobIds |-> IF j \in S THEN job[j] ELSE saved[j]]
           loaded == [j \in JobIds |->
                        IF copies[j].state = "NoState" /\ job[j].state # "NoState"
                          THEN [NewJob EXCEPT !.state = "Deleted"] ELSE copies[j]]
       IN  /\ saved' = copies
           /\ mixed' = (mixed \/ copies \notin {saved, job})
           /\ job' = loaded
           /\ lock' = [r \in Resources |-> LoadedLock(loaded, r)]
           /\ todo' = InOrder(Unscheduled(loaded))
           /\ admitting' = (Unscheduled(loaded) # {})

Operation ==
  \/ \E j \in JobIds : Create(j) \/ Start(j) \/ Succeed(j) \/ Cancel(j) \/ Fail(j) \/ Retry(j) \/ Delete(j)
  \/ TryEnqueuePendingJobs

Next == Operation \/ DeleteAllJobs \/ Notify \/ Admit \/ Save \/ CrashAndLoadJobs

\* An operation goes on to its end, and the tickers tick.
Fairness ==
  /\ WF_vars(Notify) /\ WF_vars(Admit)
  /\ WF_vars(TryEnqueuePendingJobs)

Spec == Init /\ [][Next]_vars
FairSpec == Spec /\ Fairness

-----------------------------------------------------------------------------
\* The exclusion survives a crash at any event: two jobs that need the same resource
\* are never both queued or running, because a success is saved before what it allows.
ExclusiveUse ==
  \A i, k \in Active : i # k => Needs[i] \cap Needs[k] = {}

\* Between operations a locked resource belongs to an active job, and an active job holds
\* its resources, after a crash as well.
LocksAreRestored ==
  Idle => \A r \in Resources, j \in JobIds : lock[r] = j <=> j \in Active /\ r \in Needs[j]

\* A job saved in the middle of its creation is scheduled all the same.
CreatedJobsAreScheduled == Idle => InState("Created") = {}

\* After a crash the jobs and the locks are as after any operation.
RecoveryIsConsistent ==
  /\ mixed \/ (ExclusiveUse /\ LocksAreRestored)
  /\ CreatedJobsAreScheduled

\* A crash costs a job one failure at most: the FAIL event whose consequence was lost is
\* counted, and the run it ended times out once more.
CrashCostsOneFailure == \A j \in JobIds : job[j].fails <= MaxRetry + crashes

\* What was saved as completed or deleted is not run again, whatever crashes next.
SavedEndIsFinal ==
  \A j \in JobIds :
    saved[j].state \in {"Succeeded", "Failed", "Deleted"} =>
      job[j].state \in {saved[j].state, "Deleted"}

\* A pending job that a crash left beside free resources is queued by the ticker.
PendingIsServed ==
  \A j \in JobIds : (job[j].state = "Pending" /\ Free(j)) ~> (job[j].state # "Pending" \/ ~Free(j))

\* What service.go:975 says of CancelJob, "cancel a job that is running and put it back in
\* the queue": no job stays canceled once the operation, or the recovery, is over.
CanceledIsQueuedAgain == Idle => InState("Canceled") = {}
=============================================================================
