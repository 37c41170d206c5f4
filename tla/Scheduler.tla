------------------------------ MODULE Scheduler ------------------------------
(***************************************************************************)
(* The job scheduler of minijob: service/service.go, with the resource     *)
(* locks (service/resourcesmanager.go) and the states of a job             *)
(* (job/job.go).                                                           *)
(*                                                                         *)
(* Every operation of the scheduler runs with Service.mu held, so an       *)
(* operation is one action.  Three operations are loops that call another  *)
(* operation for each job of a list made beforehand; they are a pass: the  *)
(* list is `todo', each iteration is a step, and no other operation runs   *)
(* until the pass ends because the mutex is not released.                  *)
(*                                                                         *)
(* Jobs are numbered in creation order: version 7 UUIDs increase, so the   *)
(* order (creation timestamp, id) is the order of the numbers.  Time is    *)
(* relative: Tick lowers the time left before a delayed or hidden job is   *)
(* due, and raises the time since the last event of a job whose age is     *)
(* read (visibility timeout, retention).                                   *)
(***************************************************************************)
EXTENDS Integers, FiniteSets

CONSTANTS
  MaxJobId,             \* bound: jobs ever created
  Resources,            \* names of the lockable resources
  Topics,               \* names of the topics
  Requests,             \* what clients ask for: [res, prio, topic, delay]
  MaxAllowedJobs,       \* jobs.maxAllowedJobs (0: no limit)
  BackendMaxJobs,       \* GetMaxJobs() of the backend provider (0: no limit)
  MaxRetry,             \* jobs.retryPolicy.maxRetry
  RetryDelay,           \* ComputeDelay: failures so far -> time before the retry
  MaxVisibilityTimeout, \* jobs.maxVisibilityTimeout
  MaxPull,              \* bound on the jobs of one pull
  RetentionMaxJobs,     \* jobs.retentionPolicy.maxJobs (negative: no limit)
  RetentionMaxAge,      \* jobs.retentionPolicy.maxJobAge (negative: no limit)
  AgeCap                \* bound: ages are not told apart beyond it

NoJob == 0
JobIds == 1 .. MaxJobId
AnyTopic == "*"

ASSUME SchedulerAssumption ==
  /\ MaxJobId \in Nat \ {0}
  /\ AnyTopic \notin Topics
  /\ Requests \subseteq
       [res : SUBSET Resources, prio : Int, topic : Topics, delay : Nat]
  /\ MaxAllowedJobs \in Nat /\ BackendMaxJobs \in Nat /\ MaxRetry \in Nat
  /\ RetryDelay \in [1 .. MaxRetry -> Nat]
  /\ MaxVisibilityTimeout \in Nat \ {0} /\ MaxPull \in Nat \ {0}
  /\ RetentionMaxJobs \in Int /\ RetentionMaxAge \in Int
  /\ AgeCap \in Nat /\ AgeCap >= MaxVisibilityTimeout
  /\ AgeCap >= RetentionMaxAge

VARIABLES
  job,       \* svc.jobs: id -> job record (Absent: not created, or deleted)
  nextId,    \* the id of the next job
  pending,   \* svc.pendingJobs
  queued,    \* svc.queuedJobs, the index the pulls read
  retry,     \* svc.pqRetryJobs
  delayed,   \* svc.pqDelayedJobs
  lock,      \* ResourcesManager.lockedResources: resource -> job, or NoJob
  stripped,  \* history: <<j, r>> such that the admin API took r away from job j
  pass,      \* the loop that holds the mutex
  todo       \* the jobs the loop has left

jobsVars == <<job, nextId>>
queueVars == <<pending, queued, retry, delayed>>
passVars == <<pass, todo>>
vars == <<job, nextId, pending, queued, retry, delayed, lock, stripped, pass, todo>>

Max2(a, b) == IF a >= b THEN a ELSE b
Min2(a, b) == IF a <= b THEN a ELSE b

JobStates == {"NoState", "Delayed", "Pending", "Queued", "Running", "Hidden",
              "Succeeded", "Failed", "Canceled"}

Job == [state : JobStates, res : SUBSET Resources, prio : Int,
        topic : Topics \cup {AnyTopic}, fails : Nat, vis : Nat, age : Nat,
        timer : Nat]

Absent == [state |-> "NoState", res |-> {}, prio |-> 0, topic |-> AnyTopic,
           fails |-> 0, vis |-> 0, age |-> 0, timer |-> 0]

NewJob(rq) == [state |-> "NoState", res |-> rq.res, prio |-> rq.prio,
               topic |-> rq.topic, fails |-> 0, vis |-> 0, age |-> 0,
               timer |-> 0]

InState(jb, s) == {j \in JobIds : jb[j].state = s}
Live(jb) == {j \in JobIds : jb[j].state # "NoState"}

\* Job.IsCompleted.  A canceled job is queued again by the same operation.
Completed(jb) == {j \in JobIds : jb[j].state \in {"Succeeded", "Canceled", "Failed"}}

\* A job that holds (or held) its locks: it is on its way to a worker or has one.
Active(jb) == {j \in JobIds : jb[j].state \in {"Queued", "Running"}}

-----------------------------------------------------------------------------
(* Job.AddHistoryEvent on a job record: the event decides the state, and   *)
(* GetCountFaillures counts the FAIL events.  The visibility timeout is    *)
(* read only while the job runs, and every start sets it.                  *)

StateFromEvent(e) ==
  CASE e = "DELAY"     -> "Delayed"
    [] e = "PENDING"   -> "Pending"
    [] e = "ENQUEUE"   -> "Queued"
    [] e = "START"     -> "Running"
    [] e = "FAIL"      -> "Running"
    [] e = "SUCCESS"   -> "Succeeded"
    [] e = "HIDE"      -> "Hidden"
    [] e = "CANCEL"    -> "Canceled"
    [] e = "TERMINATE" -> "Failed"

Event(rec, e) ==
  [rec EXCEPT !.state = StateFromEvent(e), !.age = 0, !.vis = 0,
              !.fails = IF e = "FAIL" THEN @ + 1 ELSE @]

\* addHistoryEventLocked: the index of the queued jobs follows the state.
IndexAfter(q, before, after, j) ==
  (IF before.state = "Queued" THEN q \ {j} ELSE q)
    \cup (IF after.state = "Queued" THEN {j} ELSE {})

-----------------------------------------------------------------------------
(* ResourcesManager: LockResources takes all the resources or none, and    *)
(* UnlockResources gives back those the job holds.                         *)

\* Mutant: one free resource is enough.
AvailableIfOneIs(lk, jb, j) ==
  jb[j].res = {} \/ \E r \in jb[j].res : lk[r] \in {NoJob, j}

Available(lk, jb, j) == \A r \in jb[j].res : lk[r] \in {NoJob, j}

LockResources(lk, jb, j) ==
  [r \in Resources |-> IF r \in jb[j].res THEN j ELSE lk[r]]

\* Mutant: releases the names the job lists, whoever holds them.
UnlockNames(lk, jb, j) ==
  [r \in Resources |-> IF r \in jb[j].res THEN NoJob ELSE lk[r]]

UnlockResources(lk, jb, j) ==
  [r \in Resources |-> IF r \in jb[j].res /\ lk[r] = j THEN NoJob ELSE lk[r]]

LockAll(lk, jb, S) ==
  [r \in Resources |-> IF \E j \in S : r \in jb[j].res
                         THEN CHOOSE j \in S : r \in jb[j].res
                         ELSE lk[r]]

NotStripped(j) == {p \in stripped : p[1] # j}

Conflict(jb, i, k) == jb[i].res \cap jb[k].res # {}

\* compareQueueOrder: highest priority first, then the oldest.
Precedes(jb, i, k) ==
  \/ jb[i].prio > jb[k].prio
  \/ jb[i].prio = jb[k].prio /\ i < k

\* Mutant: the pending jobs are tried in any order.
AdmittedInAnyOrder(S, pend, lk, jb) ==
  \A j \in pend :
    j \in S <=> /\ jb[j].timer = 0
                /\ Available(lk, jb, j)
                /\ \A k \in S \ {j} : ~Conflict(jb, k, j)

(* tryEnqueuePendingJobsLocked walks the pending jobs in queue order and   *)
(* enqueues each one that is due and whose resources are free at its turn. *)
(* Seen as a set: a job is admitted unless it is early, another job holds  *)
(* one of its resources, or an admitted job before it takes one.           *)
Admitted(S, pend, lk, jb) ==
  \A j \in pend :
    j \in S <=> /\ jb[j].timer = 0
                /\ Available(lk, jb, j)
                /\ \A k \in S : Precedes(jb, k, j) => ~Conflict(jb, k, j)

\* The tail of most operations; jb, q, pend and lk are what the operation left.
TryEnqueue(jb, q, pend, lk) ==
  \E S \in SUBSET pend :
    /\ Admitted(S, pend, lk, jb)
    /\ job' = [j \in JobIds |-> IF j \in S THEN Event(jb[j], "ENQUEUE") ELSE jb[j]]
    /\ queued' = q \cup S
    /\ pending' = pend \ S
    /\ lock' = LockAll(lk, jb, S)

-----------------------------------------------------------------------------
Init ==
  /\ job = [j \in JobIds |-> Absent]
  /\ nextId = 1
  /\ pending = {} /\ queued = {} /\ retry = {} /\ delayed = {}
  /\ lock = [r \in Resources |-> NoJob]
  /\ stripped = {}
  /\ pass = "none" /\ todo = {}

Idle == pass = "none"

-----------------------------------------------------------------------------
(* Creation: CreateJob and CloneJob, both through                          *)
(* finalizeJobCreationLocked.                                              *)

\* checkMaxAllowedJobsLocked, then the limit of the backend.
BelowLimits ==
  /\ MaxAllowedJobs = 0 \/ Cardinality(Live(job)) < MaxAllowedJobs
  /\ BackendMaxJobs = 0 \/ Cardinality(Live(job)) < BackendMaxJobs

FinalizeJobCreation(new, wait) ==
  /\ nextId \in JobIds
  /\ nextId' = nextId + 1
  /\ UNCHANGED <<retry, stripped, passVars>>
  /\ IF wait > 0
       THEN /\ delayed' = delayed \cup {nextId}
            /\ TryEnqueue([job EXCEPT ![nextId] =
                             [Event(new, "DELAY") EXCEPT !.timer = wait]],
                          queued, pending, lock)
       ELSE /\ delayed' = delayed
            /\ TryEnqueue([job EXCEPT ![nextId] = Event(new, "PENDING")],
                          queued, pending \cup {nextId}, lock)

CreateJob(rq) ==
  /\ Idle
  /\ BelowLimits
  /\ FinalizeJobCreation(NewJob(rq), rq.delay)

\* Mutant: a clone is not counted against the limits.
CloneJobUnlimited(j) ==
  /\ Idle
  /\ j \in Live(job)
  /\ FinalizeJobCreation(NewJob(job[j]),
                         IF job[j].state = "Delayed" THEN job[j].timer ELSE 0)

\* The clone keeps StartAfter: what is left of the delay, nothing once it passed.
CloneJob(j) ==
  /\ Idle
  /\ j \in Live(job)
  /\ BelowLimits
  /\ FinalizeJobCreation(NewJob(job[j]),
                         IF job[j].state = "Delayed" THEN job[j].timer ELSE 0)

-----------------------------------------------------------------------------
(* Workers: pull (start), success, cancel, fail, visibility timeout.       *)

\* startJobLocked for each job of C (all of them queued).
StartJobs(C, v) ==
  /\ job' = [j \in JobIds |-> IF j \in C
                                THEN [Event(job[j], "START") EXCEPT !.vis = v]
                                ELSE job[j]]
  /\ queued' = queued \ C
  /\ pending' = pending \ C
  /\ UNCHANGED <<nextId, retry, delayed, lock, stripped, passVars>>

\* findBestJobCandidatesLocked: the first n queued jobs of the topic.
Candidates(topic) == {j \in queued : topic \in {AnyTopic, job[j].topic}}

BestCandidates(C, topic, n) ==
  /\ C \subseteq Candidates(topic)
  /\ Cardinality(C) = Min2(n, Cardinality(Candidates(topic)))
  /\ \A i \in C, k \in Candidates(topic) \ C : Precedes(job, i, k)

PullJobs(topic, n, v) ==
  /\ Idle
  /\ \E C \in SUBSET queued :
       /\ BestCandidates(C, topic, n)
       /\ C # {}
       /\ StartJobs(C, v)

\* Mutant: a worker may start any job it names.
PullAnyJob(j, v) ==
  /\ Idle
  /\ j \in Live(job)
  /\ StartJobs({j}, v)

PullSpecificJob(j, v) ==
  /\ Idle
  /\ job[j].state = "Queued"
  /\ StartJobs({j}, v)

SetJobAsSuccessful(j) ==
  /\ Idle
  /\ job[j].state = "Running"
  /\ stripped' = NotStripped(j)
  /\ TryEnqueue([job EXCEPT ![j] = Event(@, "SUCCESS")], queued, pending,
                UnlockResources(lock, job, j))
  /\ UNCHANGED <<nextId, retry, delayed, passVars>>

\* Cancels a running job and puts it back in the queue, its locks kept as they are.
CancelJob(j) ==
  /\ Idle
  /\ job[j].state = "Running"
  /\ LET again == Event(Event(job[j], "CANCEL"), "ENQUEUE")
     IN  TryEnqueue([job EXCEPT ![j] = again],
                    IndexAfter(queued, job[j], again, j), pending, lock)
  /\ UNCHANGED <<nextId, retry, delayed, stripped, passVars>>

\* onJobFailedTooManyTimesLocked
Terminate(j, jb) ==
  /\ stripped' = NotStripped(j)
  /\ TryEnqueue([jb EXCEPT ![j] = Event(@, "TERMINATE")], queued, pending,
                UnlockResources(lock, jb, j))
  /\ UNCHANGED <<nextId, retry, delayed>>

\* retryJobLocked, called when the resources can be locked.
RetryNow(j, jb) ==
  /\ job' = [jb EXCEPT ![j] = Event(@, "ENQUEUE")]
  /\ queued' = queued \cup {j}
  /\ lock' = LockResources(lock, jb, j)
  /\ stripped' = NotStripped(j)
  /\ UNCHANGED <<nextId, pending, retry, delayed>>

\* Mutant: the released resources are not offered to the pending jobs.
RetryLaterSilently(j, jb, wait) ==
  /\ retry' = retry \cup {j}
  /\ stripped' = NotStripped(j)
  /\ job' = [jb EXCEPT ![j] = [Event(@, "HIDE") EXCEPT !.timer = wait]]
  /\ lock' = UnlockResources(lock, jb, j)
  /\ UNCHANGED <<nextId, pending, queued, delayed>>

\* retryJobLaterLocked
RetryLater(j, jb, wait) ==
  /\ retry' = retry \cup {j}
  /\ stripped' = NotStripped(j)
  /\ TryEnqueue([jb EXCEPT ![j] = [Event(@, "HIDE") EXCEPT !.timer = wait]],
                queued, pending, UnlockResources(lock, jb, j))
  /\ UNCHANGED <<nextId, delayed>>

\* Mutant: one retry too many.
FailOnceMore(j) ==
  LET jb == [job EXCEPT ![j] = Event(@, "FAIL")]
      n  == jb[j].fails
  IN  /\ job[j].state = "Running"
      /\ \/ n > MaxRetry /\ Terminate(j, jb)
         \/ n <= MaxRetry /\ RetryLater(j, jb, 1)

\* Mutant: a late failure is accepted in any state.
FailAnyJob(j) ==
  LET jb == [job EXCEPT ![j] = Event(@, "FAIL")]
  IN  /\ j \in Live(job)
      /\ IF jb[j].fails >= MaxRetry THEN Terminate(j, jb) ELSE RetryLater(j, jb, 1)

(* failJobLocked, for a running job: terminated when it failed too many    *)
(* times; else queued again at once (no delay, and its resources can be    *)
(* locked), or hidden until its next retry.                                *)
FailRunningJob(j) ==
  LET jb == [job EXCEPT ![j] = Event(@, "FAIL")]
      n  == jb[j].fails
  IN  /\ job[j].state = "Running"
      /\ \/ /\ n >= MaxRetry
            /\ Terminate(j, jb)
         \/ /\ n < MaxRetry
            /\ RetryDelay[n] = 0
            /\ Available(lock, jb, j)
            /\ RetryNow(j, jb)
         \/ /\ n < MaxRetry
            /\ RetryDelay[n] > 0 \/ ~Available(lock, jb, j)
            /\ RetryLater(j, jb, RetryDelay[n])

FailJob(j) ==
  /\ Idle
  /\ FailRunningJob(j)
  /\ UNCHANGED passVars

\* Mutant: the change counts as a sign of life.
ChangeVisibilityAndRefresh(j, v) ==
  /\ Idle
  /\ job[j].state = "Running"
  /\ job' = [job EXCEPT ![j].vis = v, ![j].age = 0]
  /\ UNCHANGED <<nextId, queueVars, lock, stripped, passVars>>

\* Allowed in every state; only the timeout of a running job is read.
ChangeVisibilityTimeout(j, v) ==
  /\ Idle
  /\ job[j].state = "Running"
  /\ job' = [job EXCEPT ![j].vis = v]
  /\ UNCHANGED <<nextId, queueVars, lock, stripped, passVars>>

-----------------------------------------------------------------------------
(* Deletion.                                                               *)

\* Mutant: a deleted job stays in the retry queue.
RemoveJobButNotRetry(j) ==
  /\ delayed' = delayed \ {j}
  /\ stripped' = NotStripped(j)
  /\ TryEnqueue([job EXCEPT ![j] = Absent], IndexAfter(queued, job[j], Absent, j),
                pending \ {j}, UnlockResources(lock, job, j))
  /\ UNCHANGED <<nextId, retry>>

\* deleteJobLocked
RemoveJob(j) ==
  /\ retry' = retry \ {j}
  /\ delayed' = delayed \ {j}
  /\ stripped' = NotStripped(j)
  /\ TryEnqueue([job EXCEPT ![j] = Absent], IndexAfter(queued, job[j], Absent, j),
                pending \ {j}, UnlockResources(lock, job, j))
  /\ UNCHANGED nextId

DeleteJob(j) ==
  /\ Idle
  /\ j \in Live(job)
  /\ RemoveJob(j)
  /\ UNCHANGED passVars

DeleteAllJobs ==
  /\ Idle
  /\ job' = [j \in JobIds |-> Absent]
  /\ pending' = {} /\ queued' = {} /\ retry' = {} /\ delayed' = {}
  /\ lock' = [r \in Resources |-> NoJob]
  /\ stripped' = {}
  /\ UNCHANGED <<nextId, passVars>>

-----------------------------------------------------------------------------
(* The loops: each begins by listing its jobs, then handles them one by    *)
(* one without releasing the mutex.                                        *)

BeginPass(name, jobs) ==
  /\ Idle
  /\ jobs # {}
  /\ pass' = name
  /\ todo' = jobs
  /\ UNCHANGED <<jobsVars, queueVars, lock, stripped>>

EndPassWhenDone(name, left) ==
  /\ todo' = left
  /\ pass' = IF left = {} THEN "none" ELSE name

FirstInIdOrder(j) == j \in todo /\ \A k \in todo : j <= k

\* DeleteQueuedJobs: every job that no worker has yet, in id order.
DeleteQueuedJobs ==
  BeginPass("deleteQueued", {j \in JobIds : job[j].state \in {"Delayed", "Pending", "Queued"}})

DeleteQueuedStep(j) ==
  /\ pass = "deleteQueued"
  /\ FirstInIdOrder(j)
  /\ RemoveJob(j)
  /\ EndPassWhenDone("deleteQueued", todo \ {j})

(* deleteOldCompletedJobsLocked: the oldest completed jobs, as many as     *)
(* exceed RetentionMaxJobs, and all those of RetentionMaxAge or more (they *)
(* come first too).                                                        *)
Excess(C) == IF RetentionMaxJobs >= 0 THEN Max2(0, Cardinality(C) - RetentionMaxJobs) ELSE 0

TooOld(C) == IF RetentionMaxAge >= 0 THEN {j \in C : job[j].age >= RetentionMaxAge} ELSE {}

\* Mutant: the newest completed jobs are deleted first.
NewestCompleted(V) ==
  LET C == Completed(job)
  IN  /\ V \subseteq C
      /\ Cardinality(V) = Max2(Excess(C), Cardinality(TooOld(C)))
      /\ \A i \in V, k \in C \ V : job[i].age <= job[k].age

OldestCompleted(V) ==
  LET C == Completed(job)
  IN  /\ V \subseteq C
      /\ Cardinality(V) = Max2(Excess(C), Cardinality(TooOld(C)))
      /\ \A i \in V, k \in C \ V : job[i].age >= job[k].age

CheckJobsRetention ==
  \E V \in SUBSET JobIds : OldestCompleted(V) /\ BeginPass("retention", V)

RetentionStep(j) ==
  /\ pass = "retention"
  /\ j \in todo /\ \A k \in todo : job[j].age >= job[k].age
  /\ RemoveJob(j)
  /\ EndPassWhenDone("retention", todo \ {j})

\* CheckJobsVisibilityTimeout: the jobs that run for too long fail, in id order.
RunningForTooLong == {j \in JobIds : job[j].state = "Running" /\ job[j].age >= job[j].vis}

CheckJobsVisibilityTimeout == BeginPass("visibility", RunningForTooLong)

VisibilityStep(j) ==
  /\ pass = "visibility"
  /\ FirstInIdOrder(j)
  /\ FailRunningJob(j)
  /\ todo' = todo \ {j}
  /\ pass' = pass

\* The pass ends with one more attempt at the pending jobs.
EndVisibilityPass ==
  /\ pass = "visibility"
  /\ todo = {}
  /\ TryEnqueue(job, queued, pending, lock)
  /\ pass' = "none"
  /\ UNCHANGED <<nextId, retry, delayed, stripped, todo>>

-----------------------------------------------------------------------------
(* The other periodic operations of Run.                                   *)

TryEnqueuePendingJobs ==
  /\ Idle
  /\ TryEnqueue(job, queued, pending, lock)
  /\ UNCHANGED <<nextId, retry, delayed, stripped, passVars>>

\* Mutant: nothing is retried while a resource, any resource, is locked.
RetriedWhenAllIsFree(S, due) ==
  /\ S \subseteq due
  /\ \A j, k \in S : j # k => ~Conflict(job, j, k)
  /\ (\E r \in Resources : lock[r] # NoJob) => S = {}

(* AttemptJobRetries goes through the jobs that are due by retry time, and *)
(* puts back those whose resources are taken.  Jobs that are due at the    *)
(* same Tick, or overdue, are in any order here.                           *)
Retried(S, due) ==
  /\ \A j \in S : Available(lock, job, j) /\ \A k \in S \ {j} : ~Conflict(job, j, k)
  /\ \A j \in due \ S : \/ ~Available(lock, job, j)
                        \/ \E k \in S : Conflict(job, j, k)

AttemptJobRetries ==
  /\ Idle
  /\ \E S \in SUBSET {j \in retry : job[j].timer = 0} :
       /\ Retried(S, {j \in retry : job[j].timer = 0})
       /\ job' = [j \in JobIds |-> IF j \in S THEN Event(job[j], "ENQUEUE") ELSE job[j]]
       /\ queued' = queued \cup S
       /\ retry' = retry \ S
       /\ lock' = LockAll(lock, job, S)
       /\ stripped' = {p \in stripped : p[1] \notin S}
  /\ UNCHANGED <<nextId, pending, delayed, passVars>>

CheckDelayedJobs ==
  /\ Idle
  /\ LET due == {j \in delayed : job[j].timer = 0}
     IN  /\ due # {}
         /\ delayed' = delayed \ due
         /\ TryEnqueue([j \in JobIds |-> IF j \in due THEN Event(job[j], "PENDING") ELSE job[j]],
                       queued, pending \cup due, lock)
  /\ UNCHANGED <<nextId, retry, stripped, passVars>>

-----------------------------------------------------------------------------
(* The admin API: takes resources away from the jobs that hold them.       *)

UnlockResource(r) ==
  /\ Idle
  /\ lock[r] # NoJob
  /\ stripped' = stripped \cup {<<lock[r], r>>}
  /\ TryEnqueue(job, queued, pending, [lock EXCEPT ![r] = NoJob])
  /\ UNCHANGED <<nextId, retry, delayed, passVars>>

UnlockAllResources ==
  /\ Idle
  /\ stripped' = stripped \cup {<<lock[r], r>> : r \in {x \in Resources : lock[x] # NoJob}}
  /\ TryEnqueue(job, queued, pending, [r \in Resources |-> NoJob])
  /\ UNCHANGED <<nextId, retry, delayed, passVars>>

-----------------------------------------------------------------------------
(* A graceful restart: Stop saved every job, and the new process loads     *)
(* them (LoadJobs).  The last claimant of a resource holds it, and hidden  *)
(* jobs are due at once.  (After a crash, see module Recovery.)            *)

Claimants(r) == {j \in Active(job) : r \in job[j].res}

LoadedLocks(lk) ==
  \A r \in Resources :
    IF Claimants(r) = {}
      THEN lk[r] = NoJob
      ELSE lk[r] \in Claimants(r) /\ \A k \in Claimants(r) : k <= lk[r]

Restart ==
  /\ Idle
  /\ \E lk \in [Resources -> JobIds \cup {NoJob}] :
       /\ LoadedLocks(lk)
       /\ lock' = lk
       /\ stripped' = {p \in Active(job) \X Resources : p[2] \in job[p[1]].res /\ lk[p[2]] # p[1]}
  /\ pending' = InState(job, "Pending")
  /\ queued' = InState(job, "Queued")
  /\ retry' = InState(job, "Hidden")
  /\ delayed' = InState(job, "Delayed")
  /\ job' = [j \in JobIds |-> IF job[j].state = "Hidden"
                                THEN [job[j] EXCEPT !.timer = 0] ELSE job[j]]
  /\ UNCHANGED <<nextId, passVars>>

\* Mutant: a timer that is over keeps counting.
AgedPastZero(rec) == [rec EXCEPT !.timer = @ - 1]

\* Time goes by.  An operation holds the mutex for far less than a tick.
Aged(rec) ==
  [rec EXCEPT !.timer = Max2(0, @ - 1),
              !.age = IF rec.state \in {"Running", "Succeeded", "Failed", "Canceled"}
                        THEN Min2(@ + 1, AgeCap) ELSE @]

Tick ==
  /\ Idle
  /\ job' = [j \in JobIds |-> Aged(job[j])]
  /\ UNCHANGED <<nextId, queueVars, lock, stripped, passVars>>

-----------------------------------------------------------------------------
Visibilities == 1 .. MaxVisibilityTimeout

ClientStep ==
  \/ \E rq \in Requests : CreateJob(rq)
  \/ \E j \in JobIds : CloneJob(j) \/ DeleteJob(j)
  \/ DeleteQueuedJobs
  \/ DeleteAllJobs

WorkerStep ==
  \/ \E t \in Topics \cup {AnyTopic}, n \in 1 .. MaxPull, v \in Visibilities : PullJobs(t, n, v)
  \/ \E j \in JobIds, v \in Visibilities : PullSpecificJob(j, v) \/ ChangeVisibilityTimeout(j, v)
  \/ \E j \in JobIds : SetJobAsSuccessful(j) \/ CancelJob(j) \/ FailJob(j)

AdminStep ==
  \/ \E r \in Resources : UnlockResource(r)
  \/ UnlockAllResources
  \/ Restart

TickerStep ==
  \/ TryEnqueuePendingJobs
  \/ AttemptJobRetries
  \/ CheckDelayedJobs
  \/ CheckJobsVisibilityTimeout
  \/ CheckJobsRetention

PassStep ==
  \/ \E j \in JobIds : DeleteQueuedStep(j) \/ RetentionStep(j) \/ VisibilityStep(j)
  \/ EndVisibilityPass

Next == ClientStep \/ WorkerStep \/ AdminStep \/ TickerStep \/ PassStep \/ Tick

(* Run's select loop serves every ticker (select chooses among the ready   *)
(* cases at random), an operation that holds the mutex finishes, and time  *)
(* goes by.  Nothing is assumed of the clients and the workers.            *)
Fairness ==
  /\ WF_vars(Tick)
  /\ WF_vars(PassStep)
  /\ WF_vars(TryEnqueuePendingJobs)
  /\ WF_vars(AttemptJobRetries)
  /\ WF_vars(CheckDelayedJobs)
  /\ WF_vars(CheckJobsVisibilityTimeout)
  /\ WF_vars(CheckJobsRetention)

Spec == Init /\ [][Next]_vars
FairSpec == Spec /\ Fairness

-----------------------------------------------------------------------------
(***************************************************************************)
(* Properties.                                                             *)
(***************************************************************************)

\* The shape of the scheduler's state.
TypeOK ==
  /\ job \in [JobIds -> Job]
  /\ nextId \in 1 .. MaxJobId + 1
  /\ pending \subseteq JobIds /\ queued \subseteq JobIds
  /\ retry \subseteq JobIds /\ delayed \subseteq JobIds
  /\ lock \in [Resources -> JobIds \cup {NoJob}]
  /\ stripped \subseteq JobIds \X Resources
  /\ pass \in {"none", "deleteQueued", "retention", "visibility"}
  /\ todo \subseteq JobIds

\* A job that waits is in the container of its state and in no other: no handler
\* loses a job, leaves it in a queue it left, or queues it twice.
OneContainer ==
  /\ pending = InState(job, "Pending")
  /\ queued = InState(job, "Queued")
  /\ retry = InState(job, "Hidden")
  /\ delayed = InState(job, "Delayed")

\* Every locked resource belongs to a queued or running job that asked for it
\* (service_test.go:233): no path leaves a lock behind a job that is gone.
LocksHaveActiveOwners ==
  \A r \in Resources : lock[r] # NoJob => lock[r] \in Active(job) /\ r \in job[lock[r]].res

\* An active job holds each of its resources unless the admin API took it away.
HoldsItsResources ==
  \A j \in Active(job) : \A r \in job[j].res : lock[r] = j \/ <<j, r>> \in stripped

\* The locks and the jobs agree, whatever order the operations come in.
LocksMatchJobs == LocksHaveActiveOwners /\ HoldsItsResources

\* Two jobs that need the same resource are never queued or running together,
\* unless the admin API took it away from one of them.
ExclusiveUse ==
  \A i, k \in Active(job) : \A r \in job[i].res \cap job[k].res :
    i # k => <<i, r>> \in stripped \/ <<k, r>> \in stripped

\* A job stays pending only because another job holds one of its resources:
\* every operation that frees resources serves the pending jobs before it ends.
PendingIsBlocked == \A j \in pending : ~Available(lock, job, j)

\* Failures: a job that can still run has retries left, a failed one used them all.
RetryBudget ==
  \A j \in JobIds :
    /\ job[j].state \notin {"NoState", "Succeeded", "Failed"} => job[j].fails < Max2(1, MaxRetry)
    /\ job[j].state = "Failed" => job[j].fails = Max2(1, MaxRetry)

\* The limits on the number of jobs hold however jobs are created.
LimitsHold ==
  /\ MaxAllowedJobs # 0 => Cardinality(Live(job)) <= MaxAllowedJobs
  /\ BackendMaxJobs # 0 => Cardinality(Live(job)) <= BackendMaxJobs

\* A completed job never runs again, whatever late answer, retry or timeout comes,
\* and a deleted job does not come back (ids are not reused).
CompletedIsFinal ==
  [][\A j \in JobIds :
       /\ job[j].state \in {"Succeeded", "Failed"} => job'[j].state \in {job[j].state, "NoState"}
       /\ job[j].state = "NoState" /\ j < nextId => job'[j].state = "NoState"]_vars

\* No overtaking: a pending job k that gets its resources in a step passes no pending
\* job j ahead of it, unless j is kept back by a job other than k.
NoOvertaking ==
  [][\A j, k \in pending :
       /\ Precedes(job, j, k) /\ Conflict(job, j, k)
       /\ job'[k].state = "Queued" /\ job'[j].state = "Pending"
       => \E r \in job[j].res : lock'[r] \notin {NoJob, j, k}]_vars

\* Retention deletes completed jobs only, the oldest ones first.
RetentionDeletesOldest ==
  [][\A j \in JobIds :
       pass = "retention" /\ job[j].state # "NoState" /\ job'[j].state = "NoState" =>
         /\ j \in Completed(job)
         /\ \A k \in Completed(job') : job[k].age <= job[j].age]_vars

\* Completed jobs do not pile up: past the retention age they are deleted.
RetentionHappens ==
  \A j \in JobIds :
    RetentionMaxAge >= 0 /\ j \in Completed(job) ~> job[j].state = "NoState"

\* The retention deletes what it should, in the right order, and in the end.
RetentionIsRight == RetentionDeletesOldest /\ RetentionHappens

\* A worker that never answers does not keep its job: the visibility check fails it.
RunningEnds == \A j \in JobIds : job[j].state = "Running" ~> job[j].state # "Running"

\* A delayed job is scheduled once its delay is over.
DelayedEnds == \A j \in JobIds : job[j].state = "Delayed" ~> job[j].state # "Delayed"

\* A hidden job is retried, unless its resources are in use again and again.
HiddenIsRetried ==
  \A j \in JobIds :
    job[j].state = "Hidden" ~> (job[j].state # "Hidden" \/ ~Available(lock, job, j))

\* No job is forgotten in the queue of the delayed jobs or in that of the retries.
WaitingEnds == DelayedEnds /\ HiddenIsRetried
=============================================================================
