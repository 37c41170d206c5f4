# minijob: models, checks and proofs

minijob is a job queue in Go. Clients create jobs over HTTP, workers pull and finish them,
and a job may name resources that no other active job may hold. Everything is in memory; a
backend saves the jobs to a file or to Redis.

These modules are written from the code, function by function. `PROJECT.json` maps each
definition to the lines it stands for. The code is named relative to the root of the
repository.

To run one instance, `tlc -config SchedulerLocks.cfg MCScheduler.tla`; to check the proofs,
`tlapm SchedulerProofs.tla`.

## 1. The system

| Part | State | Operations | Hard parts |
|---|---|---|---|
| Scheduler, `service/service.go` | `jobs`, `pendingJobs`, `queuedJobs`, `pqRetryJobs`, `pqDelayedJobs`, under one lock `mu` | create, clone, pull, succeed, cancel, fail, change timeout, delete; five tickers | five containers that must agree; operations that arrive in any order; which pending job gets a resource that becomes free |
| Job, `job/job.go` | the history of events, from which the state follows | `AddHistoryEvent` | a state is read from the last event |
| Resources, `service/resourcesmanager.go` | resource to job | lock all or none, unlock, the two calls of the admin API | a resource taken from a job that goes on |
| Queue index, `service/queue.go` | a heap of all queued jobs, one for each topic | add, remove, first | removal from the middle by remembered positions |
| Priority queue, `pq/pq.go` | a linked list | enqueue, dequeue when due, remove | order, ties, relinking |
| Long polls, `PullJobs` | the channel `queued`, `stopping` | search, wait, wake, deadline, stop | a wakeup between the search and the wait |
| Timeouts and retries, `config`, `web/apihelpers.go`, `retrypolicy` | durations in the configuration, the requests and the jobs | check, compute a delay | missing values, seconds and milliseconds |
| Lifecycle, `lifecycle/lifecycle.go` | `started`, `stopped`, two channels | Begin, End, Stop | a Stop before, during and after the loop |
| In-memory backend | copies of the jobs, generations, a file | On..., save loop, load, stop | changes during a save, crash, failed write |
| Redis backend, `redisprovider` | a queue of writes, a retry list, the keys of Redis | save at each event, push, wait, loop, stop, load | partial failures, retries beside newer writes, expirations |
| Recovery, `Service.LoadJobs` | the saved jobs | load, lock again, schedule again | a crash between two events of one operation |
| Service metrics, `metrics/servicemetrics.go` | counters by state and topic, owners of resources | one call for each event | counters that drift, load, admin API |
| Callbacks, `callback/callback.go` | slots, goroutines | send when a job ends | a job that changes before its callback is sent |
| List of jobs, `GetJobs` | none | filter, sort, page | pages read while jobs are created |
| Server process, `cmd/minijob`, `web/webserver` | status, a channel of signals, runs | start, drain, stop, restart | old goroutines, slow requests, signals |
| Requests of the workers, `web/apijobs.go` | none | create, pull, succeed, cancel, fail | a request names a job, not a run of it |
| Load test, `cmd/loadtest` | counts of the jobs created, completed and failed | producers, consumers, the end of the test | goroutines that count what the server decides; late workers, lost answers |
| Event notifier, `event` | list of observers | notify | synchronous: it is inside the action that notifies |

How they interact. The web handlers call the service. Each change of a job adds an event to
it and notifies, still under the lock, the backend, the metrics, the event log and the
callbacks, in this order. Pulls wait on a channel that the service closes when it queues a
job. After it has released the lock, a request waits for the backend (Redis only). Tickers of
`Service.Run` call the periodic checks. The process runs one server after the other when it
is restarted.

What makes each part correct is in section 3, property by property; `PROJECT.json` lists the
hazards at their lines.

## 2. Modules

| Module | Models | Composition |
|---|---|---|
| `Scheduler` | every operation of the scheduler with its locks | |
| `JobQueue` | what clients and workers are promised: a job is waited for, ready, leased, done | abstract |
| `SchedulerRefinement` | the mapping of `Scheduler` to `JobQueue` | INSTANCE |
| `SchedulerProofs` | theorems, the refinement among them | EXTENDS `SchedulerRefinement` |
| `LongPoll` | pulls that wait | |
| `Timeouts` | dates and durations | |
| `QueueIndex` | the heaps | |
| `DelayQueue`, `PriorityQueue` | abstract delay queue, the linked list that implements it | INSTANCE |
| `TimeoutsProofs` | theorems about dates, delays and the linked list | EXTENDS `Timeouts`, `DelayParts` |
| `Lifecycle` | one loop and its stops | |
| `InMemoryBackend`, `InMemoryProofs` | copies, generations and file; theorems | |
| `RedisWriter` | the writer goroutine | |
| `RedisProvider` | the events that become writes, expirations, crashes and loads | EXTENDS `RedisWriter` |
| `RedisProofs` | theorems | EXTENDS `RedisProvider` |
| `Api` | the requests of the workers and what they answer | EXTENDS `JobQueue` |
| `LoadTest` | producers and consumers of the load test, on that server | EXTENDS `Api` |
| `Recovery`, `RecoveryProofs` | operations event by event, saves, crashes, load; theorems | |
| `ServiceMetrics` | counters beside the jobs of `Recovery` | INSTANCE of `Recovery`, joint steps |
| `Callbacks` | callbacks of ended jobs | |
| `JobList` | paging | |
| `QueueProofs` | theorems about the long polls, the heaps and the pages | EXTENDS `LongPoll`, `QueueParts` |
| `Server` | the process | |
| `ServerProofs` | theorems about the process, a stop of one loop, the callbacks | EXTENDS `Server`, `ProcessParts` |
| `CountsProofs` | theorems about the metrics and the counts of the load test | EXTENDS `Counts`, INSTANCE of `RecoveryProofs` |
| `ProcessParts` | `Lifecycle` beside `Callbacks`, with the names of their properties | INSTANCE |
| `QueueParts` | `QueueIndex` beside `JobList`, in the same way | INSTANCE |
| `DelayParts` | `PriorityQueue`, in the same way | INSTANCE |
| `Counts` | `LoadTest` beside `ServiceMetrics`, in the same way | EXTENDS `ServiceMetrics`, INSTANCE of `LoadTest` |
| `MC...` | constants for TLC | EXTENDS |
| `MCCounts` | the two parts of `Counts`, one chosen at the start | EXTENDS |
| `MCParts` | the parts of `ProcessParts`, `QueueParts` and `DelayParts`, one chosen at the start | EXTENDS |

### How state and actions follow the code

**Scheduler.** Each exported method of the service takes `mu` for its whole body, so it is
one action. Three loops call another operation for each job of a list made beforehand
(deletion of the queued jobs, retention, visibility check); they are a *pass*: one step for
each job, with `pass` and `todo` as the place in the loop, and no other operation in between.
`tryEnqueuePendingJobsLocked`, which many operations end with, is the operator `TryEnqueue`
inside those actions. Jobs are numbered in creation order. Time is relative: `Tick` ages the
jobs and brings due dates nearer. `stripped` is history: what the admin API took from which
job. Stop and load (a restart that lost nothing) is an action as well.

**LongPoll.** A poll searches under the lock, then waits without it, on the channel it read.
Channels are numbered; all but the last are closed.

**Timeouts.** The configuration is chosen at the start, and again at a restart (`LoadJobs`),
which makes the hidden jobs due at once, as the code does; the effective timeouts are those of
`setVisibilityTimeouts`. A second has `Second` milliseconds, so that a missing conversion
shows. The factor of a policy is a fraction, of any sign and size; the conversion to a duration
truncates. No resources here: a due job can always be queued. What a job was promised (the
largest maximum its run had, the earliest start, the last delay, whether a load cut a retry
short) is kept in the job's record as history.

**Lifecycle.** Each step of `Begin`, `End` and `Stop` that another goroutine can see.

**InMemoryBackend.** The service changes the map, then the generation: two steps. A save reads
the generation, copies the map, writes a temporary file, flushes and renames: five steps,
with a failed write or a crash at any of them.

**RedisWriter, RedisProvider.** Operations are numbered in the order of `push`. A pipeline may
fail after writing any part of it. The loop's publication of `done` and of `ok` are two steps,
as in the code. The provider decides what is pushed: a copy at each event, with an expiration
for a success, nothing for a change of a completed job. A key with an expiration goes at any
moment (`Expire`). `Restart` ends the process, stopped or not; `LoadJobs` reads Redis and
starts a new writer.

**Api, LoadTest.** The server is `JobQueue`, the queue that `Scheduler` is shown to implement;
`Api` adds the failures and the answers. A consumer draws its action when it pulls; what it
asks of the server, the count of the failures (`incJobFailuesCount`, a load, then a store) and
the count of the completed jobs are steps of their own. `faulty`, chosen at the start, says
whether consumers may be late and answers be lost. `noted` and `counted` are history. The
check of line 701, a job pulled after its success, never finds one and is left out.

**Recovery.** An operation is the list `todo` of its events; each is notified in a step of its
own, and what is saved is the state of the jobs at some earlier event. Only a Redis pipeline
that failed just before the crash leaves some jobs newer than others: `CrashAndLoadJobs` then
sets `mixed`, which stays set. It loads the copies, rebuilds the locks in the order of the ids, and schedules
what was only created. Topics, delays and ages are left out; `Scheduler` has them.

**ServiceMetrics.** Each event of `Recovery` takes one joint step with the counters. The admin
API, which `Recovery` lacks, is added there.

**QueueIndex, PriorityQueue.** Arrays and nodes with their positions and links. A loop of
`container/heap` or of `first` is the function of its turns, from the number of the turn to
the state after it; a turn at which the loop has stopped repeats the state. The nodes that one
reaches from `head` are the least set that the links do not leave.

**Callbacks.** A goroutine for each callback: waits for a slot, sends, sleeps, ends.

**JobList.** A client asks for the pages of a list one after the other; each answer filters and
sorts the jobs of that moment. Jobs are created, changed and deleted meanwhile; `calm` is
history, whether they were only created.

**Server.** The main goroutine from load to return, through drain, `Stop` and the deferred
calls; loops of each run; requests that change jobs, stop, or restart. A save is one step.

## 3. What the runs check

Passing runs. "Distinct" is the number of states TLC found.

| Run | Instance | Distinct | Properties |
|---|---|---|---|
| `scheduler` | 3 jobs, 2 resources, 3 kinds of requests | 666,460 | `TypeOK`, `OneContainer`, `LocksMatchJobs`, `ExclusiveUse`, `PendingIsBlocked`, `CompletedIsFinal`, `NoOvertaking` |
| `scheduler_life` | 3 jobs, 2 resources, 2 jobs at a time, with fairness | 54,775 | `RetryBudget`, `LimitsHold`, `ImplementsJobQueue`, `RetentionIsRight`, `RunningEnds`, `WaitingEnds` |
| `longpoll` | 2 polls, 2 jobs of 2 topics | 106,638 | `PollsAreRight`, `PollsEnd` |
| `timeouts` | 2 jobs, 7 configurations, a restart | 4,429,622 | `ExpiredHadTheirTime`, `RunIsBounded`, `DelaysAreRight` |
| `recovery` | 3 jobs, 2 resources, a crash | 891,427 | `RecoveryIsConsistent`, `CrashCostsOneFailure`, `SavedEndIsFinal`, `PendingIsServed` |
| `metrics` | the metrics: 2 jobs of 2 topics, a crash, a call of the admin API; the load test: 2 jobs, 2 workers of each kind or 1 | 322,323 | `CountsAreRight`, `LocksAreShown`, `EachEndCountsOnce`, `TestEnds` |
| `inmemory` | 2 jobs, 4 changes, a failed write | 88,112 | `FileIsRight`, `ChangesAreSaved` |
| `redis` | 2 jobs, 3 writes, a request, a restart | 384,671 | `RedisIsRight`, `NoOlderVersion`, `RestartLosesOnlyWhatWaits`, `NobodyWaitsForRedis`, `SavedInTheEnd` |
| `server` | 2 runs, 2 requests, a change | 778,583 | `RunsEndCleanly`, `StopEnds` |
| `parts` | one of five parts (below) | 874,856 | `StopIsRight`, `EndsAreTold`, `PagesAreRight`, `IndexIsRight`, `ImplementsDelayQueue` |

What they show:

* `scheduler`: whatever the order of the operations, each waiting job is in the container of
  its state; a resource is locked for an active job that asked for it, and (but for what the
  admin API took) each active job has its resources and shares none; a job is pending only
  while a resource is busy, and no walk gives a resource it waits for to a job behind it (over
  many walks jobs of a higher priority may still keep it waiting); an end is final.
* `scheduler_life`: clients and workers see the queue of `JobQueue`; failures and numbers of
  jobs stay within their limits; the retention deletes the oldest jobs, and does; a run ends
  even when its worker never answers; delayed and hidden jobs are taken up.
* `longpoll`: no job is queued unseen beside a waiting poll; an empty answer counts once; a
  queued job or the stop ends a poll before its deadline.
* `timeouts`: a run has its time and no more than the maximum, for configurations and requests
  that leave values out or ask for too much, and over a restart with another maximum (the
  largest it had counts). No job is queued before the date its request or its failure gives it,
  with one exception: a load makes the hidden jobs due at once (`service.go:163`, "can retry
  the job now"), which cuts their delay short. From a failure to the next, delays never shrink
  under a policy that is meant to grow (`Grows`): the configuration takes any factor, and below
  1 an exponential policy retries faster and faster.
* `recovery`: after a crash between any two events of any operation the exclusion, the locks
  and the scheduling hold (the exclusion and the locks but for `mixed` copies, see below); a job loses one failure at most; a saved end is final; a pending
  job is served.
* `metrics`: counters that are moved event by event equal a recount of the jobs, and the locks
  shown are those held. Two limits are in the properties: the success rate is compared before
  the first restart, the owners before the first call of the admin API (see below). The load
  test: a job counts as completed once at most, and only when it is over or about to be,
  although an answer may end the run of another consumer (the API has no token of a run); and
  the test ends when no consumer is late and no answer is lost. Both are for the levels and
  numbers of workers that the count of the failures supports (`CountIsReliable`, see below).
* `inmemory`: the file can be loaded at any moment, a save that is skipped had nothing to
  save, and a change reaches the file in spite of a failed write.
* `redis`: the writer is healthy, or ends, only when Redis holds what it must; a retry brings
  no older version back; a succeeded job expires whatever is done to it afterwards, and no
  other job does; a process that starts finds each job as the last one left it, unless its
  change was still to be written; neither a request nor a stop waits for a Redis that is down; with
  a Redis that answers in the end everything is saved.
* `server`: no loop of a run that is over writes the file of the next one; changes are in the
  file when a run is over, but for those that a request makes after the timeout of the shutdown,
  which are lost; a stop ends although requests do not, and a process told to terminate by a
  signal that is in the channel while the server reads it does (one that comes while a restart
  ends the old run is lost, see below).
* `parts`: `Lifecycle` (2 loops, 3 callers of Stop), `Callbacks` (2 jobs, 3 callbacks, one
  slot), `JobList` (3 jobs, pages of 2), `QueueIndex` (6 jobs, 2 topics), `PriorityQueue`
  (3 values, 4 insertions). They share no state in the code; the instance chooses one of them
  in its initial state, and a property speaks of its own part.

`StopIsRight`, `PollsAreRight`, `RedisIsRight` and the like are conjunctions of named parts, each with
its comment in the module.

Violation runs. Each checks one sentence of the repository that the code does not keep.

| Run | The text | What the code does |
|---|---|---|
| `longpoll_empty_topic` | `service/iservice.go:12`, "if empty pull from any topic" | an empty topic is a topic like the others; `*` is any |
| `recovery_cancel` | `service/service.go:975`, "cancel a job that is running and put it back in the queue" | a crash between the two events leaves the job canceled for ever |

Other disagreements of text and code, met while modelling, which no run checks:

* `retrypolicy/backoff.go:30` says the first retry waits for base; `ComputeDelay` (line 48)
  makes it wait for base * factor, which is what `Timeouts` has. Its test and the templates
  agree with the code.
* `retrypolicy/backoff.go:20` says the strategy "allows to increase the time between each
  retry". Nothing checks the factor: below 1 (or missing, which is 0) the time of an exponential
  policy decreases, below 0 the retry is due in the past. A type that is not known means no
  delay. `Timeouts` has all of these; `DelaysNeverShrink` is for the policies that grow.
* `metrics/servicemetrics.go:297` says "Only one job can lock a resource at a time"; after
  the admin API released a resource, the START event of the job that lost it shows that job
  as the owner. `ServiceMetrics` does this in `Owners`.
* `metrics/servicemetrics.go:28`: the success rate of a topic is 0 after a load, until the
  next event of the topic (`UpdateMetricsFromJobHistory`).
* `web/webserver/webserver.go:300`: a shutdown request accepted while a restart begins puts
  its signal in the channel of the old run, which nobody reads any more (`Send` in `Server`);
  the next run serves on. The same happens to a TERM of the operating system that comes
  while a restart ends the old run (`OsSignal`).
* `redisprovider/writer.go:29` says that changes are saved "in the order they were made". A
  pipeline that fails may have written some of them and not older ones, of other jobs; if the
  process ends before the retry, a load may find two active jobs with the same resource (the
  end of the first was not saved, the start of the second was). `mixed` in `Recovery` marks
  these loads; what else a crash must keep holds in them too.
* `config/config.go:77` and `redisprovider.go:37` speak of "finished jobs"; only the succeeded
  jobs expire, those that failed for good stay (`OnJobTerminated`).
* The load test: `actionWeights` has no level 5 and `jobScenarioDefinitionWeights` no level 4,
  although line 58 and the option promise more: they are as level 0. `createNewJob` sets the
  failures of a job to 0 (line 400) after the server may have given it to a consumer, whose
  count is then lost; `incJobFailuesCount` (line 486) is not atomic. With unanswered runs
  (level 3 and 4) and several consumers a job may then be counted twice, or never, and the
  test not end: `CountIsReliable` leaves these out. A producer's error counts as a completed
  task (line 474), so that the test waits for a job that may not exist: `TestEnds` is for
  tests without such errors. Without `deletaAllJobsBeforeStart` older jobs count as well:
  `Start` always deletes, or fails to.

### Bounds, and why they are enough

* `Scheduler`: three jobs are what a conflict over locks needs (one holds a resource, one
  waits for it, one could overtake); two resources make a job wait for one while it could
  take the other. The first retry is immediate and the second delayed, so that both paths
  run. Ages beyond `AgeCap` are not told apart: no comparison of the code does. The limits
  need one job more than they allow: three jobs for two places.
* `LongPoll`: a job queued twice, two polls: the second poll may be woken for a job the first
  one took.
* `Timeouts`: a clock of two seconds; a missing, a valid and a too long timeout; a policy of
  each type and of none, one that retries immediately, factors of 3/2, 1/2 and -2; one restart,
  from any of these configurations to any (two, with 15.8 million states, showed nothing else).
* `QueueIndex`: six jobs, since the replacement of a removed entry moves *up* only if it
  comes from another subtree, at depth two.
* `PriorityQueue`: ties need two equal values, and a removal in the middle a third.
* `InMemoryBackend`: a change before, during and after a save, and one more; one failure.
* `RedisProvider`: batches of two with three operations, so that a retry meets a newer write;
  one restart, after or during any of them. Four operations were tried for the safety
  properties (4.9 million states) and showed nothing else.
* `LoadTest`: two consumers at level 2, where their answers meet; one at level 3, where it must
  count by itself, beside a producer. Two failures end a job: the first is retried.
* `Recovery`: three jobs in a chain of two resources; one crash, at any event of any
  operation. A second crash starts from a saved state as the first did. The job in the middle
  of the chain may fail once more than `CrashCostsOneFailure` allows, the first one once.
* `Server`: two runs; what an old run may do to a new one needs no third.
* `JobList`: three jobs in pages of two: a page that is full and one that is not.

### Fairness, and why the code justifies it

* `Scheduler`: time passes; each ticker's case of the select in `Run` is taken (the select
  chooses among the ready cases at random); a pass goes on, since it holds the lock. Nothing
  is assumed of clients and workers.
* `LongPoll`: a poll that can go on does. Deadlines need not come.
* `InMemoryBackend`: the save ticker fires, a save that began goes on, failures are finite.
* `RedisProvider`: an attempt ends (the client has timeouts) and may fail; the stop gives up
  after `flushTimeout`. Only `SavedInTheEnd` assumes, by strong fairness of success, that
  Redis answers in the end; the assumption is part of the property.
* `Recovery`: an operation goes on to its end, and the pending ticker fires.
* `LoadTest`: goroutines run, the server offers and times out the jobs; a job that is pulled
  again and again is drawn a success once (strong fairness: each level gives it a weight).
* `Server`: goroutines run; requests need not end, which is what the drain timeout is for.

The other runs check safety only. Deadlock is not checked where the system may stop
(`RedisProvider`, `LoadTest`, `Server`, the parts) or where all bounds can be used up (`Recovery`,
`ServiceMetrics`).

## 4. What is proved

Eight modules of theorems. Every safety property of the passing runs is the conclusion of one,
for every value of the constants; fairness is never used. Each theorem is of the form
`Spec => []P` or `Spec => [][A]_vars`, or a refinement, and is reached through an inductive
invariant.

They rest on what the models assume of their constants (`SchedulerAssumption`,
`WriterAssumption`, ...): bounds are natural numbers, sets of jobs are finite intervals, the
jobs of the index are numbered in pull order (`IndexAssumption`), the criteria of a list name
fields (`ListAssumption`), priorities are integers (`QueueAssumption`). TLC evaluates all of
them on the instances of the runs. One theorem has a hypothesis of its own:
`DelaysFollowThePolicy` takes `PowersAreDefined`, the two equations that define powers, since
the provers know nothing of `^`.

The small parts share a run; `ProcessParts`, `QueueParts`, `DelayParts` and `Counts` name their
properties for that run and for the theorems, which speak of the specification of the part
alone (`LC!Spec`, `QI!Spec`, ...).

| Module | Theorem | Property |
|---|---|---|
| `SchedulerProofs` | `TypeCorrect` | `TypeOK` |
| | `ContainersAgree` | `OneContainer` |
| | `LocksAgree` | `LocksMatchJobs` |
| | `MutualExclusion` | `ExclusiveUse` |
| | `NoneLeftBehind` | `PendingIsBlocked` |
| | `CompletionIsFinal` | `CompletedIsFinal` |
| | `NoneOvertaken` | `NoOvertaking` |
| | `RetriesAreCounted` | `RetryBudget` |
| | `LimitsAreKept` | `LimitsHold` |
| | `RetentionTakesTheOldest` | `RetentionDeletesOldest`, the safety part of `RetentionIsRight` |
| | `SchedulerImplementsJobQueue` | `ImplementsJobQueue` |
| `QueueProofs` | `NoWakeupIsLost` | `PollsAreRight` |
| | `IndexGivesTheFirst` | `IndexIsRight` |
| | `PagesAreTheList` | `PagesAreRight` |
| `ServerProofs` | `StopsAreRight` | `StopIsRight` |
| | `ReceiversAreToldRight` | `EndsAreTold` |
| | `RunsLeaveNothing` | `RunsEndCleanly` |
| `TimeoutsProofs` | `RunsAreBounded` | `RunIsBounded` |
| | `ExpiredRunsHadTheirTime` | `ExpiredHadTheirTime` |
| | `DelaysFollowThePolicy` | `DelaysAreRight` |
| | `ListIsADelayQueue` | `ImplementsDelayQueue` |
| `InMemoryProofs` | `FileIsTheLastWord` | `FileIsRight` |
| `RecoveryProofs` | `RecoveryRestores` | `RecoveryIsConsistent` |
| | `CrashesCostOneFailureEach` | `CrashCostsOneFailure` |
| | `SavedEndsAreFinal` | `SavedEndIsFinal` |
| `RedisProofs` | `RedisHoldsTheChanges` | `RedisIsRight` |
| | `RetriesBringNothingBack` | `NoOlderVersion` |
| | `RestartsLoseOnlyWhatWaited` | `RestartLosesOnlyWhatWaits` |
| `CountsProofs` | `CountsAreKept` | `CountsAreRight` |
| | `LocksAreRight` | `LocksAreShown` |
| | `EndsAreCountedOnce` | `EachEndCountsOnce` |

### The scheduler

None of the first five is inductive alone. That two jobs never share a resource follows from
who holds the locks (`HoldsAll`, `LocksOwned`); a lock is kept because the job that holds it
is where its state says (`OneContainer`); a pending job is blocked because every release ends
with `TryEnqueue`, whose effect needs both. Their conjunction is `Core`. `IInv` adds that ids
from `nextId` on were never used (`Fresh`, without which a creation could overwrite a job),
that the place in a pass is sound, and types. Lemma `Settled` states once what `TryEnqueue`
gives from any locks and jobs that satisfy the first parts of `Core`; each operation then
needs its own change only. There is one lemma for each operation and one for each group of
actions, which `NextKeeps` combines.

The lemma of an operation says more than that `IInv` is kept: it says which *kind* of step
the operation is (`Kind`: a start, an end, a removal, a creation, a new offer) and that the
step is `Orderly`, that is, that what it admits follows the order of the walk. `NoneOvertaken`
follows from the second. From the first follow

* the books (`BooksAreKept`): failures against retries, numbers of jobs against limits (a step
  adds a job only if it is a creation, which checked the limits; cardinalities by the
  theorems on finite sets), and `Exemptions`, the history of what the admin API took;
* the retention: a pass works on a list made at its beginning (`RetentionList`), and the other
  steps of a pass do not create or complete jobs (`PassRunsAlone`);
* the refinement: each kind is an action of `JobQueue` under the mapping, or a stutter
  (`StartsLeases`, `EndsFinishes`, `OffersServes`, `CreatesSubmits`, `RemovesForgets`). What
  `JobQueue` asks of a lease, that no other lease has its resources, is `ExclusiveUse`.

### The other components

`ServerProofs`, in three parts. A stop of one loop (`Lifecycle`): a loop runs once at most,
none runs after a Stop has returned, Stop answers what happened, and no caller waits for what
will not come; the invariant adds to the types the order of the steps of a stop: `stop` is
closed only after `stopped`, and a caller that saw a started loop returns only after `done`.
The callbacks: what a goroutine tells is a snapshot, and the snapshot of a job that succeeded
or failed stays true (`SnapshotsAreTrue`), since such a job does nothing more; a canceled one
goes on, and its snapshot need not. The process: `Ordered` says how the flags and the places
of the two loops of a run go together, `MainKnows` what the main goroutine has stopped when it
is at a given place, and a run that is over is `Quiet`: its loops do not run and, since both
flags are set, a goroutine that begins only now will not. What a run must keep (its changes
before the timeout of the shutdown) is in the file after its last save (`SavedAtLast`), which
either side may make, and, from the load of the next run on, in the memory of that run, which
writes the file again (`Inherited`).

`TimeoutsProofs`, for any configurations, restarts and clock. The invariant carries that the
accepted timeouts are from 1 to the maximum, that the timeout of a run is at most the largest
maximum it had, and that no date is in the future; for the delays, that a job that waits is not
due before its date, unless a load made it due, and that under a policy that grows the delay of
its last failure was the one its failures ask for, or less (`Waits`). A delay of the exponential
strategy is a quotient of powers, truncated: with a factor of 1 or more the next one is as large,
since a quotient is the largest number whose product with the divisor fits
(`QuotientIsLargest`). That powers are integers is an induction over the numbers, made from the
pigeonhole principle (`SetInduction`).
The linked list of `pq.go` is shown to be a delay queue. The nodes one reaches from a node
(`Walk`) are the least set closed under the links, so that what holds along them follows from
sets that are closed, without induction. The list is in order when each node is ahead of its
successor (`InOrder`); then the first is ahead of all the others, no link leads back
(`NoWayBack`), and the node after which `Enqueue` inserts, or the one before the node that
`Remove` takes out, exists and is one. That the walk of `Enqueue` stops
(`SomeNodeIsTheLast`) is the pigeonhole principle: otherwise the links would map the nodes that
it passes into the same nodes without the first, two of them to one, and no two nodes have one
successor (`LinksDiffer`).

`QueueProofs`, the long polls, for any number of polls, jobs and channels. A poll that waits
for the next wakeup has no candidate; one that waits on a closed channel may have, and will go
on. The invariant says this of each poll (`Fair`); lemma `OnePollMoves` shows that a step of
one leaves the others fair.
The heaps: each loop is the function of its turns, and what it leaves is proved once for all
loops. `TurnsExist`: such a function exists; `LoopEnds`: if each turn keeps a condition and,
until the loop is done, shrinks a number, it is done after that many turns. `up` keeps a heap
in which only the entry at `i` may come before its parent (`OrderedAbove`), `down` one in which
only it may come after its children (`OrderedBelow`), and both keep the grandparent in front
of the grandchildren, without which a swap would break the order elsewhere. An entry removed
from the middle is replaced by the last one, which may be wrong either way: after a `down` that
moved it nothing is left for `up`, after one that did not (`DownStays`) `up` puts it right. The
root is the first of all (`RootIsFirst`), so what `first` pops is in order and in front of what
is left (`TakenFrom`), and pushing it back gives the jobs that were there.
The pages: lists of keys are compared one after the other (`Lex`), the id last, so that two
jobs have one order; the place of a job in a sorted list is the number of jobs before it
(`PlaceIsRank`), and its page that number divided by the limit. Between two pages a job that
was not seen is never behind the next one (`NothingSkipped`): a creation can only push it back
(`CreationsPush`).

`InMemoryProofs`. The file agrees with the copies when the generations say so, because the
save reads the generation before it copies the map, and the service changes the map before
the generation (`CopyIsAsNewAsItsCount`, then `FileIsAsNewAsItsCount`); between its two steps
(`toNotify`) nothing is promised.

`RecoveryProofs`, for any number of crashes. What is saved is the state of the jobs at any
event of any operation, so the invariant must say what such a state looks like. `TodoIsLegal`:
what is left of an operation is one of a few suffixes of events that fit the state of one job
(or the first scheduling of several). `LocksFollow`: the locks are not those of the present
states but of the final ones, `FinalState`, which the remaining events lead to; hence a crash
that forgets these events must rebuild the locks, and two copies never claim one resource
(`Exclusive` of the saved jobs as of the present ones). `FailuresAreCounted`: a job at its
last failure has a TERMINATE to come, unless a crash took it. The exclusion and the locks are
claimed unless a load mixed copies of different moments. The order in which a load schedules
jobs is a sequence defined by ranks; that it lists each job once is proved from
`LeastNumber`, a set of numbers has a least one, which the well-foundedness of `<` gives:
induction without an operator as a parameter.

While this was proved, TLC and the prover found the model wrong: `mixed` told of the last
crash only, and a second crash made the failed exclusion of a first one look like a sound
state. It now remembers all of them. The run has one crash and could not see it; with two
crashes and three jobs (1.8 million states) the corrected properties pass.

`RedisProofs`, for any number of keys and operations, pipelines of any size, any failures and
restarts. All is said of one key (`KeyOk`): its last operation is still to be executed, or the
key is as that operation leaves it and nothing still to be executed touches it
(`SavedOrToSave`); and nothing to be executed is older than what Redis has (`NoneOlder`), but
for one moment. After an attempt that failed, Redis may hold any of the operations that were
tried, so that older ones are in the list; `Coalesce` drops those before the list is sent
again, since it keeps the last operation of each key. `KeyTried` shows that whatever part
of the pipelines was executed (`MayLeave`), retrying all of it is right; `KeyExecuted` that a
success leaves nothing; `KeyCoalesced` that what is dropped was not needed. `JobOk` ties the
job in the service to its last operation, `JobSaved` a job between two processes to what Redis
has, except for those whose operations were `Unsaved`. Two of the recovery properties of the
backend, what a restart keeps and what it may lose, follow.

`CountsProofs`, the metrics: the steps of the jobs are those of `Recovery`, whose invariant is
used as it is proved, in an instance where `mixed` also covers a call of the admin API (both
leave two active jobs with one resource, and it promises no exclusion then). From it come what
an event finds: the job exists, its state is the one the event leaves. Each counter is then
the cardinality of a set of jobs (`Metered`): an event moves one job from one set to another
(`CountFollows`), `OnDeleteAllJobs` empties them, a load counts again. The locks of a topic
are counted in the same way; the owners (`OwnersAreShown`) follow the events, and agree with
the locks when no operation is under way.
The load test: a consumer that the server told the end of a job owes its count (`CountsAreOwed`),
and nobody else does; a consumer that does not answer has only its own count of the failures,
which is never ahead of the server's but for the run that it leaves to its timeout
(`CountIsBehind`). Hence a job it counts as completed is on its last run (`CountedIsOver`),
which no later answer can make anything else of.

### Checked by TLC only

Liveness, the fairness it uses and `ENABLED` are out of reach of the prover. These properties,
and only these of the passing runs, are checked on the instances of section 3 alone:
`RunningEnds`, `WaitingEnds`, `PollsEnd`, `PendingIsServed`, `TestEnds`, `ChangesAreSaved`,
`NobodyWaitsForRedis`, `SavedInTheEnd`, `StopEnds`, and the liveness part of `RetentionIsRight`.

## 5. What is not modelled

* The HTTP layer, beyond the parameters the service relies on; JSON, its schema, Consul, the
  Prometheus export, percentiles, logs, and `cmd/benchmark`: input and output, or arithmetic
  without state.
* Redis: the scan and the reads of a load are one step (nothing else writes then).
* The load test: level 4's changes of a visibility timeout, the retried HTTP requests (a
  retry of `createNewJob` sends an empty body, which the server refuses), the progress.
* A worker that answers for a run that timed out ends the run of the worker that has the job
  now: the API has no token for a run, and the code says nothing about it. `Scheduler` and
  `Api` have this behaviour; `EachEndCountsOnce` is what a client can still rely on.
* Callbacks that wait when the process stops are lost; a restart in the same process leaves
  old goroutines their own slots. `Callbacks` models the first only.
* Metrics with the collection disabled (`OnUnlockAllResources` then leaves the counts of the
  locks as they are).
* What a client misses when jobs are deleted between two pages of a list, which shifts the pages
  that follow: the deletions are in `JobList`, and the code promises nothing about them.
* Changes that a request makes after the timeout of the shutdown are in `Server`, and lost; no
  property is about them.
* Factors that are no fractions (infinite, or not a number), and the rounding of float64.
* Overflow of durations, and a clock that is set back.

## 6. Plan

Done, in this order: `Scheduler` and its proofs, `JobQueue`, `LongPoll`, the backends,
`Lifecycle` with its proofs, `Recovery`, `Server`, `ServiceMetrics`, the queues, `Callbacks`,
`JobList`, `Timeouts` with its proofs; then `RedisProvider`, `Api` and `LoadTest`, and the
copies that a failed pipeline leaves in `Recovery`; then the proofs of the other safety
properties of `Scheduler`, of its refinement of `JobQueue`, of the long polls, of both
backends and of the recovery; at last those of the server, the callbacks, the metrics, the
load test, the delays, the linked list, the heaps and the pages, for which `QueueIndex` and
`PriorityQueue` were freed of recursive definitions.

Next, to extend:

* `RedisProvider` composed with `Recovery`, and the in-memory backend composed with its events;
* durations and percentiles of the metrics;
* callbacks of two runs of one process, each with its own slots;
* the lists of the oldest and of the stalled jobs.
