------------------------------ MODULE LoadTest ------------------------------
(***************************************************************************)
(* The load test (cmd/loadtest): producers create jobs, consumers pull and *)
(* end them, and the test is over when as many jobs were completed as were *)
(* created.  The jobs that fail until the server gives them up count as    *)
(* completed too, and a consumer that does not answer must know by itself  *)
(* when that happens: it counts the failures of each job.                  *)
(*                                                                         *)
(* The server is the queue of module JobQueue, through the requests of     *)
(* module Api.  Between the pull of a job and the request that ends it a   *)
(* consumer may be late: its run times out and the job goes to another.    *)
(***************************************************************************)
EXTENDS Api, Functions, FiniteSets

CONSTANT Settings  \* a set of [level : monkeyTestLevel, workers : how many producers and how
                   \* many consumers (max(1, concurrency / 2)), old : the jobs that the
                   \* server has before the test]

VARIABLES
  settings,
  faulty,        \* consumers may be late, and answers be lost
  main,          \* where run_load_test is
  tasks,         \* left in the channel
  producer,      \* producer -> the job it created and has not noted yet
  producerCompleted, producerErrors,
  consumer,      \* consumer -> where it is
  jobsFailures,  \* a job without an entry has 0
  noted,         \* history: job -> the failures the consumers counted
  counted        \* history: job -> how many times it was counted as completed

options == <<settings, faulty>>
monkeyTestLevel == settings.level
Workers == 1 .. settings.workers

\* The jobs of the test, one for each iteration.
NewJobs == Jobs \ settings.old
clientVars == <<options, main, tasks, producer, producerCompleted, producerErrors,
                consumer, jobsFailures, noted, counted>>
ltVars == <<apiVars, clientVars>>

NoJob == "no job"
Pulling == [pc |-> "pull", job |-> NoJob, action |-> "none", reached |-> FALSE, value |-> 0]

\* consumerCompleted
ConsumerCompleted == FoldFunction(LAMBDA n, m : n + m, 0, counted)

\* actionWeights: the actions whose weight is not 0.  A level that is not in the map is as
\* level 0.
Actions(level) ==
  {"success"} \cup (IF level \in 1 .. 4 THEN {"cancel"} ELSE {})
              \cup (IF level \in 2 .. 4 THEN {"failure"} ELSE {})
              \cup (IF level \in 3 .. 4 THEN {"timeout"} ELSE {})

\* jobScenarioDefinitionWeights, which has no level 4: the resources a new job may need.
Scenarios(level) == IF level \in 2 .. 3 THEN SUBSET Resources ELSE {{}}

\* "This number must be the same as the server yaml configuration" (loadtest.go:38).
JobMaxFailures == MaxRetry

LTInit ==
  /\ settings \in Settings /\ faulty \in BOOLEAN
  /\ phase = [j \in Jobs |-> IF j \in settings.old THEN "ready" ELSE "none"]
  /\ needs = [j \in Jobs |-> {}] /\ exempt = {} /\ fails = [j \in Jobs |-> 0]
  /\ main = "start" /\ tasks = 0
  /\ producer = [p \in Workers |-> NoJob] /\ producerCompleted = 0 /\ producerErrors = 0
  /\ consumer = [c \in Workers |-> Pulling]
  /\ jobsFailures = [j \in Jobs |-> 0] /\ noted = jobsFailures /\ counted = jobsFailures

-----------------------------------------------------------------------------
(* run_load_test, with deleteAllJobsBeforeStart.                           *)

Start ==
  /\ main = "start"
  /\ DeleteAllJobs \/ (faulty /\ Refused)
  /\ main' = "produce" /\ tasks' = Cardinality(NewJobs)
  /\ UNCHANGED <<options, producer, producerCompleted, producerErrors,
                 consumer, jobsFailures, noted, counted>>

ProducersDone ==
  /\ main = "produce" /\ tasks = 0 /\ \A p \in Workers : producer[p] = NoJob
  /\ main' = "consume"
  /\ UNCHANGED <<apiVars, options, tasks, producer, producerCompleted,
                 producerErrors, consumer, jobsFailures, noted, counted>>

End ==
  /\ main = "consume" /\ \A c \in Workers : consumer[c].pc = "over"
  /\ main' = "over"
  /\ UNCHANGED <<apiVars, options, tasks, producer, producerCompleted,
                 producerErrors, consumer, jobsFailures, noted, counted>>

-----------------------------------------------------------------------------
(* The producers.                                                          *)

producerVars == <<tasks, producer, producerCompleted, producerErrors>>
UntouchedByProducers == UNCHANGED <<options, main, consumer, noted, counted>>

Idle(p) == main = "produce" /\ producer[p] = NoJob

Create(p) ==
  /\ Idle(p) /\ tasks > 0
  /\ tasks' = tasks - 1
  /\ \E j \in NewJobs, R \in Scenarios(monkeyTestLevel) :
       CreateJob(j, R) /\ producer' = [producer EXCEPT ![p] = j]
  /\ UNCHANGED <<producerCompleted, producerErrors, jobsFailures>>
  /\ UntouchedByProducers

\* Refused by the server, or given up after the retries: the job may exist all the same.
\* The task counts as completed.
CreateFails(p) ==
  /\ faulty /\ Idle(p) /\ tasks > 0
  /\ tasks' = tasks - 1
  /\ \/ Refused
     \/ \E j \in NewJobs, R \in Scenarios(monkeyTestLevel) : CreateJob(j, R)
  /\ producerErrors' = producerErrors + 1
  /\ producerCompleted' = producerCompleted + 1
  /\ UNCHANGED <<producer, jobsFailures>>
  /\ UntouchedByProducers

\* The end of createNewJob: the job begins without failures, whatever a consumer has
\* already counted.
Note(p) ==
  /\ producer[p] # NoJob
  /\ jobsFailures' = [jobsFailures EXCEPT ![producer[p]] = 0]
  /\ producer' = [producer EXCEPT ![p] = NoJob]
  /\ producerCompleted' = producerCompleted + 1
  /\ UNCHANGED <<apiVars, tasks, producerErrors>>
  /\ UntouchedByProducers

-----------------------------------------------------------------------------
(* The consumers.                                                          *)

UntouchedByConsumers == UNCHANGED <<options, main, producerVars>>
counts == <<jobsFailures, noted, counted>>

Become(c, state) == consumer' = [consumer EXCEPT ![c] = state]

\* The condition of the loop of consume: not every job that was created is completed.
MoreToDo == main \notin {"consume", "over"} \/ producerCompleted # ConsumerCompleted

\* A consumer that will not answer goes on with its count at once.
Pull(c, j, a) ==
  /\ main # "start" /\ consumer[c].pc = "pull" /\ MoreToDo
  /\ a \in Actions(monkeyTestLevel)
  /\ PullJob(j)
  /\ Become(c, [Pulling EXCEPT !.pc = IF a = "timeout" THEN "load" ELSE "pulled",
                               !.job = j, !.action = a])
  /\ UNCHANGED counts /\ UntouchedByConsumers

\* The answer of the pull is lost: the job runs and nobody knows.
PullLost(c) ==
  /\ faulty /\ main # "start" /\ consumer[c].pc = "pull" /\ MoreToDo
  /\ \E j \in Jobs : PullJob(j)
  /\ UNCHANGED <<consumer, counts>> /\ UntouchedByConsumers

\* SetJobStatus when the server accepts the request, for the action that was chosen.
Answer(c, a) == consumer[c].pc = "pulled" /\ consumer[c].action = a

Succeed(c) ==
  /\ Answer(c, "success")
  /\ SetJobAsSuccessful(consumer[c].job)
  /\ Become(c, [consumer[c] EXCEPT !.pc = "succeeded"])
  /\ UNCHANGED counts /\ UntouchedByConsumers

CountSuccess(c) ==
  /\ consumer[c].pc = "succeeded"
  /\ counted' = [counted EXCEPT ![consumer[c].job] = @ + 1]
  /\ Become(c, Pulling)
  /\ UNCHANGED <<apiVars, jobsFailures, noted>> /\ UntouchedByConsumers

Cancel(c) ==
  /\ Answer(c, "cancel")
  /\ CancelJob(consumer[c].job)
  /\ Become(c, Pulling)
  /\ UNCHANGED counts /\ UntouchedByConsumers

Fail(c) ==
  /\ Answer(c, "failure")
  /\ FailJob(consumer[c].job)
  /\ Become(c, [consumer[c] EXCEPT !.pc = "load", !.reached = ReachesMaxRetry(consumer[c].job)])
  /\ UNCHANGED counts /\ UntouchedByConsumers

\* The job does not run any more: an error for the consumer.
RequestRefused(c) ==
  /\ consumer[c].pc = "pulled" /\ phase[consumer[c].job] # "leased"
  /\ Refused
  /\ Become(c, Pulling)
  /\ UNCHANGED counts /\ UntouchedByConsumers

\* An error too, although the server has ended the run.
AnswerLost(c) ==
  /\ faulty
  /\ \/ Answer(c, "success") /\ SetJobAsSuccessful(consumer[c].job)
     \/ Answer(c, "failure") /\ FailJob(consumer[c].job)
  /\ Become(c, Pulling)
  /\ UNCHANGED counts /\ UntouchedByConsumers

\* incJobFailuesCount: a load, then a store.
LoadFailures(c) ==
  /\ consumer[c].pc = "load"
  /\ Become(c, [consumer[c] EXCEPT !.pc = "store", !.value = jobsFailures[consumer[c].job]])
  /\ UNCHANGED <<apiVars, counts>> /\ UntouchedByConsumers

StoreAnd(c, complete) ==
  LET j == consumer[c].job
  IN  /\ consumer[c].pc = "store"
      /\ jobsFailures' = [jobsFailures EXCEPT ![j] = consumer[c].value + 1]
      /\ noted' = [noted EXCEPT ![j] = @ + 1]
      /\ counted' = [counted EXCEPT ![j] = IF complete THEN @ + 1 ELSE @]
      /\ Become(c, Pulling)
      /\ UNCHANGED apiVars /\ UntouchedByConsumers

\* Mutant: the job that failed counts as completed, whatever the server answered.
StoreAndComplete(c) ==
  StoreAnd(c, consumer[c].action = "failure" \/ consumer[c].value + 1 >= JobMaxFailures)

\* Mutant: one failure too many is waited for.
StoreOneMore(c) ==
  StoreAnd(c, IF consumer[c].action = "failure" THEN consumer[c].reached
              ELSE consumer[c].value + 1 > JobMaxFailures)

\* The job is complete if the server said so, or, without an answer, by the count.
StoreFailures(c) ==
  StoreAnd(c, IF consumer[c].action = "failure" THEN consumer[c].reached
              ELSE consumer[c].value + 1 >= JobMaxFailures)

Leave(c) ==
  /\ consumer[c].pc = "pull" /\ ~MoreToDo
  /\ Become(c, [Pulling EXCEPT !.pc = "over"])
  /\ UNCHANGED <<apiVars, counts>> /\ UntouchedByConsumers

ConsumerStep(c) ==
  \/ Succeed(c) \/ CountSuccess(c) \/ Cancel(c) \/ Fail(c) \/ RequestRefused(c)
  \/ LoadFailures(c) \/ StoreFailures(c) \/ Leave(c)

-----------------------------------------------------------------------------
(* The server.                                                             *)

\* A consumer that is not late has done with its run before the time of the run is over;
\* one that will not answer only has to count, and is never late.
TimeOut(j) ==
  /\ \A c \in Workers : consumer[c].job = j => faulty /\ consumer[c].action # "timeout"
  /\ RunTimesOut(j)
  /\ UNCHANGED clientVars

ServerStep(j) == TimeOut(j) \/ (OfferJob(j) /\ UNCHANGED clientVars)

LTNext ==
  \/ Start \/ ProducersDone \/ End
  \/ \E p \in Workers : Create(p) \/ CreateFails(p) \/ Note(p)
  \/ \E c \in Workers : ConsumerStep(c) \/ PullLost(c) \/ AnswerLost(c)
  \/ \E c \in Workers, j \in Jobs, a \in Actions(monkeyTestLevel) : Pull(c, j, a)
  \/ \E j \in Jobs : ServerStep(j)

MaxWorkers == CHOOSE n \in {s.workers : s \in Settings} : \A s \in Settings : s.workers <= n

(* Goroutines run, the server offers the jobs and times out the runs.  The *)
(* action is drawn at random for each pull, with a weight for the success  *)
(* at every level: a job that is pulled again and again succeeds.          *)
LTFairness ==
  /\ WF_ltVars(Start) /\ WF_ltVars(ProducersDone) /\ WF_ltVars(End)
  /\ \A w \in 1 .. MaxWorkers :
       /\ WF_ltVars(w \in Workers /\ (Create(w) \/ Note(w)))
       /\ WF_ltVars(w \in Workers /\ ConsumerStep(w))
  /\ \A j \in Jobs : WF_ltVars(ServerStep(j)) /\ SF_ltVars(\E c \in Workers : Pull(c, j, "success"))

LTSpec == LTInit /\ [][LTNext]_ltVars /\ LTFairness

-----------------------------------------------------------------------------
\* The count of the failures is for the consumers that do not answer, and for one consumer
\* only: several ones count the same failure in any order.
CountIsReliable == monkeyTestLevel <= 2 \/ settings.workers = 1

\* Each job counts as completed once at most, and then "the server will not retry this job"
\* (loadtest.go:740), however late the answers: a late answer may end the run of another
\* consumer, whose own answer is then refused.
EachEndCountsOnce ==
  CountIsReliable =>
    \A j \in Jobs : counted[j] <= 1 /\ (counted[j] = 1 => phase[j] \in {"leased", "done"})

\* The test ends if no consumer is late and no answer is lost, unless createNewJob reset
\* the count of a job that was pulled meanwhile.
TestEnds ==
  faulty \/ ~CountIsReliable \/ <>(main = "over") \/ <>(monkeyTestLevel >= 3 /\ jobsFailures # noted)
=============================================================================
