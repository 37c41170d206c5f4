---------------------------- MODULE RedisProvider ----------------------------
(***************************************************************************)
(* The Redis backend (redisprovider.go): the events of the service become  *)
(* operations of the writer, in the order they were notified; Redis itself *)
(* removes a succeeded job when its time is over; and a process that       *)
(* starts, after a stop or a crash of another one, loads the jobs Redis    *)
(* has.                                                                    *)
(*                                                                         *)
(* A job is the key it is saved under.  Of its copies only what decides    *)
(* their life in Redis is kept: open, succeeded, or failed.                *)
(***************************************************************************)
EXTENDS RedisWriter

CONSTANTS
  FinishedJobTTL,  \* backend.redis.finishedJobTTL
  MaxRestarts      \* bound: stops and crashes

ASSUME ProviderAssumption == FinishedJobTTL \in Nat /\ MaxRestarts \in Nat

VARIABLES
  job,      \* the jobs of the service: "none" (not created yet), their state, or "gone"
  restarts,
  lost      \* history: the keys that the last process had not saved

providerVars == <<job, restarts, lost>>
allVars == <<vars, providerVars>>

Exists(k) == job[k] \notin {"none", "gone"}

ProviderInit ==
  /\ Init
  /\ job = [k \in Keys |-> "none"] /\ restarts = 0 /\ lost = {}

-----------------------------------------------------------------------------
(* The events, notified with the lock of the service.                      *)

\* saveJob: the copy is the job as it is then.
SaveJob(k, state, ttl) ==
  /\ Push(SetOp(k, state, ttl))
  /\ job' = [job EXCEPT ![k] = state]
  /\ UNCHANGED <<restarts, lost>>

OnJobCreated(k) == job[k] = "none" /\ SaveJob(k, "open", FALSE)

\* Delayed, pending, enqueued, started, canceled, failed or hidden.
OnJobEvent(k) == job[k] = "open" /\ SaveJob(k, "open", FALSE)

OnJobSucceeded(k) == job[k] = "open" /\ SaveJob(k, "succeeded", FinishedJobTTL # 0)

OnJobTerminated(k) == job[k] = "open" /\ SaveJob(k, "failed", FALSE)

\* Mutant: a completed job is saved again.
OnAnyJobUpdated(k) == Exists(k) /\ SaveJob(k, job[k], FALSE)

\* The copy of a completed job is left alone.
OnJobUpdated(k) == job[k] = "open" /\ SaveJob(k, job[k], FALSE)

OnJobDeleted(k) ==
  /\ Exists(k)
  /\ Push(DelOp(k))
  /\ job' = [job EXCEPT ![k] = "gone"]
  /\ UNCHANGED <<restarts, lost>>

OnJobsDeleted ==
  /\ Push(DelAllOp)
  /\ job' = [k \in Keys |-> IF Exists(k) THEN "gone" ELSE job[k]]
  /\ UNCHANGED <<restarts, lost>>

ServiceStep ==
  \/ \E k \in Keys : OnJobCreated(k) \/ OnJobEvent(k) \/ OnJobSucceeded(k) \/ OnJobTerminated(k)
                      \/ OnJobUpdated(k) \/ OnJobDeleted(k)
  \/ OnJobsDeleted

-----------------------------------------------------------------------------
(* Redis, and the processes.                                               *)

\* A key that was set with an expiration goes, at any time.
Expire(k) ==
  /\ redis[k] # 0 /\ op[redis[k]].ttl
  /\ redis' = [redis EXCEPT ![k] = 0]
  /\ UNCHANGED <<queueVars, flags, loopVars, target, providerVars>>

\* What was not written, or may not have been.
Unsaved ==
  {i \in 1 .. pushed : i > taken} \cup retry
    \cup (IF loop = "execute" \/ (loop \in {"attempted", "attempt handled"} /\ failed) THEN ops ELSE {})

(* The process ends at any moment, stopped or not, and another one makes a *)
(* new writer.  What the old one had in memory is lost; its operations     *)
(* that are still seen in Redis keep their numbers.                        *)
Restart ==
  /\ running /\ restarts < MaxRestarts
  /\ restarts' = restarts + 1
  /\ lost' = UNION {op[i].keys : i \in Unsaved}
  /\ op' = [i \in 1 .. MaxOps |-> IF \E k \in Keys : redis[k] = i THEN op[i] ELSE None]
  /\ taken' = pushed /\ done' = pushed
  /\ running' = FALSE /\ closed' = FALSE /\ abandon' = FALSE
  /\ loop' = "off" /\ ops' = {} /\ failed' = FALSE /\ retry' = {} /\ ok' = TRUE
  /\ target' = [q \in Requests |-> 0]
  /\ UNCHANGED <<pushed, redis, job>>

\* The jobs are what Redis has, then the writer starts.
LoadJobs ==
  /\ Start
  /\ job' = [k \in Keys |-> CASE redis[k] # 0 -> op[redis[k]].value
                             [] redis[k] = 0 /\ ~Exists(k) -> job[k]
                             [] OTHER -> "gone"]
  /\ UNCHANGED <<restarts, lost>>

ProviderNext ==
  \/ ServiceStep
  \/ WriterStep /\ UNCHANGED providerVars
  \/ \E k \in Keys : Expire(k)
  \/ Restart \/ LoadJobs

(* The loop goes on, a request that may go on does, and a stop does not    *)
(* wait for ever.  Redis may be down for ever: an attempt ends (go-redis   *)
(* has timeouts) but need not succeed.                                     *)
ProviderFairness ==
  /\ WF_allVars(LoopStep /\ UNCHANGED providerVars)
  /\ WF_allVars(GiveUp /\ UNCHANGED providerVars)
  /\ \A q \in Requests : WF_allVars(Released(q) /\ UNCHANGED providerVars)

ProviderSpec == ProviderInit /\ [][ProviderNext]_allVars
FairProviderSpec == ProviderSpec /\ ProviderFairness

-----------------------------------------------------------------------------
\* Redis has what the first n operations leave, but for what has expired since.
Holds(n) ==
  \A k \in Keys : redis[k] = Wanted(n)[k] \/ (redis[k] = 0 /\ op[Wanted(n)[k]].ttl)

\* A healthy provider has saved every change the requests were released for: what a
\* partial failure left behind is made good before `healthy' is said again.
HealthyMeansSaved == ok /\ loop \in {"take", "execute", "exited"} => Holds(done)

\* A stop that does not give up loses nothing, even the operations queued just before it.
StopWritesEverything == loop = "exited" /\ ~abandon => Holds(pushed)

\* The succeeded jobs expire, whatever was done to them since, and they only
\* (redisprovider.go:301: "a SET would remove the expiration of a succeeded job").
OnlySucceededJobsExpire ==
  \A k \in Keys : redis[k] # 0 =>
    (op[redis[k]].ttl <=> op[redis[k]].value = "succeeded" /\ FinishedJobTTL # 0)

\* What Redis holds when the writer says that all is well, or ends, is what it must hold,
\* and for as long as it must.
RedisIsRight == HealthyMeansSaved /\ StopWritesEverything /\ OnlySucceededJobsExpire

\* The retries never bring back an older version of a job.
NoOlderVersion ==
  [][\A k \in Keys : redis'[k] = 0 \/ redis'[k] >= redis[k]]_allVars

\* A process finds each job as the last one left it, unless its last change was still
\* waiting to be written: no job is back in an earlier state, none has gone but those
\* that were deleted and the succeeded ones that have expired.
RestartLosesOnlyWhatWaits ==
  [][LoadJobs => \A k \in Keys \ lost :
        job'[k] = job[k] \/ (job[k] = "succeeded" /\ FinishedJobTTL # 0 /\ job'[k] = "gone")]_allVars

\* A request does not wait for Redis to come back: one attempt releases it.
RequestsAreReleased == \A q \in Requests : target[q] # 0 ~> target[q] = 0

\* The loop ends after a stop, even if Redis never answers.
LoopEnds == (closed /\ running) ~> loop \in {"exited", "off"}

\* Neither a request nor a stop waits for Redis.
NobodyWaitsForRedis == RequestsAreReleased /\ LoopEnds

\* Redis answers again in the end: attempts do not fail for ever.
RedisComesBack == SF_allVars(Execute /\ UNCHANGED providerVars)

\* Once Redis is back every change is saved, in order, unless the stop gave up or the
\* process ended.
SavedInTheEnd ==
  RedisComesBack =>
    \A n \in 1 .. MaxOps :
      (pushed = n /\ running) ~> ((done >= n /\ ok) \/ abandon \/ ~running)
=============================================================================
