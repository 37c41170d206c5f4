------------------------------ MODULE Timeouts ------------------------------
(***************************************************************************)
(* The dates and durations of a job: the visibility timeouts, from the     *)
(* configuration and the requests to the check that fails a run, and the   *)
(* delays of the retries.  Jobs need no resource here, so that a queued    *)
(* job can be pulled and a due job is always queued (Scheduler models the  *)
(* resources, without dates).                                              *)
(*                                                                         *)
(* The clock counts the units of the code's milliseconds; a second has     *)
(* Second of them.  The factor of a policy, any float64 in the code, is a  *)
(* fraction, negative too; its rounding, infinities and the overflow of    *)
(* durations are left out.                                                 *)
(***************************************************************************)
EXTENDS Integers, FiniteSets

CONSTANTS
  Jobs,
  Second,          \* milliseconds in a second
  DefaultTimeout, MaxTimeout,  \* constants of the code, for what the configuration leaves out
  Configs,         \* files: jobs.defaultVisibilityTimeout, .maxVisibilityTimeout, .retryPolicy
  Queries,         \* values of the parameter visibilityTimeout
  StartDates,      \* startAfter of the requests
  StartDelays,     \* delay of the requests, in seconds
  MaxTime,         \* bound: the clock
  MaxLoads         \* bound: restarts

ASSUME TimeoutsAssumption ==
  /\ Second \in Nat \ {0} /\ MaxTime \in Nat /\ MaxLoads \in Nat
  /\ DefaultTimeout \in Nat \ {0} /\ MaxTimeout \in Nat \ {0}
  /\ Queries \subseteq Nat /\ StartDates \cup StartDelays \subseteq Nat
  /\ \A c \in Configs :
       /\ {c.default, c.max} \subseteq Nat
       /\ {c.retry.maxRetry, c.retry.base, c.retry.maxDuration} \subseteq Nat
       /\ c.retry.factor.num \in Int /\ c.retry.factor.den \in Nat \ {0}

VARIABLES
  now,
  conf,     \* visibility timeouts of the running server, and its retry policy
  jobs,     \* the jobs that exist
  loads,    \* number of restarts
  checked,  \* history: the date of the last check of the visibility timeouts
  expired   \* history: what the last step failed because of its timeout

vars == <<now, conf, jobs, loads, checked, expired>>

Smallest(a, b) == IF a <= b THEN a ELSE b
Exists == DOMAIN jobs
In(state) == {j \in Exists : jobs[j].state = state}

-----------------------------------------------------------------------------
(* Config.setVisibilityTimeouts: 0 stands for a missing value.             *)

EffectiveMax(max) == IF max = 0 THEN MaxTimeout ELSE max

EffectiveDefault(default, max) ==
  IF default = 0 THEN Smallest(DefaultTimeout, EffectiveMax(max)) ELSE default

\* Mutant: the default is not compared to the maximum.
AcceptedAlways(default, max) == default \in Nat /\ max \in Nat

Accepted(default, max) == EffectiveDefault(default, max) <= EffectiveMax(max)

\* The configurations that a server can start with.
LoadConfig ==
  {[default |-> EffectiveDefault(c.default, c.max), max |-> EffectiveMax(c.max), retry |-> c.retry] :
     c \in {d \in Configs : Accepted(d.default, d.max)}}

Init ==
  /\ now = 0 /\ checked = 0 /\ expired = {} /\ loads = 0
  /\ jobs = [j \in {} |-> 0]
  /\ conf \in LoadConfig

-----------------------------------------------------------------------------
(* The requests.                                                           *)

\* Mutant: the smallest value is not checked.
AskedFromZero == {conf.default} \cup {q \in Queries : q <= conf.max}

\* GetUintParameterFromQuery: the default timeout, without a parameter, or a value of the
\* parameter that is not refused.
Asked == {conf.default} \cup {q \in Queries : 1 <= q /\ q <= conf.max}

\* NewJobFromRequest: the delay of the request, in seconds, counts from its startAfter or
\* from now.
StartAfter(after, delay) ==
  IF delay = 0 THEN after ELSE (IF after = 0 THEN now ELSE after) + delay * Second

\* due is the date in the queue of the delayed jobs or of the retries.  The last fields are
\* history: the largest maximum that bounded the timeouts of the run, the earliest start that
\* the request or the policy allows, the last delay of the policy, whether a load cut it short.
NewJob ==
  [state |-> "queued", updated |-> now, timeout |-> 0, failures |-> 0, due |-> 0,
   granted |-> 0, asked |-> now, delay |-> 0, loaded |-> FALSE]

\* A created job waits for its start, or is queued.
CreateJob(j, after, delay) ==
  /\ j \notin Exists
  /\ LET start == StartAfter(after, delay)
         new == [NewJob EXCEPT !.asked = (IF after = 0 THEN now ELSE after) + delay * Second]
     IN  jobs' = [i \in Exists \cup {j} |->
           IF i # j THEN jobs[i]
           ELSE IF start > now THEN [new EXCEPT !.state = "delayed", !.due = start] ELSE new]
  /\ expired' = {}
  /\ UNCHANGED <<now, conf, loads, checked>>

Pull(j, timeout) ==
  /\ j \in In("queued")
  /\ jobs' = [jobs EXCEPT ![j].state = "running", ![j].updated = now, ![j].timeout = timeout,
                          ![j].granted = conf.max, ![j].asked = 0, ![j].loaded = FALSE]
  /\ expired' = {}
  /\ UNCHANGED <<now, conf, loads, checked>>

\* The timeout of a job can be changed in any state; its date of last update does not change.
ChangeVisibilityTimeout(j, timeout) ==
  /\ j \in Exists
  /\ jobs' = [jobs EXCEPT ![j].timeout = timeout,
                          ![j].granted = IF @ >= conf.max THEN @ ELSE conf.max]
  /\ expired' = {}
  /\ UNCHANGED <<now, conf, loads, checked>>

-----------------------------------------------------------------------------
(* The failures and the retries.                                           *)

\* The conversion of a float64 to a duration cuts the fraction off.
Truncated(x, d) == IF x >= 0 THEN x \div d ELSE -((-x) \div d)

\* Mutant: the delay starts again when it reaches its maximum.
ComputeDelayAgain(p, n) ==
  LET full == IF p.type = "linear" THEN n * p.base ELSE Truncated(p.base * p.factor.num ^ n, p.factor.den ^ n)
  IN  IF p.type = "constant" \/ full > p.maxDuration THEN p.base ELSE full

\* The delay after n failures; none for a strategy that the code does not know.
ComputeDelay(p, n) ==
  CASE p.type = "constant" -> p.base
    [] p.type = "linear" -> Smallest(p.maxDuration, n * p.base)
    [] p.type = "exponential" ->
         Smallest(p.maxDuration, Truncated(p.base * p.factor.num ^ n, p.factor.den ^ n))
    [] OTHER -> 0

\* failJobLocked, of a job's record.
AfterFailure(r) ==
  LET n == r.failures + 1
      delay == ComputeDelay(conf.retry, n)
      failed == [r EXCEPT !.failures = n, !.updated = now]
      retried == [failed EXCEPT !.asked = now + delay, !.delay = delay]
  IN  IF n >= conf.retry.maxRetry THEN [failed EXCEPT !.state = "terminated"]
      ELSE IF delay = 0 THEN [retried EXCEPT !.state = "queued"]
      ELSE [retried EXCEPT !.state = "hidden", !.due = now + delay]

FailJob(j) ==
  /\ j \in In("running")
  /\ jobs' = [jobs EXCEPT ![j] = AfterFailure(@)]
  /\ expired' = {}
  /\ UNCHANGED <<now, conf, loads, checked>>

SetJobAsSuccessful(j) ==
  /\ j \in In("running")
  /\ jobs' = [jobs EXCEPT ![j].state = "succeeded", ![j].updated = now]
  /\ expired' = {}
  /\ UNCHANGED <<now, conf, loads, checked>>

\* The jobs that CheckJobsVisibilityTimeout fails.
Overdue == {j \in In("running") : now - jobs[j].updated >= jobs[j].timeout * Second}

CheckVisibilityTimeouts ==
  /\ jobs' = [j \in Exists |-> IF j \in Overdue THEN AfterFailure(jobs[j]) ELSE jobs[j]]
  /\ checked' = now
  /\ expired' = {[ran |-> now - jobs[j].updated, timeout |-> jobs[j].timeout] : j \in Overdue}
  /\ UNCHANGED <<now, conf, loads>>

\* AttemptJobRetries and CheckDelayedJobs take the jobs that are due from their queues.
Due(state) == {j \in In(state) : jobs[j].due <= now}

QueueDue(state) ==
  /\ Due(state) # {}
  /\ jobs' = [j \in Exists |->
       IF j \in Due(state) THEN [jobs[j] EXCEPT !.state = "queued", !.updated = now, !.due = 0] ELSE jobs[j]]
  /\ expired' = {}
  /\ UNCHANGED <<now, conf, loads, checked>>

AttemptRetries == QueueDue("hidden")
CheckDelayedJobs == QueueDue("delayed")

\* The server stops, nothing is lost, and another one loads the jobs, with a configuration that
\* may have changed: the hidden jobs are due at once.
LoadJobs ==
  /\ loads < MaxLoads
  /\ \E c \in LoadConfig :
       /\ conf' = c
       /\ jobs' = [j \in Exists |->
            LET r == [jobs[j] EXCEPT !.delay = IF c.retry = conf.retry THEN @ ELSE 0]
            IN  IF r.state = "hidden" THEN [r EXCEPT !.due = now, !.loaded = TRUE] ELSE r]
  /\ loads' = loads + 1
  /\ expired' = {}
  /\ UNCHANGED <<now, checked>>

Tick ==
  /\ now < MaxTime
  /\ now' = now + 1
  /\ expired' = {}
  /\ UNCHANGED <<conf, jobs, loads, checked>>

Next ==
  \/ \E j \in Jobs, after \in StartDates, delay \in StartDelays : CreateJob(j, after, delay)
  \/ \E j \in Jobs, timeout \in Asked : Pull(j, timeout)
  \/ \E j \in Jobs, timeout \in Asked : ChangeVisibilityTimeout(j, timeout)
  \/ \E j \in Jobs : FailJob(j) \/ SetJobAsSuccessful(j)
  \/ CheckVisibilityTimeouts
  \/ AttemptRetries
  \/ CheckDelayedJobs
  \/ LoadJobs
  \/ Tick

Spec == Init /\ [][Next]_vars

-----------------------------------------------------------------------------
\* A job that its timeout fails had run for its whole timeout, and for a second at least,
\* whatever the configuration leaves out and the requests ask for.
ExpiredHadTheirTime == \A e \in expired : e.ran >= Second /\ e.ran >= e.timeout * Second

\* No run goes on, once a check has passed, for longer than the longest visibility timeout that
\* a request or the configuration could give it: a worker that is gone keeps its job, and its
\* resources, no longer than that, even if a restart changed the maximum meanwhile.
RunIsBounded == \A j \in In("running") : checked < jobs[j].updated + jobs[j].granted * Second

\* No job is queued before the date its request asked for, or before the delay of its failure
\* is over, unless it waited for a retry when the server was loaded ("can retry the job now").
NoEarlyStart == \A j \in In("queued") : jobs[j].loaded \/ jobs[j].asked <= jobs[j].updated

\* The strategies whose delays are meant to grow: all but a factor below 1, which the
\* configuration does not refuse (the retries of such a policy come faster and faster).
Grows(p) == p.type = "exponential" => p.factor.num >= p.factor.den

\* Under such a policy, a failed job waits at least as long as after its failure before, also
\* if the server was loaded between the two, with the same policy.
DelaysNeverShrink ==
  Grows(conf.retry) =>
    \A j \in Exists :
      jobs'[j].failures > jobs[j].failures /\ jobs'[j].state # "terminated" =>
        jobs[j].delay <= jobs'[j].delay

\* No step sets a wrong delay, or ends one too early.
DelaysAreRight == [][NoEarlyStart' /\ DelaysNeverShrink]_vars
=============================================================================
