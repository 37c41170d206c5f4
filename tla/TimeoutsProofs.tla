--------------------------- MODULE TimeoutsProofs ----------------------------
(***************************************************************************)
(* What the visibility timeouts and the delays of the retries guarantee,   *)
(* for any configuration, retry policy, requests and dates; and what the   *)
(* priority queue of package queue guarantees, for any values.             *)
(***************************************************************************)
EXTENDS Timeouts, DelayParts, FiniteSetTheorems, TLAPS

-----------------------------------------------------------------------------
(* Products of positive durations.                                         *)

LEMMA ProductIsMonotonic ==
  \A a \in Nat, b \in Nat, c \in Nat \ {0} : a <= b => a * c <= b * c
OBVIOUS

LEMMA ProductIsLonger ==
  \A a \in Nat \ {0}, c \in Nat \ {0} : a * c \in Nat /\ a * c >= c
OBVIOUS

-----------------------------------------------------------------------------
(* The inductive invariant.                                                *)

Fields == {"state", "updated", "timeout", "failures", "due", "granted", "asked", "delay", "loaded"}

\* A date is not in the future.
Dated(r) ==
  /\ DOMAIN r = Fields
  /\ r.updated \in Nat /\ r.updated <= now /\ r.timeout \in Nat /\ r.granted \in Nat

\* A policy of a configuration: a factor of any sign.
SoundPolicy(p) ==
  /\ p.base \in Nat /\ p.maxDuration \in Nat
  /\ p.factor.num \in Int /\ p.factor.den \in Nat \ {0}

\* A configuration that was accepted.
SoundConf(c) == c.max \in Nat \ {0} /\ c.default \in 1 .. c.max /\ SoundPolicy(c.retry)

\* A running job has a timeout that one of its configurations allowed.
TimeoutsAreAllowed == \A j \in In("running") : jobs[j].timeout \in 1 .. jobs[j].granted

IInv ==
  /\ now \in Nat /\ checked \in Nat /\ checked <= now
  /\ SoundConf(conf)
  /\ \A j \in Exists : Dated(jobs[j])
  /\ TimeoutsAreAllowed
  /\ RunIsBounded
  /\ ExpiredHadTheirTime

LEMMA LoadedConfIsSound == ASSUME NEW c \in LoadConfig PROVE SoundConf(c)
<1>1. PICK d \in Configs :
        /\ Accepted(d.default, d.max)
        /\ c = [default |-> EffectiveDefault(d.default, d.max), max |-> EffectiveMax(d.max), retry |-> d.retry]
  BY DEF LoadConfig
<1>2. EffectiveMax(d.max) \in Nat \ {0}
  BY TimeoutsAssumption DEF EffectiveMax
<1>3. EffectiveDefault(d.default, d.max) \in Nat \ {0}
  BY <1>2, TimeoutsAssumption DEF EffectiveDefault, Smallest
<1>4. SoundPolicy(d.retry)
  BY TimeoutsAssumption DEF SoundPolicy
<1> QED
  BY <1>1, <1>2, <1>3, <1>4 DEF SoundConf, Accepted

\* A timeout that a request gets is allowed.
LEMMA AskedIsAllowed == SoundConf(conf) => Asked \subseteq 1 .. conf.max
<1> SUFFICES ASSUME SoundConf(conf), NEW q \in Asked PROVE q \in 1 .. conf.max
  OBVIOUS
<1>1. CASE q = conf.default
  BY <1>1 DEF SoundConf
<1>2. CASE q \in Queries /\ 1 <= q /\ q <= conf.max
  <2>1. q \in Nat
    BY <1>2, TimeoutsAssumption
  <2> QED
    BY <1>2, <2>1 DEF SoundConf
<1> QED
  BY <1>1, <1>2 DEF Asked

LEMMA InitEstablishes == Init => IInv
<1> SUFFICES ASSUME Init PROVE IInv
  OBVIOUS
<1>1. SoundConf(conf)
  BY LoadedConfIsSound DEF Init
<1> QED
  BY <1>1 DEF Init, IInv, Exists, In, TimeoutsAreAllowed, RunIsBounded, ExpiredHadTheirTime

-----------------------------------------------------------------------------
(* The steps.                                                              *)

\* A failed job does not run, and its date is now.
LEMMA FailureEndsTheRun ==
  ASSUME now \in Nat, NEW r, Dated(r)
  PROVE  /\ DOMAIN AfterFailure(r) = Fields
         /\ AfterFailure(r).updated = now /\ AfterFailure(r).timeout = r.timeout
         /\ AfterFailure(r).granted = r.granted
         /\ AfterFailure(r).state # "running"
BY DEF AfterFailure, Dated, Fields

\* A step at the same date, without a check, that changes only jobs to jobs that are dated,
\* and do not run, or began to run now, or run as before, with no smaller bound.
LEMMA Keeps ==
  ASSUME IInv, UNCHANGED <<now, checked>>, expired' = {}, SoundConf(conf'),
         \A j \in Exists' :
           \/ j \in Exists /\ jobs'[j] = jobs[j]
           \/ /\ Dated(jobs'[j])
              /\ jobs'[j].state = "running" =>
                   /\ jobs'[j].timeout \in 1 .. jobs'[j].granted
                   /\ \/ jobs'[j].updated = now
                      \/ /\ j \in In("running") /\ jobs'[j].updated = jobs[j].updated
                         /\ jobs[j].granted <= jobs'[j].granted
  PROVE  IInv'
<1>0. \A j \in Exists' :
        /\ Dated(jobs'[j])
        /\ jobs'[j].state = "running" => jobs'[j].timeout \in 1 .. jobs'[j].granted
  BY DEF IInv, TimeoutsAreAllowed, In
<1>1. \A j \in Exists' : Dated(jobs[j])'
  BY <1>0 DEF Dated
<1>2. TimeoutsAreAllowed'
  BY <1>0 DEF TimeoutsAreAllowed, In
<1>3. RunIsBounded'
  <2> SUFFICES ASSUME NEW j \in In("running")'
               PROVE  checked < jobs'[j].updated + jobs'[j].granted * Second
    BY DEF RunIsBounded
  <2>1. j \in Exists' /\ jobs'[j].state = "running"
    BY DEF In
  <2>2. /\ jobs'[j].updated \in Nat /\ jobs'[j].granted \in Nat /\ jobs'[j].granted # 0
        /\ jobs'[j].timeout \in 1 .. jobs'[j].granted
    <3>1. Dated(jobs'[j]) /\ jobs'[j].timeout \in 1 .. jobs'[j].granted
      BY <1>0, <2>1
    <3> QED
      BY <3>1 DEF Dated
  <2>3. jobs'[j].granted * Second \in Nat /\ jobs'[j].granted * Second >= 1
    BY <2>2, ProductIsLonger, TimeoutsAssumption
  <2>4. CASE jobs'[j].updated = now
    BY <2>3, <2>4 DEF IInv
  <2>5. CASE /\ j \in In("running") /\ jobs'[j].updated = jobs[j].updated
             /\ jobs[j].granted <= jobs'[j].granted
    <3>1. jobs[j].granted \in Nat /\ jobs[j].updated \in Nat
      BY <2>5 DEF IInv, Dated, In
    <3>2. jobs[j].granted * Second <= jobs'[j].granted * Second /\ jobs[j].granted * Second \in Nat
      BY <2>2, <2>5, <3>1, ProductIsMonotonic, TimeoutsAssumption
    <3>3. checked < jobs[j].updated + jobs[j].granted * Second
      BY <2>5 DEF IInv, RunIsBounded
    <3>4. checked \in Nat
      BY DEF IInv
    <3> QED
      BY <2>3, <2>5, <3>1, <3>2, <3>3, <3>4
  <2>6. CASE j \in Exists /\ jobs'[j] = jobs[j]
    BY <2>1, <2>6 DEF IInv, RunIsBounded, In
  <2> QED
    BY <2>1, <2>4, <2>5, <2>6
<1>4. ExpiredHadTheirTime'
  BY DEF ExpiredHadTheirTime
<1> QED
  BY <1>1, <1>2, <1>3, <1>4 DEF IInv

LEMMA RequestsKeep ==
  ASSUME IInv,
         \/ \E j \in Jobs, after \in StartDates, delay \in StartDelays : CreateJob(j, after, delay)
         \/ \E j \in Jobs, timeout \in Asked : Pull(j, timeout)
         \/ \E j \in Jobs, timeout \in Asked : ChangeVisibilityTimeout(j, timeout)
  PROVE  IInv'
<1>1. CASE \E j \in Jobs, after \in StartDates, delay \in StartDelays : CreateJob(j, after, delay)
  <2>1. PICK j \in Jobs, after \in StartDates, delay \in StartDelays : CreateJob(j, after, delay)
    BY <1>1
  <2>2. Exists' = Exists \cup {j} /\ \A i \in Exists : i # j => jobs'[i] = jobs[i]
    BY <2>1 DEF CreateJob, Exists
  <2>3. Dated(NewJob) /\ NewJob.state = "queued"
    BY DEF NewJob, Dated, Fields, IInv
  <2>4. \E a : \/ jobs'[j] = [NewJob EXCEPT !.asked = a]
               \/ \E s : jobs'[j] = [[NewJob EXCEPT !.asked = a] EXCEPT !.state = "delayed", !.due = s]
    <3> DEFINE a == (IF after = 0 THEN now ELSE after) + delay * Second
               s == StartAfter(after, delay)
               new == [NewJob EXCEPT !.asked = a]
    <3>1. jobs'[j] = IF s > now THEN [new EXCEPT !.state = "delayed", !.due = s] ELSE new
      BY <2>1 DEF CreateJob
    <3> HIDE DEF a, s
    <3> QED
      BY <3>1
  <2>5. Dated(jobs'[j]) /\ jobs'[j].state # "running"
    BY <2>3, <2>4 DEF Dated, Fields
  <2> QED
    BY <2>1, <2>2, <2>5, Keeps DEF CreateJob, IInv
<1>2. CASE \E j \in Jobs, timeout \in Asked : Pull(j, timeout)
  <2>1. PICK j \in Jobs, timeout \in Asked : Pull(j, timeout)
    BY <1>2
  <2>2. j \in Exists /\ Exists' = Exists /\ \A i \in Exists \ {j} : jobs'[i] = jobs[i]
    BY <2>1 DEF Pull, Exists, In
  <2>3. timeout \in 1 .. conf.max /\ conf.max \in Nat
    BY AskedIsAllowed DEF IInv, SoundConf
  <2>4. /\ Dated(jobs'[j]) /\ jobs'[j].timeout = timeout /\ jobs'[j].updated = now
        /\ jobs'[j].granted = conf.max
    <3>1. jobs'[j] = [jobs[j] EXCEPT !.state = "running", !.updated = now, !.timeout = timeout,
                                     !.granted = conf.max, !.asked = 0, !.loaded = FALSE]
      BY <2>1, <2>2 DEF Pull, Exists
    <3>2. DOMAIN jobs[j] = Fields
      BY <2>2 DEF Dated, IInv
    <3>3. timeout \in Nat
      BY <2>3
    <3>4. now \in Nat
      BY DEF IInv
    <3> QED
      BY <2>3, <3>1, <3>2, <3>3, <3>4 DEF Dated, Fields
  <2> QED
    BY <2>1, <2>2, <2>3, <2>4, Keeps DEF Pull, IInv
<1>3. CASE \E j \in Jobs, timeout \in Asked : ChangeVisibilityTimeout(j, timeout)
  <2>1. PICK j \in Jobs, timeout \in Asked : ChangeVisibilityTimeout(j, timeout)
    BY <1>3
  <2>2. j \in Exists /\ Exists' = Exists /\ \A i \in Exists \ {j} : jobs'[i] = jobs[i]
    BY <2>1 DEF ChangeVisibilityTimeout, Exists
  <2>3. timeout \in 1 .. conf.max /\ conf.max \in Nat
    BY AskedIsAllowed DEF IInv, SoundConf
  <2> DEFINE g == IF jobs[j].granted >= conf.max THEN jobs[j].granted ELSE conf.max
  <2>4. /\ Dated(jobs[j]) /\ g \in Nat /\ g >= conf.max /\ jobs[j].granted <= g
    BY <2>2, <2>3 DEF Dated, IInv
  <2>5. jobs'[j] = [jobs[j] EXCEPT !.timeout = timeout, !.granted = g]
    BY <2>1, <2>2, <2>4 DEF ChangeVisibilityTimeout, Exists, Dated, Fields
  <2> HIDE DEF g
  <2>6. /\ Dated(jobs'[j]) /\ jobs'[j].timeout = timeout /\ jobs'[j].granted = g
        /\ jobs'[j].state = jobs[j].state /\ jobs'[j].updated = jobs[j].updated
    BY <2>3, <2>4, <2>5 DEF Dated, Fields
  <2>7. timeout \in 1 .. g
    BY <2>3, <2>4
  <2>8. /\ jobs'[j].timeout \in 1 .. jobs'[j].granted /\ jobs[j].granted <= jobs'[j].granted
        /\ jobs'[j].state = "running" => j \in In("running")
    BY <2>2, <2>4, <2>6, <2>7 DEF In
  <2>9. UNCHANGED <<now, checked>> /\ expired' = {} /\ SoundConf(conf')
    BY <2>1 DEF ChangeVisibilityTimeout, IInv
  <2> QED
    BY <2>2, <2>6, <2>8, <2>9, Keeps
<1> QED
  BY <1>1, <1>2, <1>3

LEMMA AnswersKeep ==
  ASSUME IInv, NEW j \in Jobs, FailJob(j) \/ SetJobAsSuccessful(j)
  PROVE  IInv'
<1>1. j \in Exists /\ Exists' = Exists /\ \A i \in Exists \ {j} : jobs'[i] = jobs[i]
  BY DEF FailJob, SetJobAsSuccessful, Exists, In
<1>2. Dated(jobs'[j]) /\ jobs'[j].state # "running"
  <2>1. CASE FailJob(j)
    <3>1. jobs'[j] = AfterFailure(jobs[j])
      BY <1>1, <2>1 DEF FailJob, Exists
    <3> QED
      BY <1>1, <3>1, FailureEndsTheRun DEF Dated, IInv
  <2>2. CASE SetJobAsSuccessful(j)
    BY <1>1, <2>2 DEF SetJobAsSuccessful, Exists, Dated, Fields, IInv
  <2> QED
    BY <2>1, <2>2
<1> QED
  BY <1>1, <1>2, Keeps DEF FailJob, SetJobAsSuccessful, IInv

LEMMA QueuesKeep ==
  ASSUME IInv, NEW state, QueueDue(state)
  PROVE  IInv'
<1>1. Exists' = Exists
  BY DEF QueueDue, Exists
<1>2. ASSUME NEW j \in Exists
      PROVE  /\ Dated(jobs'[j])
             /\ jobs'[j] = jobs[j] \/ jobs'[j].state # "running"
  <2>1. CASE j \in Due(state)
    <3>1. jobs'[j] = [jobs[j] EXCEPT !.state = "queued", !.updated = now, !.due = 0]
      BY <1>2, <2>1 DEF QueueDue
    <3> QED
      BY <1>2, <3>1 DEF Dated, Fields, IInv
  <2>2. CASE j \notin Due(state)
    BY <1>2, <2>2 DEF QueueDue, IInv
  <2> QED
    BY <2>1, <2>2
<1> QED
  BY <1>1, <1>2, Keeps DEF QueueDue, IInv

\* A load, with another configuration perhaps, leaves the runs as they are.
LEMMA LoadKeeps ==
  ASSUME IInv, LoadJobs
  PROVE  IInv'
<1>1. Exists' = Exists
  BY DEF LoadJobs, Exists
<1>2. PICK c \in LoadConfig :
        /\ conf' = c
        /\ jobs' = [j \in Exists |->
             LET r == [jobs[j] EXCEPT !.delay = IF c.retry = conf.retry THEN @ ELSE 0]
             IN  IF r.state = "hidden" THEN [r EXCEPT !.due = now, !.loaded = TRUE] ELSE r]
  BY DEF LoadJobs
<1>3. SoundConf(conf')
  BY <1>2, LoadedConfIsSound
<1>4. ASSUME NEW j \in Exists
      PROVE  /\ Dated(jobs'[j])
             /\ jobs'[j].state = jobs[j].state /\ jobs'[j].updated = jobs[j].updated
             /\ jobs'[j].timeout = jobs[j].timeout /\ jobs'[j].granted = jobs[j].granted
  <2> DEFINE x == IF c.retry = conf.retry THEN jobs[j].delay ELSE 0
             r == jobs[j]
  <2>1. Dated(r)
    BY <1>4 DEF IInv
  <2>2. \/ jobs'[j] = [[r EXCEPT !.delay = x] EXCEPT !.due = now, !.loaded = TRUE]
        \/ jobs'[j] = [r EXCEPT !.delay = x]
    BY <1>2, <1>4, <2>1 DEF Dated, Fields
  <2> HIDE DEF x, r
  <2>3. /\ Dated(jobs'[j])
        /\ jobs'[j].state = r.state /\ jobs'[j].updated = r.updated
        /\ jobs'[j].timeout = r.timeout /\ jobs'[j].granted = r.granted
    BY <2>1, <2>2 DEF Dated, Fields
  <2> QED
    BY <2>3 DEF r
<1>5. ASSUME NEW j \in Exists, jobs[j].state = "running"
      PROVE  /\ j \in In("running") /\ jobs[j].timeout \in 1 .. jobs[j].granted
             /\ jobs[j].granted <= jobs[j].granted
  BY <1>5 DEF IInv, Dated, TimeoutsAreAllowed, In
<1>6. UNCHANGED <<now, checked>> /\ expired' = {}
  BY DEF LoadJobs
<1>7. ASSUME NEW j \in Exists', jobs'[j].state = "running"
      PROVE  /\ jobs'[j].timeout \in 1 .. jobs'[j].granted
             /\ j \in In("running") /\ jobs'[j].updated = jobs[j].updated
             /\ jobs[j].granted <= jobs'[j].granted
  BY <1>1, <1>4, <1>5, <1>7
<1> QED
  BY <1>1, <1>3, <1>4, <1>6, <1>7, Keeps

\* The check fails the runs that had their time, and leaves those that began less than
\* their timeout ago.
LEMMA CheckKeeps ==
  ASSUME IInv, CheckVisibilityTimeouts
  PROVE  IInv'
<1>1. Exists' = Exists /\ now' = now /\ conf' = conf /\ checked' = now
  BY DEF CheckVisibilityTimeouts, Exists
<1>2. ASSUME NEW j \in Exists
      PROVE  /\ Dated(jobs'[j])
             /\ jobs'[j].state = "running" => jobs'[j] = jobs[j] /\ j \notin Overdue
  <2>1. CASE j \in Overdue
    <3>1. jobs'[j] = AfterFailure(jobs[j])
      BY <1>2, <2>1 DEF CheckVisibilityTimeouts
    <3> QED
      BY <1>2, <3>1, FailureEndsTheRun DEF Dated, IInv
  <2>2. CASE j \notin Overdue
    BY <1>2, <2>2 DEF CheckVisibilityTimeouts, IInv
  <2> QED
    BY <2>1, <2>2
<1>3. \A j \in Exists' : Dated(jobs[j])'
  BY <1>1, <1>2 DEF Dated
<1>4. TimeoutsAreAllowed'
  BY <1>1, <1>2 DEF TimeoutsAreAllowed, In, IInv
<1>5. RunIsBounded'
  <2> SUFFICES ASSUME NEW j \in In("running")'
               PROVE  now < jobs'[j].updated + jobs'[j].granted * Second
    BY <1>1 DEF RunIsBounded
  <2>1. j \in In("running") /\ jobs'[j] = jobs[j] /\ j \notin Overdue
    BY <1>1, <1>2 DEF In
  <2>2. now - jobs[j].updated < jobs[j].timeout * Second
    <3>1. ~(now - jobs[j].updated >= jobs[j].timeout * Second)
      BY <2>1 DEF Overdue
    <3>2. jobs[j].timeout \in Nat /\ jobs[j].updated \in Nat
      BY <2>1 DEF IInv, Dated, In
    <3>3. jobs[j].timeout * Second \in Nat
      BY <3>2, TimeoutsAssumption
    <3> QED
      BY <3>1, <3>2, <3>3 DEF IInv
  <2>3. /\ jobs[j].timeout \in 1 .. jobs[j].granted /\ jobs[j].granted \in Nat
        /\ jobs[j].updated \in Nat
    BY <2>1 DEF IInv, TimeoutsAreAllowed, In, Dated
  <2>4. jobs[j].timeout * Second <= jobs[j].granted * Second
    BY <2>3, ProductIsMonotonic, TimeoutsAssumption
  <2>5. jobs[j].timeout * Second \in Nat /\ jobs[j].granted * Second \in Nat
    BY <2>3, ProductIsLonger, TimeoutsAssumption
  <2> QED
    BY <2>1, <2>2, <2>3, <2>4, <2>5 DEF IInv
<1>6. ExpiredHadTheirTime'
  <2> SUFFICES ASSUME NEW j \in Overdue
               PROVE  /\ now - jobs[j].updated >= Second
                      /\ now - jobs[j].updated >= jobs[j].timeout * Second
    BY DEF ExpiredHadTheirTime, CheckVisibilityTimeouts
  <2>1. j \in In("running") /\ now - jobs[j].updated >= jobs[j].timeout * Second
    BY DEF Overdue
  <2>2. jobs[j].timeout \in Nat \ {0} /\ jobs[j].updated \in Nat
    BY <2>1 DEF IInv, TimeoutsAreAllowed, In, Dated
  <2>3. jobs[j].timeout * Second \in Nat /\ jobs[j].timeout * Second >= Second
    BY <2>2, ProductIsLonger, TimeoutsAssumption
  <2> QED
    BY <2>1, <2>2, <2>3, TimeoutsAssumption DEF IInv
<1> QED
  BY <1>1, <1>3, <1>4, <1>5, <1>6 DEF IInv

LEMMA TickKeeps ==
  ASSUME IInv, Tick
  PROVE  IInv'
<1>1. \A j \in Exists' : Dated(jobs[j])'
  BY DEF IInv, Tick, Dated, Exists
<1> QED
  BY <1>1 DEF IInv, Tick, Exists, In, TimeoutsAreAllowed, RunIsBounded, ExpiredHadTheirTime

LEMMA NextKeeps == IInv /\ [Next]_vars => IInv'
<1> SUFFICES ASSUME IInv, [Next]_vars PROVE IInv'
  OBVIOUS
<1>1. CASE \/ \E j \in Jobs, after \in StartDates, delay \in StartDelays : CreateJob(j, after, delay)
           \/ \E j \in Jobs, timeout \in Asked : Pull(j, timeout)
           \/ \E j \in Jobs, timeout \in Asked : ChangeVisibilityTimeout(j, timeout)
  BY <1>1, RequestsKeep
<1>2. CASE \E j \in Jobs : FailJob(j) \/ SetJobAsSuccessful(j)
  BY <1>2, AnswersKeep
<1>3. CASE CheckVisibilityTimeouts
  BY <1>3, CheckKeeps
<1>4. CASE AttemptRetries \/ CheckDelayedJobs
  BY <1>4, QueuesKeep DEF AttemptRetries, CheckDelayedJobs
<1>5. CASE LoadJobs
  BY <1>5, LoadKeeps
<1>6. CASE Tick
  BY <1>6, TickKeeps
<1>7. CASE UNCHANGED vars
  BY <1>7 DEF vars, IInv, Dated, Exists, In, TimeoutsAreAllowed, RunIsBounded,
              ExpiredHadTheirTime
<1> QED
  BY <1>1, <1>2, <1>3, <1>4, <1>5, <1>6, <1>7 DEF Next

-----------------------------------------------------------------------------
\* The inductive invariant holds in every reachable state.
THEOREM TimeoutsInvariance == Spec => []IInv
<1> QED
  BY InitEstablishes, NextKeeps, PTL DEF Spec

\* After a check no run is older than the largest maxVisibilityTimeout among those in force when
\* it got its timeouts: a worker that is gone keeps its job no longer than that, until the next
\* check, whatever configuration the server is restarted with.
THEOREM RunsAreBounded == Spec => []RunIsBounded
<1>1. IInv => RunIsBounded
  BY DEF IInv
<1> QED
  BY <1>1, TimeoutsInvariance, PTL

\* CheckJobsVisibilityTimeout fails no run before its timeout, nor in its first second,
\* whatever the configurations leave out.
THEOREM ExpiredRunsHadTheirTime == Spec => []ExpiredHadTheirTime
<1>1. IInv => ExpiredHadTheirTime
  BY DEF IInv
<1> QED
  BY <1>1, TimeoutsInvariance, PTL

-----------------------------------------------------------------------------
(* The delays.                                                             *)

\* Induction over the numbers, for a set: if n were not in S, adding 1 would map the numbers of
\* S up to n, one to one, into those that are not 0.
LEMMA SetInduction ==
  ASSUME NEW S, 0 \in S, \A n \in Nat : n \in S => n + 1 \in S
  PROVE  Nat \subseteq S
<1> SUFFICES ASSUME NEW n \in Nat, n \notin S PROVE FALSE
  OBVIOUS
<1> DEFINE A == {i \in 0 .. n : i \in S}
           B == A \ {0}
           f == [i \in A |-> i + 1]
<1>1. IsFiniteSet(A) /\ 0 \in A
  <2>1. IsFiniteSet(0 .. n) /\ A \subseteq 0 .. n
    BY FS_Interval
  <2>2. IsFiniteSet(A)
    BY <2>1, FS_Subset
  <2> QED
    BY <2>2
<1>2. f \in [A -> B]
  OBVIOUS
<1>3. IsFiniteSet(B) /\ Cardinality(B) = Cardinality(A) - 1 /\ Cardinality(A) \in Nat
  BY <1>1, FS_RemoveElement, FS_CardinalityType
<1>4. PICK x, y \in A : x # y /\ f[x] = f[y]
  <2> HIDE DEF f, B, A
  <2>1. Cardinality(B) < Cardinality(A)
    BY <1>3
  <2> QED
    BY <1>1, <1>2, <1>3, <2>1, FS_PigeonHole
<1> QED
  BY <1>4

\* The two equations that define ^ (the provers know nothing of it).
PowersAreDefined ==
  \A b \in Int : b ^ 1 = b /\ \A n \in Nat \ {0} : b ^ (n + 1) = b * b ^ n

LEMMA PowersAreIntegers ==
  ASSUME PowersAreDefined, NEW b \in Int, NEW m \in Nat \ {0}
  PROVE  b ^ m \in Int /\ (b > 0 => b ^ m > 0)
<1> DEFINE S == {n \in Nat : b ^ (n + 1) \in Int /\ (b > 0 => b ^ (n + 1) > 0)}
<1>1. 0 \in S
  <2>1. b ^ 1 = b /\ 0 + 1 = 1
    BY DEF PowersAreDefined
  <2> QED
    BY <2>1
<1>2. ASSUME NEW n \in Nat, n \in S PROVE n + 1 \in S
  <2> DEFINE k == b ^ (n + 1)
             l == b ^ ((n + 1) + 1)
  <2>1. k \in Int /\ (b > 0 => k > 0)
    BY <1>2
  <2>2. l = b * k
    <3>1. n + 1 \in Nat \ {0}
      OBVIOUS
    <3> QED
      BY <3>1 DEF PowersAreDefined
  <2>3. l \in Int /\ (b > 0 => l > 0)
    <3> HIDE DEF k, l
    <3>1. \A x, y \in Int : x * y \in Int /\ (x > 0 /\ y > 0 => x * y > 0)
      OBVIOUS
    <3> QED
      BY <2>1, <2>2, <3>1
  <2>4. n + 1 \in Nat
    OBVIOUS
  <2> QED
    BY <2>3, <2>4
<1>3. Nat \subseteq S
  <2> HIDE DEF S
  <2> QED
    BY <1>1, <1>2, SetInduction
<1>4. m - 1 \in S
  <2>1. m - 1 \in Nat
    OBVIOUS
  <2> QED
    BY <1>3, <2>1
<1>5. (m - 1) + 1 = m
  OBVIOUS
<1> QED
  BY <1>4, <1>5

LEMMA Euclid ==
  ASSUME NEW x \in Nat, NEW d \in Nat \ {0}
  PROVE  x \div d \in Nat /\ (x \div d) * d <= x /\ x < (x \div d) * d + d
OBVIOUS

LEMMA QuotientIsLargest ==
  ASSUME NEW x \in Nat, NEW d \in Nat \ {0}, NEW q \in Nat, q * d <= x
  PROVE  q <= x \div d
<1> DEFINE r == x \div d
<1>1. r \in Nat /\ x < r * d + d
  BY Euclid
<1> HIDE DEF r
<1>2. ASSUME r + 1 <= q PROVE FALSE
  <2>1. (r + 1) * d <= q * d
    BY <1>1, <1>2, ProductIsMonotonic
  <2>2. (r + 1) * d = r * d + d
    BY <1>1
  <2>3. q * d \in Nat /\ r * d \in Nat
    BY <1>1
  <2> QED
    BY <1>1, <2>1, <2>2, <2>3
<1> QED
  BY <1>1, <1>2 DEF r

\* A fraction that is multiplied by 1 or more does not get smaller, truncated.
LEMMA QuotientGrows ==
  ASSUME NEW x \in Nat, NEW v \in Nat \ {0}, NEW num \in Nat \ {0}, NEW den \in Nat \ {0}, den <= num
  PROVE  /\ x * num \in Nat /\ den * v \in Nat \ {0}
         /\ x \div v \in Nat /\ x \div v <= (x * num) \div (den * v)
<1> DEFINE q == x \div v
<1>1. q \in Nat /\ q * v <= x
  BY Euclid
<1> HIDE DEF q
<1>2. x * num \in Nat /\ den * v \in Nat \ {0}
  BY ProductIsLonger
<1>3. q * (den * v) <= x * num
  <2>1. q * v \in Nat
    BY <1>1
  <2>2. (q * v) * den <= x * den
    BY <1>1, <2>1, ProductIsMonotonic
  <2>3. x * den <= x * num
    <3>1. \A a, b, c \in Nat : a <= b => c * a <= c * b
      OBVIOUS
    <3> QED
      BY <3>1
  <2>4. q * (den * v) = (q * v) * den
    BY <1>1
  <2>5. (q * v) * den \in Nat /\ x * den \in Nat
    BY <2>1
  <2> QED
    BY <1>2, <2>2, <2>3, <2>4, <2>5
<1>4. q <= (x * num) \div (den * v)
  BY <1>1, <1>2, <1>3, QuotientIsLargest
<1> QED
  BY <1>1, <1>2, <1>4 DEF q

LEMMA TruncatedIsAnInteger ==
  ASSUME NEW x \in Int, NEW d \in Nat \ {0}
  PROVE  Truncated(x, d) \in Int /\ (x >= 0 => Truncated(x, d) = x \div d)
<1>1. \A y \in Nat : y \div d \in Int
  BY Euclid
<1>2. CASE x >= 0
  BY <1>1, <1>2 DEF Truncated
<1>3. CASE ~(x >= 0)
  <2> DEFINE y == -x
             z == y \div d
  <2>1. y \in Nat
    BY <1>3
  <2>2. z \in Int
    BY <1>1, <2>1
  <2>3. Truncated(x, d) = -z
    BY <1>3 DEF Truncated
  <2> HIDE DEF z
  <2> QED
    BY <1>3, <2>2, <2>3
<1> QED
  BY <1>2, <1>3

LEMMA SmallestGrows ==
  ASSUME NEW m \in Nat, NEW x \in Int, NEW y \in Int
  PROVE  /\ Smallest(m, x) \in Int
         /\ 0 <= x => 0 <= Smallest(m, x)
         /\ x <= y => Smallest(m, x) <= Smallest(m, y)
BY DEF Smallest

\* What an exponential policy multiplies its base with, after n failures.
LEMMA ExponentialGrows ==
  ASSUME PowersAreDefined, NEW p, SoundPolicy(p), NEW n \in Nat \ {0}
  PROVE  LET x == Truncated(p.base * p.factor.num ^ n, p.factor.den ^ n)
             y == Truncated(p.base * p.factor.num ^ (n + 1), p.factor.den ^ (n + 1))
         IN  /\ x \in Int /\ y \in Int
             /\ p.factor.num >= p.factor.den => 0 <= x /\ x <= y
<1> DEFINE num == p.factor.num
           den == p.factor.den
           u == num ^ n
           v == den ^ n
           bu == p.base * u
           bu1 == p.base * num ^ (n + 1)
           v1 == den ^ (n + 1)
<1>1. p.base \in Nat /\ num \in Int /\ den \in Int /\ den > 0
  BY DEF SoundPolicy
<1>2. u \in Int /\ (num > 0 => u > 0) /\ v \in Int /\ v > 0
  BY <1>1, PowersAreIntegers
<1>3. num ^ (n + 1) = num * u /\ v1 = den * v
  BY <1>1 DEF PowersAreDefined
<1> HIDE DEF num, den, u, v
<1>4. bu \in Int /\ (num > 0 => bu >= 0)
  <2>1. \A x \in Nat, y \in Int : x * y \in Int /\ (y > 0 => x * y >= 0)
    OBVIOUS
  <2> QED
    BY <1>1, <1>2, <2>1
<1>5. bu1 = bu * num
  <2>1. \A x, y, z \in Int : x * (y * z) = (x * z) * y
    OBVIOUS
  <2>2. p.base * (num * u) = (p.base * u) * num
    BY <1>1, <1>2, <2>1
  <2> QED
    BY <1>3, <2>2
<1> HIDE DEF bu, bu1, v1
<1>6. bu1 \in Int
  BY <1>1, <1>4, <1>5
<1>7. v \in Nat \ {0} /\ v1 \in Nat \ {0}
  <2>1. v \in Nat \ {0} /\ den \in Nat \ {0}
    BY <1>1, <1>2
  <2> QED
    BY <1>3, <2>1, ProductIsLonger
<1>8. Truncated(bu, v) \in Int /\ Truncated(bu1, v1) \in Int
  BY <1>4, <1>6, <1>7, TruncatedIsAnInteger
<1>9. ASSUME num >= den PROVE 0 <= Truncated(bu, v) /\ Truncated(bu, v) <= Truncated(bu1, v1)
  <2>1. num \in Nat \ {0} /\ den \in Nat \ {0} /\ den <= num /\ bu \in Nat
    BY <1>1, <1>4, <1>9
  <2>2. bu1 \in Nat /\ bu \div v \in Nat /\ bu \div v <= bu1 \div v1
    BY <1>3, <1>5, <1>7, <2>1, QuotientGrows
  <2>3. Truncated(bu, v) = bu \div v /\ Truncated(bu1, v1) = bu1 \div v1
    <3>1. bu \in Int /\ bu >= 0 /\ bu1 \in Int /\ bu1 >= 0
      BY <2>1, <2>2
    <3> QED
      BY <1>7, <3>1, TruncatedIsAnInteger
  <2> QED
    BY <2>2, <2>3
<1> QED
  BY <1>8, <1>9 DEF bu, bu1, v1, u, v, num, den

\* The delay is a number, whatever the policy, and grows under a policy that is meant to
\* (BackoffStrategy.ComputeDelay).
LEMMA DelaysGrow ==
  ASSUME PowersAreDefined, NEW p, SoundPolicy(p), NEW n \in Nat \ {0}
  PROVE  /\ ComputeDelay(p, n) \in Int
         /\ Grows(p) => 0 <= ComputeDelay(p, n) /\ ComputeDelay(p, n) <= ComputeDelay(p, n + 1)
<1> DEFINE m == p.maxDuration
<1>1. p.base \in Nat /\ m \in Nat
  BY DEF SoundPolicy
<1>2. CASE p.type = "constant"
  BY <1>1, <1>2 DEF ComputeDelay
<1>3. CASE p.type = "linear"
  <2> DEFINE x == n * p.base
             y == (n + 1) * p.base
  <2>1. x \in Int /\ y \in Int /\ 0 <= x /\ x <= y
    BY <1>1
  <2>2. ComputeDelay(p, n) = Smallest(m, x) /\ ComputeDelay(p, n + 1) = Smallest(m, y)
    BY <1>3 DEF ComputeDelay
  <2> HIDE DEF m, x, y
  <2> QED
    BY <1>1, <2>1, <2>2, SmallestGrows
<1>4. CASE p.type = "exponential"
  <2> DEFINE x == Truncated(p.base * p.factor.num ^ n, p.factor.den ^ n)
             y == Truncated(p.base * p.factor.num ^ (n + 1), p.factor.den ^ (n + 1))
  <2>1. /\ x \in Int /\ y \in Int
        /\ p.factor.num >= p.factor.den => 0 <= x /\ x <= y
    BY ExponentialGrows
  <2>2. ComputeDelay(p, n) = Smallest(m, x) /\ ComputeDelay(p, n + 1) = Smallest(m, y)
    BY <1>4 DEF ComputeDelay
  <2>3. Grows(p) => p.factor.num >= p.factor.den
    BY <1>4 DEF Grows
  <2> HIDE DEF m, x, y
  <2> QED
    BY <1>1, <2>1, <2>2, <2>3, SmallestGrows
<1>5. CASE p.type \notin {"constant", "linear", "exponential"}
  BY <1>5 DEF ComputeDelay
<1> QED
  BY <1>2, <1>3, <1>4, <1>5

\* A job that waits is not due before its date, and a queued one was not queued before it,
\* unless a load cut its retry short; its last delay was not longer than its failures ask for.
Waits(p, r) ==
  /\ r.failures \in Nat /\ r.due \in Int /\ r.asked \in Int /\ r.delay \in Int
  /\ r.state \in {"delayed", "hidden"} => r.loaded \/ r.asked <= r.due
  /\ r.state = "queued" => r.loaded \/ r.asked <= r.updated
  /\ Grows(p) => r.delay <= 0 \/ (r.failures # 0 /\ r.delay <= ComputeDelay(p, r.failures))

WaitsInv == \A j \in Exists : Waits(conf.retry, jobs[j])

\* What every step does to a job: it waits as it should, and a retry no shorter than the last.
Follows(j) ==
  /\ Waits(conf'.retry, jobs'[j])
  /\ jobs'[j].failures > jobs[j].failures /\ jobs'[j].state # "terminated" /\ Grows(conf.retry) =>
       jobs[j].delay <= jobs'[j].delay

\* failJobLocked
LEMMA FailureWaits ==
  ASSUME PowersAreDefined, SoundPolicy(conf.retry), now \in Nat,
         NEW r, Dated(r), Waits(conf.retry, r)
  PROVE  /\ Waits(conf.retry, AfterFailure(r))
         /\ AfterFailure(r).state # "terminated" /\ Grows(conf.retry) =>
              r.delay <= AfterFailure(r).delay
<1> DEFINE p == conf.retry
           n == r.failures + 1
           d == ComputeDelay(p, n)
           f == AfterFailure(r)
<1>1. r.failures \in Nat /\ r.due \in Int /\ r.asked \in Int /\ r.delay \in Int
  BY DEF Waits
<1>2. n \in Nat \ {0}
  BY <1>1
<1>3. d \in Int /\ (Grows(p) => 0 <= d)
  BY <1>2, DelaysGrow
<1>4. Grows(p) => r.delay <= d
  <2> SUFFICES ASSUME Grows(p) PROVE r.delay <= d
    OBVIOUS
  <2>1. CASE r.delay <= 0
    BY <1>1, <1>3, <2>1
  <2>2. CASE r.failures # 0 /\ r.delay <= ComputeDelay(p, r.failures)
    <3>1. r.failures \in Nat \ {0}
      BY <1>1, <2>2
    <3>2. ComputeDelay(p, r.failures) \in Int /\ ComputeDelay(p, r.failures) <= d
      BY <3>1, DelaysGrow
    <3> QED
      BY <1>1, <1>3, <2>2, <3>2
  <2> QED
    BY <2>1, <2>2 DEF Waits
<1> HIDE DEF d
<1>5. CASE n >= conf.retry.maxRetry
  <2>1. /\ f.failures = n /\ f.due = r.due /\ f.asked = r.asked /\ f.delay = r.delay
        /\ f.state = "terminated"
    BY <1>5 DEF AfterFailure, Dated, Fields
  <2>2. Grows(p) => f.failures # 0 /\ f.delay <= ComputeDelay(p, f.failures)
    BY <1>2, <1>4, <2>1 DEF d
  <2> HIDE DEF f, n, p
  <2>3. Waits(p, f)
    BY <1>1, <1>2, <2>1, <2>2 DEF Waits
  <2> QED
    BY <2>1, <2>3 DEF f, p
<1>6. CASE ~(n >= conf.retry.maxRetry)
  <2>1. /\ f.failures = n /\ f.asked = now + d /\ f.delay = d /\ f.updated = now
        /\ \/ d = 0 /\ f.state = "queued" /\ f.due = r.due
           \/ f.state = "hidden" /\ f.due = now + d
    BY <1>6 DEF AfterFailure, Dated, Fields, d
  <2>2. Grows(p) => f.failures # 0 /\ f.delay <= ComputeDelay(p, f.failures)
    BY <1>2, <1>3, <2>1 DEF d
  <2> HIDE DEF f, n, p
  <2>3. now + d \in Int /\ (d = 0 => now + d <= now)
    BY <1>3
  <2>4. f.failures \in Nat /\ f.due \in Int /\ f.asked \in Int /\ f.delay \in Int
    BY <1>1, <1>2, <1>3, <2>1, <2>3
  <2>5. /\ f.state \in {"delayed", "hidden"} => f.asked <= f.due
        /\ f.state = "queued" => f.asked <= f.updated
    BY <2>1, <2>3
  <2>6. Waits(p, f)
    BY <2>2, <2>4, <2>5 DEF Waits
  <2> QED
    BY <1>4, <2>1, <2>6 DEF f, p
<1> QED
  BY <1>5, <1>6

\* NewJobFromRequest
LEMMA RequestWaits ==
  ASSUME IInv, NEW j \in Jobs, NEW after \in StartDates, NEW delay \in StartDelays,
         CreateJob(j, after, delay)
  PROVE  Waits(conf.retry, jobs'[j])
<1> DEFINE s == StartAfter(after, delay)
           a == (IF after = 0 THEN now ELSE after) + delay * Second
           r == jobs'[j]
           d == delay * Second
           new == [NewJob EXCEPT !.asked = a]
<1>1. after \in Nat /\ delay \in Nat /\ now \in Nat
  BY TimeoutsAssumption DEF IInv
<1>2. d \in Nat /\ (delay = 0 => d = 0)
  BY <1>1, TimeoutsAssumption
<1>3. /\ s = IF delay = 0 THEN after ELSE (IF after = 0 THEN now ELSE after) + d
      /\ a = (IF after = 0 THEN now ELSE after) + d
  BY DEF StartAfter
<1>4. r = IF s > now THEN [new EXCEPT !.state = "delayed", !.due = s] ELSE new
  BY DEF CreateJob
<1> HIDE DEF s, a, d
<1>5. /\ new.state = "queued" /\ new.updated = now /\ new.failures = 0 /\ new.due = 0
      /\ new.asked = a /\ new.delay = 0
      /\ DOMAIN new = Fields
  BY DEF NewJob, Fields
<1> HIDE DEF new
<1>6. /\ r.updated = now /\ r.failures = 0 /\ r.asked = a /\ r.delay = 0
      /\ \/ s > now /\ r.state = "delayed" /\ r.due = s
         \/ ~(s > now) /\ r.state = "queued" /\ r.due = 0
  BY <1>4, <1>5 DEF Fields
<1> HIDE DEF r
<1>7. s \in Nat /\ a \in Nat /\ (s > now => a <= s) /\ (~(s > now) => a <= now)
  BY <1>1, <1>2, <1>3
<1>8. r.failures \in Nat /\ r.due \in Int /\ r.asked \in Int /\ r.delay \in Int /\ r.delay <= 0
  BY <1>6, <1>7
<1>9. /\ r.state \in {"delayed", "hidden"} => r.asked <= r.due
      /\ r.state = "queued" => r.asked <= r.updated
  BY <1>6, <1>7
<1>10. Waits(conf.retry, r)
  BY <1>8, <1>9 DEF Waits
<1> QED
  BY <1>10 DEF r

\* A step of other changes keeps what the jobs wait for.
LEMMA SameWaits ==
  ASSUME NEW p, NEW r, NEW q, Waits(p, r),
         q.failures = r.failures, q.delay = r.delay, q.due = r.due, q.asked \in Int,
         \/ q.state \notin {"delayed", "hidden", "queued"}
         \/ /\ q.state = r.state /\ q.updated = r.updated
            /\ q.asked = r.asked /\ q.loaded = r.loaded
  PROVE  Waits(p, q)
BY DEF Waits

\* What follows, for a step that counts no failure and leaves the policy.
LEMMA SameFollows ==
  ASSUME NEW j, Waits(conf.retry, jobs[j]), conf' = conf,
         Waits(conf.retry, jobs'[j]), jobs'[j].failures = jobs[j].failures
  PROVE  Follows(j)
<1>1. ~(jobs'[j].failures > jobs[j].failures)
  BY DEF Waits
<1> QED
  BY <1>1 DEF Follows

\* JobQueue.Pull
LEMMA PullFollows ==
  ASSUME IInv, WaitsInv, NEW j \in Exists, NEW timeout, Pull(j, timeout)
  PROVE  Follows(j)
<1> DEFINE r == jobs[j]
           q == [r EXCEPT !.state = "running", !.updated = now, !.timeout = timeout,
                          !.granted = conf.max, !.asked = 0, !.loaded = FALSE]
           p == conf.retry
<1>1. jobs'[j] = q /\ conf' = conf
  BY DEF Pull, Exists
<1>2. Dated(r) /\ Waits(p, r)
  BY DEF IInv, WaitsInv
<1>3. /\ q.failures = r.failures /\ q.delay = r.delay /\ q.due = r.due /\ q.asked = 0
      /\ q.state = "running"
  BY <1>2 DEF Dated, Fields
<1> HIDE DEF q, r, p
<1>4. Waits(p, q)
  BY <1>2, <1>3, SameWaits
<1> QED
  BY <1>1, <1>2, <1>3, <1>4, SameFollows DEF p, r

LEMMA ChangeFollows ==
  ASSUME IInv, WaitsInv, NEW j \in Exists, NEW timeout, ChangeVisibilityTimeout(j, timeout)
  PROVE  Follows(j)
<1> DEFINE r == jobs[j]
           g == IF r.granted >= conf.max THEN r.granted ELSE conf.max
           q == [r EXCEPT !.timeout = timeout, !.granted = g]
           p == conf.retry
<1>1. Dated(r) /\ Waits(p, r)
  BY DEF IInv, WaitsInv
<1>2. jobs'[j] = q /\ conf' = conf
  BY <1>1 DEF ChangeVisibilityTimeout, Exists, Dated, Fields
<1> HIDE DEF g
<1>3. /\ q.failures = r.failures /\ q.delay = r.delay /\ q.due = r.due /\ q.asked = r.asked
      /\ q.state = r.state /\ q.updated = r.updated /\ q.loaded = r.loaded
  BY <1>1 DEF Dated, Fields
<1> HIDE DEF q, r, p
<1>4. Waits(p, q)
  <2>1. q.asked \in Int
    BY <1>1, <1>3 DEF Waits
  <2> QED
    BY <1>1, <1>3, <2>1, SameWaits
<1> QED
  BY <1>1, <1>2, <1>3, <1>4, SameFollows DEF p, r

LEMMA SuccessFollows ==
  ASSUME IInv, WaitsInv, NEW j \in Exists, SetJobAsSuccessful(j)
  PROVE  Follows(j)
<1> DEFINE r == jobs[j]
           q == [r EXCEPT !.state = "succeeded", !.updated = now]
           p == conf.retry
<1>1. jobs'[j] = q /\ conf' = conf
  BY DEF SetJobAsSuccessful, Exists
<1>2. Dated(r) /\ Waits(p, r)
  BY DEF IInv, WaitsInv
<1>3. /\ q.failures = r.failures /\ q.delay = r.delay /\ q.due = r.due /\ q.asked = r.asked
      /\ q.state = "succeeded"
  BY <1>2 DEF Dated, Fields
<1> HIDE DEF q, r, p
<1>4. Waits(p, q)
  <2>1. q.asked \in Int
    BY <1>2, <1>3 DEF Waits
  <2> QED
    BY <1>2, <1>3, <2>1, SameWaits
<1> QED
  BY <1>1, <1>2, <1>3, <1>4, SameFollows DEF p, r

\* A job whose run fails, or that a step leaves alone.
LEMMA FailureFollows ==
  ASSUME PowersAreDefined, IInv, WaitsInv, conf' = conf, NEW j \in Exists,
         jobs'[j] = jobs[j] \/ jobs'[j] = AfterFailure(jobs[j])
  PROVE  Follows(j)
<1>1. Dated(jobs[j]) /\ Waits(conf.retry, jobs[j]) /\ now \in Nat /\ SoundPolicy(conf.retry)
  BY DEF IInv, WaitsInv, SoundConf
<1>2. CASE jobs'[j] = jobs[j]
  BY <1>1, <1>2, SameFollows
<1>3. CASE jobs'[j] = AfterFailure(jobs[j])
  <2> DEFINE f == AfterFailure(jobs[j])
  <2>1. /\ Waits(conf.retry, f)
        /\ f.state # "terminated" /\ Grows(conf.retry) => jobs[j].delay <= f.delay
    BY <1>1, FailureWaits
  <2> HIDE DEF f
  <2>2. jobs'[j] = f
    BY <1>3 DEF f
  <2> QED
    BY <2>1, <2>2 DEF Follows
<1> QED
  BY <1>2, <1>3

\* A due job is queued at its date, or after it.
LEMMA DueFollows ==
  ASSUME IInv, WaitsInv, NEW state \in {"hidden", "delayed"}, QueueDue(state), NEW j \in Due(state)
  PROVE  Follows(j)
<1> DEFINE r == jobs[j]
           q == [r EXCEPT !.state = "queued", !.updated = now, !.due = 0]
           p == conf.retry
<1>1. j \in Exists /\ r.state = state /\ r.due <= now /\ jobs'[j] = q /\ conf' = conf
  BY DEF QueueDue, Due, In
<1>2. Dated(r) /\ Waits(p, r) /\ now \in Nat
  BY <1>1 DEF IInv, WaitsInv
<1>3. /\ q.failures = r.failures /\ q.delay = r.delay /\ q.due = 0 /\ q.asked = r.asked
      /\ q.loaded = r.loaded /\ q.state = "queued" /\ q.updated = now
  BY <1>2 DEF Dated, Fields
<1> HIDE DEF q, r, p
<1>4. r.loaded \/ r.asked <= r.due
  BY <1>1, <1>2 DEF Waits
<1>5. r.loaded \/ r.asked <= now
  <2>1. r.asked \in Int /\ r.due \in Int
    BY <1>2 DEF Waits
  <2>2. r.asked <= r.due => r.asked <= now
    BY <1>1, <1>2, <2>1
  <2> QED
    BY <1>4, <2>2
<1>6. Waits(p, q)
  BY <1>2, <1>3, <1>5 DEF Waits
<1> QED
  BY <1>1, <1>2, <1>3, <1>6, SameFollows DEF p, r

\* LoadJobs: a hidden job is due at once; under another policy its delays begin again.
LEMMA LoadFollows ==
  ASSUME IInv, WaitsInv, LoadJobs, NEW j \in Exists
  PROVE  Follows(j)
<1>1. PICK c \in LoadConfig :
        /\ conf' = c
        /\ jobs' = [i \in Exists |->
             LET r == [jobs[i] EXCEPT !.delay = IF c.retry = conf.retry THEN @ ELSE 0]
             IN  IF r.state = "hidden" THEN [r EXCEPT !.due = now, !.loaded = TRUE] ELSE r]
  BY DEF LoadJobs
<1> DEFINE r == jobs[j]
           x == IF c.retry = conf.retry THEN r.delay ELSE 0
           k == [r EXCEPT !.delay = x]
           q == [k EXCEPT !.due = now, !.loaded = TRUE]
           f == jobs'[j]
<1>2. Dated(r) /\ Waits(conf.retry, r) /\ now \in Nat
  BY DEF IInv, WaitsInv
<1>3. k.state = r.state
  BY <1>2 DEF Dated, Fields
<1>4. f = IF r.state = "hidden" THEN q ELSE k
  BY <1>1, <1>2, <1>3 DEF Dated, Fields
<1> HIDE DEF x
<1>5. /\ f.failures = r.failures /\ f.delay = x /\ f.asked = r.asked /\ f.state = r.state
      /\ f.updated = r.updated
      /\ \/ r.state = "hidden" /\ f.due = now /\ f.loaded = TRUE
         \/ r.state # "hidden" /\ f.due = r.due /\ f.loaded = r.loaded
  BY <1>2, <1>4 DEF Dated, Fields
<1> HIDE DEF k, q, f, r
<1>6. x \in Int /\ (Grows(c.retry) => x <= 0 \/ (r.failures # 0 /\ x <= ComputeDelay(c.retry, r.failures)))
  BY <1>2 DEF Waits, x
<1>7. Waits(c.retry, f)
  <2>1. f.failures \in Nat /\ f.due \in Int /\ f.asked \in Int /\ f.delay \in Int
    BY <1>2, <1>5, <1>6 DEF Waits
  <2>2. /\ f.state \in {"delayed", "hidden"} => f.loaded \/ f.asked <= f.due
        /\ f.state = "queued" => f.loaded \/ f.asked <= f.updated
    BY <1>2, <1>5 DEF Waits
  <2> QED
    BY <1>5, <1>6, <2>1, <2>2 DEF Waits
<1>8. ~(f.failures > r.failures)
  BY <1>2, <1>5 DEF Waits
<1> QED
  BY <1>1, <1>7, <1>8 DEF Follows, f, r

LEMMA NextFollows ==
  ASSUME PowersAreDefined, IInv, WaitsInv, [Next]_vars
  PROVE  /\ \A j \in Exists : Follows(j)
         /\ \A j \in Exists' \ Exists : Waits(conf'.retry, jobs'[j])
<1>1. ASSUME conf' = conf, NEW j \in Exists, jobs'[j] = jobs[j]
      PROVE  Follows(j)
  BY <1>1, FailureFollows
<1>2. ASSUME NEW j \in Jobs, NEW after \in StartDates, NEW delay \in StartDelays,
             CreateJob(j, after, delay)
      PROVE  /\ \A i \in Exists : Follows(i)
             /\ \A i \in Exists' \ Exists : Waits(conf'.retry, jobs'[i])
  <2>1. conf' = conf /\ Exists' = Exists \cup {j} /\ \A i \in Exists : jobs'[i] = jobs[i]
    BY <1>2 DEF CreateJob, Exists
  <2>2. Waits(conf.retry, jobs'[j])
    BY <1>2, RequestWaits
  <2> QED
    BY <1>1, <2>1, <2>2
<1>3. ASSUME NEW j \in Jobs, NEW timeout, Pull(j, timeout) \/ ChangeVisibilityTimeout(j, timeout)
      PROVE  Exists' = Exists /\ \A i \in Exists : Follows(i)
  <2>1. /\ j \in Exists /\ conf' = conf /\ Exists' = Exists
        /\ \A i \in Exists \ {j} : jobs'[i] = jobs[i]
    BY <1>3 DEF Pull, ChangeVisibilityTimeout, Exists, In
  <2>2. Follows(j)
    BY <1>3, <2>1, PullFollows, ChangeFollows
  <2> QED
    BY <1>1, <2>1, <2>2
<1>4. ASSUME NEW j \in Jobs, FailJob(j) \/ SetJobAsSuccessful(j)
      PROVE  Exists' = Exists /\ \A i \in Exists : Follows(i)
  <2>1. /\ j \in Exists /\ conf' = conf /\ Exists' = Exists
        /\ \A i \in Exists \ {j} : jobs'[i] = jobs[i]
        /\ SetJobAsSuccessful(j) \/ jobs'[j] = AfterFailure(jobs[j])
    BY <1>4 DEF FailJob, SetJobAsSuccessful, Exists, In
  <2>2. Follows(j)
    BY <2>1, FailureFollows, SuccessFollows
  <2> QED
    BY <1>1, <2>1, <2>2
<1>5. CASE CheckVisibilityTimeouts
  <2>1. /\ conf' = conf /\ Exists' = Exists
        /\ \A i \in Exists : jobs'[i] = jobs[i] \/ jobs'[i] = AfterFailure(jobs[i])
    BY <1>5 DEF CheckVisibilityTimeouts, Exists
  <2> QED
    BY <2>1, FailureFollows
<1>6. ASSUME NEW state \in {"hidden", "delayed"}, QueueDue(state)
      PROVE  Exists' = Exists /\ \A i \in Exists : Follows(i)
  <2>1. /\ conf' = conf /\ Exists' = Exists
        /\ \A i \in Exists \ Due(state) : jobs'[i] = jobs[i]
    BY <1>6 DEF QueueDue, Exists
  <2>2. \A i \in Due(state) : Follows(i)
    BY <1>6, DueFollows
  <2> QED
    BY <1>1, <2>1, <2>2
<1>7. CASE LoadJobs
  <2>1. Exists' = Exists
    BY <1>7 DEF LoadJobs, Exists
  <2> QED
    BY <1>7, <2>1, LoadFollows
<1>8. CASE Tick \/ UNCHANGED vars
  <2>1. conf' = conf /\ jobs' = jobs /\ Exists' = Exists
    BY <1>8 DEF Tick, vars, Exists
  <2> QED
    BY <1>1, <2>1
<1>9. CASE \E j \in Jobs, after \in StartDates, delay \in StartDelays : CreateJob(j, after, delay)
  BY <1>2, <1>9
<1>10. CASE \/ \E j \in Jobs, timeout \in Asked : Pull(j, timeout) \/ ChangeVisibilityTimeout(j, timeout)
            \/ \E j \in Jobs : FailJob(j) \/ SetJobAsSuccessful(j)
            \/ AttemptRetries \/ CheckDelayedJobs
  <2>1. Exists' = Exists /\ \A i \in Exists : Follows(i)
    BY <1>3, <1>4, <1>6, <1>10 DEF AttemptRetries, CheckDelayedJobs
  <2> QED
    BY <2>1
<1> QED
  BY <1>5, <1>7, <1>8, <1>9, <1>10 DEF Next

LEMMA WaitsKept ==
  ASSUME PowersAreDefined, IInv, WaitsInv, [Next]_vars
  PROVE  WaitsInv' /\ DelaysNeverShrink
<1>1. /\ \A j \in Exists : Follows(j)
      /\ \A j \in Exists' \ Exists : Waits(conf'.retry, jobs'[j])
  BY NextFollows
<1>2. \A j \in Exists' : Waits(conf'.retry, jobs'[j])
  BY <1>1 DEF Follows
<1>3. WaitsInv'
  BY <1>2 DEF WaitsInv
<1>4. DelaysNeverShrink
  BY <1>1 DEF DelaysNeverShrink, Follows
<1> QED
  BY <1>3, <1>4

\* No job is queued before the date that its request or its failure gives it, unless it waited
\* for a retry when the server was loaded; and under a policy that grows (Grows: no exponential
\* factor below 1) its delays never shrink from a failure to the next.  For any strategies and
\* factors that are fractions, requests, dates and restarts, with any configurations; of powers
\* it takes the two equations that define them.
THEOREM DelaysFollowThePolicy ==
  ASSUME PowersAreDefined
  PROVE  Spec => DelaysAreRight
<1>1. Init => WaitsInv
  BY DEF Init, WaitsInv, Exists
<1>2. IInv /\ WaitsInv /\ [Next]_vars => WaitsInv' /\ DelaysNeverShrink
  BY WaitsKept
<1>3. WaitsInv => NoEarlyStart
  BY DEF WaitsInv, Waits, NoEarlyStart, In
<1>4. Spec => []IInv
  BY TimeoutsInvariance
<1>5. Spec => [][NoEarlyStart' /\ DelaysNeverShrink]_vars
  BY <1>1, <1>2, <1>3, <1>4, PTL DEF Spec
<1> QED
  BY <1>5 DEF DelaysAreRight

-----------------------------------------------------------------------------
(* The priority queue: a linked list.                                      *)

\* The nodes from n on (PQ!Chain), of any nodes.
Linked(nodes, S) == \A m \in S : nodes[m].next \in S \cup {0}
Walk(nodes, n) ==
  {m \in DOMAIN nodes : n # 0 /\ \A S \in SUBSET DOMAIN nodes : n \in S /\ Linked(nodes, S) => m \in S}

LEMMA WalkIsLeast ==
  ASSUME NEW nodes, NEW n, NEW S \in SUBSET DOMAIN nodes, n \in S, Linked(nodes, S)
  PROVE  Walk(nodes, n) \subseteq S
BY DEF Walk

LEMMA WalkFollows ==
  ASSUME NEW nodes, 0 \notin DOMAIN nodes, Linked(nodes, DOMAIN nodes), NEW n \in DOMAIN nodes
  PROVE  /\ Walk(nodes, n) \subseteq DOMAIN nodes /\ n \in Walk(nodes, n)
         /\ Linked(nodes, Walk(nodes, n))
<1>1. Walk(nodes, n) \subseteq DOMAIN nodes /\ n \in Walk(nodes, n)
  BY DEF Walk
<1>2. ASSUME NEW m \in Walk(nodes, n), nodes[m].next # 0
      PROVE  nodes[m].next \in Walk(nodes, n)
  <2>1. nodes[m].next \in DOMAIN nodes
    BY <1>1, <1>2 DEF Linked
  <2>2. \A S \in SUBSET DOMAIN nodes : n \in S /\ Linked(nodes, S) => nodes[m].next \in S
    BY <1>2 DEF Walk, Linked
  <2> QED
    BY <2>1, <2>2 DEF Walk
<1> QED
  BY <1>1, <1>2 DEF Linked

LEMMA NoWalk == ASSUME NEW nodes PROVE Walk(nodes, 0) = {}
BY DEF Walk

\* A walk is its first node, and the walk from the next one.
LEMMA WalkGoesOn ==
  ASSUME NEW nodes, 0 \notin DOMAIN nodes, Linked(nodes, DOMAIN nodes), NEW n \in DOMAIN nodes
  PROVE  Walk(nodes, n) = {n} \cup Walk(nodes, nodes[n].next)
<1> DEFINE x == nodes[n].next
<1>1. x \in DOMAIN nodes \cup {0}
  BY DEF Linked
<1>2. Linked(nodes, Walk(nodes, x)) /\ Walk(nodes, x) \subseteq DOMAIN nodes
      /\ x \in Walk(nodes, x) \cup {0}
  <2>1. CASE x = 0
    BY <2>1, NoWalk DEF Linked
  <2>2. CASE x # 0
    BY <1>1, <2>2, WalkFollows
  <2> QED
    BY <2>1, <2>2
<1>3. Walk(nodes, n) \subseteq {n} \cup Walk(nodes, x)
  <2>1. Linked(nodes, {n} \cup Walk(nodes, x))
    BY <1>2 DEF Linked
  <2> QED
    BY <1>2, <2>1, WalkIsLeast
<1>4. n \in Walk(nodes, n) /\ Walk(nodes, n) \subseteq DOMAIN nodes /\ Linked(nodes, Walk(nodes, n))
  BY WalkFollows
<1>5. Walk(nodes, x) \subseteq Walk(nodes, n)
  <2>1. CASE x = 0
    BY <2>1, NoWalk
  <2>2. CASE x # 0
    <3>1. x \in Walk(nodes, n)
      BY <1>4, <2>2 DEF Linked
    <3> QED
      BY <1>4, <3>1, WalkIsLeast
  <2> QED
    BY <2>1, <2>2
<1> QED
  BY <1>3, <1>4, <1>5

\* Of two nodes of a walk, one comes after the other.
LEMMA WalkIsALine ==
  ASSUME NEW nodes, 0 \notin DOMAIN nodes, Linked(nodes, DOMAIN nodes), NEW n \in DOMAIN nodes,
         NEW a \in Walk(nodes, n), NEW b \in Walk(nodes, n)
  PROVE  a \in Walk(nodes, b) \/ b \in Walk(nodes, a)
<1> DEFINE S == {z \in Walk(nodes, n) : a \in Walk(nodes, z) \/ z \in Walk(nodes, a)}
<1>1. n \in Walk(nodes, n) /\ Walk(nodes, n) \subseteq DOMAIN nodes /\ Linked(nodes, Walk(nodes, n))
  BY WalkFollows
<1>2. n \in S /\ S \subseteq DOMAIN nodes
  BY <1>1
<1>3. ASSUME NEW z \in S, nodes[z].next # 0
      PROVE  nodes[z].next \in S
  <2>1. z \in DOMAIN nodes /\ nodes[z].next \in Walk(nodes, n) /\ nodes[z].next \in DOMAIN nodes
    BY <1>1, <1>3 DEF Linked
  <2>2. CASE a \in Walk(nodes, z)
    <3>1. a = z \/ a \in Walk(nodes, nodes[z].next)
      BY <2>1, <2>2, WalkGoesOn
    <3>2. CASE a = z
      <4>1. nodes[z].next \in Walk(nodes, nodes[z].next)
        BY <2>1, WalkFollows
      <4>2. Walk(nodes, nodes[z].next) \subseteq Walk(nodes, a)
        BY <2>1, <3>2, WalkGoesOn
      <4> QED
        BY <2>1, <4>1, <4>2
    <3> QED
      BY <2>1, <3>1, <3>2
  <2>3. CASE z \in Walk(nodes, a)
    <3>1. Linked(nodes, Walk(nodes, a))
      BY <1>1, WalkFollows
    <3> QED
      BY <1>3, <2>1, <2>3, <3>1 DEF Linked
  <2> QED
    BY <2>2, <2>3
<1>4. Linked(nodes, S)
  BY <1>3 DEF Linked
<1> HIDE DEF S
<1>5. b \in S
  BY <1>2, <1>4, WalkIsLeast
<1> QED
  BY <1>5 DEF S

-----------------------------------------------------------------------------
(* Its order.                                                              *)

Ahead(nodes, a, b) ==
  nodes[a].priority > nodes[b].priority \/ (nodes[a].priority = nodes[b].priority /\ a < b)

\* Nodes of numbers and links, and a walk along which each one is ahead of the next.
Sound(nodes) ==
  /\ DOMAIN nodes \subseteq Nat \ {0} /\ Linked(nodes, DOMAIN nodes)
  /\ \A m \in DOMAIN nodes : nodes[m].priority \in Int

InOrder(nodes, n) ==
  \A m \in Walk(nodes, n) : nodes[m].next # 0 => Ahead(nodes, m, nodes[m].next)

LEMMA FirstIsAhead ==
  ASSUME NEW nodes, Sound(nodes), NEW n \in DOMAIN nodes, InOrder(nodes, n)
  PROVE  \A m \in Walk(nodes, n) : m = n \/ Ahead(nodes, n, m)
<1> DEFINE S == {m \in Walk(nodes, n) : m = n \/ Ahead(nodes, n, m)}
<1>1. 0 \notin DOMAIN nodes /\ Linked(nodes, DOMAIN nodes)
  BY DEF Sound
<1>2. n \in Walk(nodes, n) /\ Walk(nodes, n) \subseteq DOMAIN nodes /\ Linked(nodes, Walk(nodes, n))
  BY <1>1, WalkFollows
<1>3. n \in S /\ S \subseteq DOMAIN nodes
  BY <1>2
<1>4. ASSUME NEW m \in S, nodes[m].next # 0
      PROVE  nodes[m].next \in S
  <2>1. nodes[m].next \in Walk(nodes, n) /\ Ahead(nodes, m, nodes[m].next)
    BY <1>2, <1>4 DEF Linked, InOrder
  <2>2. Ahead(nodes, n, nodes[m].next)
    BY <1>2, <1>4, <2>1 DEF Ahead, Sound
  <2> QED
    BY <2>1, <2>2
<1>5. Linked(nodes, S)
  BY <1>4 DEF Linked
<1> HIDE DEF S
<1>6. Walk(nodes, n) \subseteq S
  BY <1>3, <1>5, WalkIsLeast
<1> QED
  BY <1>6 DEF S

\* A walk inside a walk in order is in order, and never comes back.
LEMMA NoWayBack ==
  ASSUME NEW nodes, Sound(nodes), NEW n \in DOMAIN nodes, InOrder(nodes, n),
         NEW m \in Walk(nodes, n)
  PROVE  /\ Walk(nodes, m) \subseteq Walk(nodes, n) /\ InOrder(nodes, m)
         /\ InOrder(nodes, nodes[m].next)
         /\ m \notin Walk(nodes, nodes[m].next)
<1>1. 0 \notin DOMAIN nodes /\ Linked(nodes, DOMAIN nodes)
  BY DEF Sound
<1>2. m \in DOMAIN nodes /\ Linked(nodes, Walk(nodes, n)) /\ Walk(nodes, n) \subseteq DOMAIN nodes
  BY <1>1, WalkFollows
<1>3. Walk(nodes, m) \subseteq Walk(nodes, n)
  BY <1>2, WalkIsLeast
<1>4. InOrder(nodes, m)
  BY <1>3 DEF InOrder
<1>5. CASE nodes[m].next = 0
  BY <1>3, <1>4, <1>5, NoWalk DEF InOrder
<1>6. CASE nodes[m].next # 0
  <2> DEFINE x == nodes[m].next
  <2>1. x \in DOMAIN nodes
    BY <1>2, <1>6 DEF Linked
  <2>2. Walk(nodes, x) \subseteq Walk(nodes, m) /\ Ahead(nodes, m, x)
    BY <1>1, <1>2, <1>4, <1>6, WalkGoesOn, WalkFollows DEF InOrder
  <2>3. InOrder(nodes, x)
    BY <1>4, <2>2 DEF InOrder
  <2>4. \A k \in Walk(nodes, x) : k = x \/ Ahead(nodes, x, k)
    BY <2>1, <2>3, FirstIsAhead
  <2>5. ~Ahead(nodes, m, m) /\ ~(Ahead(nodes, m, x) /\ Ahead(nodes, x, m))
    BY <1>2, <2>1 DEF Ahead, Sound
  <2> QED
    BY <1>3, <1>4, <2>2, <2>3, <2>4, <2>5
<1> QED
  BY <1>5, <1>6

\* No two nodes of the walk have the same next one.
LEMMA LinksDiffer ==
  ASSUME NEW nodes, Sound(nodes), NEW n \in DOMAIN nodes, InOrder(nodes, n),
         NEW a \in Walk(nodes, n), NEW b \in Walk(nodes, n),
         nodes[a].next = nodes[b].next, nodes[a].next # 0
  PROVE  a = b
<1> SUFFICES ASSUME a # b PROVE FALSE
  OBVIOUS
<1>1. 0 \notin DOMAIN nodes /\ Linked(nodes, DOMAIN nodes)
  BY DEF Sound
<1>2. a \in DOMAIN nodes /\ b \in DOMAIN nodes
  BY <1>1, WalkFollows
<1>3. a \notin Walk(nodes, nodes[a].next) /\ b \notin Walk(nodes, nodes[b].next)
  BY NoWayBack
<1>4. a \in Walk(nodes, b) \/ b \in Walk(nodes, a)
  BY <1>1, WalkIsALine
<1> QED
  BY <1>1, <1>2, <1>3, <1>4, WalkGoesOn

\* The walk of Enqueue stops.
LEMMA SomeNodeIsTheLast ==
  ASSUME NEW nodes, Sound(nodes), IsFiniteSet(DOMAIN nodes), NEW n \in DOMAIN nodes,
         InOrder(nodes, n), NEW p \in Int, nodes[n].priority >= p
  PROVE  \E m \in Walk(nodes, n) :
           /\ nodes[m].priority >= p
           /\ nodes[m].next = 0 \/ nodes[nodes[m].next].priority < p
<1> SUFFICES ASSUME \A m \in Walk(nodes, n) : nodes[m].priority >= p =>
                      nodes[m].next # 0 /\ ~(nodes[nodes[m].next].priority < p)
             PROVE  FALSE
  OBVIOUS
<1> DEFINE S == {m \in Walk(nodes, n) : nodes[m].priority >= p}
           T == S \ {n}
           f == [m \in S |-> nodes[m].next]
<1>1. 0 \notin DOMAIN nodes /\ Linked(nodes, DOMAIN nodes)
  BY DEF Sound
<1>2. n \in Walk(nodes, n) /\ Walk(nodes, n) \subseteq DOMAIN nodes /\ Linked(nodes, Walk(nodes, n))
  BY <1>1, WalkFollows
<1>3. IsFiniteSet(S) /\ n \in S
  <2>1. S \subseteq DOMAIN nodes /\ n \in S
    BY <1>2
  <2> QED
    BY <2>1, FS_Subset
<1>4. ASSUME NEW m \in S
      PROVE  nodes[m].next \in T /\ nodes[m].next # 0
  <2>1. nodes[m].next # 0 /\ ~(nodes[nodes[m].next].priority < p)
        /\ nodes[m].next \in Walk(nodes, n)
    BY <1>2, <1>4 DEF Linked
  <2>2. nodes[nodes[m].next].priority >= p
    BY <1>2, <2>1 DEF Sound
  <2>3. nodes[m].next # n
    BY <1>4, NoWayBack
  <2> QED
    BY <2>1, <2>2, <2>3
<1>5. f \in [S -> T]
  BY <1>4
<1>6. IsFiniteSet(T) /\ Cardinality(T) = Cardinality(S) - 1 /\ Cardinality(S) \in Nat
  <2> HIDE DEF S
  <2> QED
    BY <1>3, FS_RemoveElement, FS_CardinalityType
<1>7. PICK x, y \in S : x # y /\ f[x] = f[y]
  <2> HIDE DEF f, S, T
  <2>1. Cardinality(T) < Cardinality(S)
    BY <1>6
  <2> QED
    BY <1>3, <1>5, <1>6, <2>1, FS_PigeonHole
<1>8. nodes[x].next = nodes[y].next /\ nodes[x].next # 0
  BY <1>4, <1>7
<1> QED
  BY <1>7, <1>8, LinksDiffer

\* What is not linked again keeps its walk.
LEMMA SameWalk ==
  ASSUME NEW nodes, Sound(nodes), NEW nodes2, Sound(nodes2), DOMAIN nodes \subseteq DOMAIN nodes2,
         NEW n \in DOMAIN nodes \cup {0},
         \A m \in Walk(nodes, n) : nodes2[m].next = nodes[m].next
  PROVE  Walk(nodes2, n) = Walk(nodes, n)
<1>1. CASE n = 0
  BY <1>1, NoWalk
<1>2. CASE n # 0
  <2>1. 0 \notin DOMAIN nodes /\ Linked(nodes, DOMAIN nodes)
        /\ 0 \notin DOMAIN nodes2 /\ Linked(nodes2, DOMAIN nodes2)
    BY DEF Sound
  <2>2. n \in DOMAIN nodes /\ n \in DOMAIN nodes2
    BY <1>2
  <2>3. /\ Walk(nodes, n) \subseteq DOMAIN nodes /\ n \in Walk(nodes, n)
        /\ Linked(nodes, Walk(nodes, n))
        /\ Walk(nodes2, n) \subseteq DOMAIN nodes2 /\ n \in Walk(nodes2, n)
        /\ Linked(nodes2, Walk(nodes2, n))
    BY <2>1, <2>2, WalkFollows
  <2>4. Linked(nodes2, Walk(nodes, n))
    BY <2>3 DEF Linked
  <2>5. Walk(nodes2, n) \subseteq Walk(nodes, n)
    BY <2>3, <2>4, WalkIsLeast
  <2>6. Linked(nodes, Walk(nodes2, n) \cap Walk(nodes, n))
    BY <2>3 DEF Linked
  <2>7. Walk(nodes, n) \subseteq Walk(nodes2, n)
    BY <2>3, <2>6, WalkIsLeast
  <2> QED
    BY <2>5, <2>7
<1> QED
  BY <1>1, <1>2

\* Enqueue, before every node.
LEMMA InFront ==
  ASSUME NEW nodes, Sound(nodes), NEW nodes2, NEW k \in Nat \ {0}, k \notin DOMAIN nodes,
         DOMAIN nodes2 = DOMAIN nodes \cup {k}, NEW h \in DOMAIN nodes \cup {0},
         \A m \in DOMAIN nodes : nodes2[m] = nodes[m],
         nodes2[k].next = h, nodes2[k].priority \in Int,
         InOrder(nodes, h), h # 0 => nodes[h].priority < nodes2[k].priority
  PROVE  /\ Sound(nodes2) /\ InOrder(nodes2, k)
         /\ Walk(nodes2, k) = Walk(nodes, h) \cup {k}
<1>1. Sound(nodes2)
  BY DEF Sound, Linked
<1>2. 0 \notin DOMAIN nodes2 /\ Linked(nodes2, DOMAIN nodes2)
  BY <1>1 DEF Sound
<1>3. Walk(nodes, h) \subseteq DOMAIN nodes
  BY DEF Walk
<1>4. Walk(nodes2, h) = Walk(nodes, h)
  BY <1>1, <1>3, SameWalk
<1>5. Walk(nodes2, k) = Walk(nodes, h) \cup {k}
  BY <1>2, <1>4, WalkGoesOn
<1>6. ASSUME NEW m \in Walk(nodes2, k), nodes2[m].next # 0
      PROVE  Ahead(nodes2, m, nodes2[m].next)
  <2>1. CASE m = k
    BY <1>6, <2>1 DEF Ahead, Sound
  <2>2. CASE m \in Walk(nodes, h)
    <3>1. nodes2[m] = nodes[m] /\ nodes[m].next \in DOMAIN nodes
      BY <1>3, <1>6, <2>2 DEF Sound, Linked
    <3>2. Ahead(nodes, m, nodes[m].next)
      BY <1>6, <2>2, <3>1 DEF InOrder
    <3> QED
      BY <3>1, <3>2 DEF Ahead
  <2> QED
    BY <1>5, <1>6, <2>1, <2>2
<1> QED
  BY <1>1, <1>5, <1>6 DEF InOrder

\* Enqueue, after a node that is not less urgent and before one that is.
LEMMA Between ==
  ASSUME NEW nodes, Sound(nodes), NEW nodes2, NEW k \in Nat \ {0}, k \notin DOMAIN nodes,
         \A m \in DOMAIN nodes : m < k,
         DOMAIN nodes2 = DOMAIN nodes \cup {k}, NEW h \in DOMAIN nodes, InOrder(nodes, h),
         NEW l \in Walk(nodes, h), NEW p \in Int,
         \A m \in DOMAIN nodes : nodes2[m].priority = nodes[m].priority,
         \A m \in DOMAIN nodes : m # l => nodes2[m].next = nodes[m].next,
         nodes2[l].next = k, nodes2[k].next = nodes[l].next, nodes2[k].priority = p,
         nodes[l].priority >= p, nodes[l].next = 0 \/ nodes[nodes[l].next].priority < p
  PROVE  /\ Sound(nodes2) /\ InOrder(nodes2, h)
         /\ Walk(nodes2, h) = Walk(nodes, h) \cup {k}
<1>1. /\ 0 \notin DOMAIN nodes /\ Linked(nodes, DOMAIN nodes)
      /\ Walk(nodes, h) \subseteq DOMAIN nodes /\ h \in Walk(nodes, h)
      /\ Linked(nodes, Walk(nodes, h)) /\ l \in DOMAIN nodes
  BY WalkFollows DEF Sound
<1>2. Sound(nodes2)
  <2>1. Linked(nodes2, DOMAIN nodes2)
    BY <1>1 DEF Linked
  <2> QED
    BY <2>1 DEF Sound
<1>3. /\ Walk(nodes2, h) \subseteq DOMAIN nodes2 /\ h \in Walk(nodes2, h)
      /\ Linked(nodes2, Walk(nodes2, h))
  BY <1>2, WalkFollows DEF Sound
<1>4. Walk(nodes2, h) \subseteq Walk(nodes, h) \cup {k}
  <2>1. Linked(nodes2, Walk(nodes, h) \cup {k})
    BY <1>1 DEF Linked
  <2> QED
    BY <1>1, <2>1, WalkIsLeast
<1>5. Walk(nodes, h) \subseteq Walk(nodes2, h)
  <2> DEFINE S == Walk(nodes2, h) \ {k}
  <2>1. ASSUME NEW m \in S
        PROVE  nodes[m].next \in S \cup {0}
    <3>1. m \in DOMAIN nodes /\ nodes[m].next \in DOMAIN nodes \cup {0}
      BY <1>1, <1>3 DEF Linked
    <3>2. CASE m # l
      BY <1>1, <1>3, <3>1, <3>2 DEF Linked
    <3>3. CASE m = l
      <4>1. k \in Walk(nodes2, h)
        BY <1>3, <3>3 DEF Linked
      <4> QED
        BY <1>3, <3>1, <3>3, <4>1 DEF Linked
    <3> QED
      BY <3>2, <3>3
  <2>2. Linked(nodes, S) /\ h \in S /\ S \in SUBSET DOMAIN nodes
    BY <1>3, <2>1 DEF Linked
  <2> HIDE DEF S
  <2>3. Walk(nodes, h) \subseteq S
    BY <2>2, WalkIsLeast
  <2> QED
    BY <2>3 DEF S
<1>6. k \in Walk(nodes2, h)
  BY <1>3, <1>5 DEF Linked
<1>7. ASSUME NEW m \in Walk(nodes2, h), nodes2[m].next # 0
      PROVE  Ahead(nodes2, m, nodes2[m].next)
  <2>1. CASE m = k
    <3>1. nodes[l].next \in DOMAIN nodes
      BY <1>1, <1>7, <2>1 DEF Linked
    <3> QED
      BY <1>7, <2>1, <3>1 DEF Ahead, Sound
  <2>2. CASE m = l
    <3>1. nodes2[l].priority >= p /\ nodes2[l].priority \in Int /\ l < k
      BY <1>1 DEF Sound
    <3> QED
      BY <2>2, <3>1 DEF Ahead
  <2>3. CASE m # k /\ m # l
    <3>1. m \in Walk(nodes, h) /\ m \in DOMAIN nodes /\ nodes2[m].next = nodes[m].next
      BY <1>1, <1>4, <2>3
    <3>2. Ahead(nodes, m, nodes[m].next) /\ nodes[m].next \in DOMAIN nodes
      BY <1>1, <1>7, <3>1 DEF InOrder, Linked
    <3> QED
      BY <3>1, <3>2 DEF Ahead
  <2> QED
    BY <2>1, <2>2, <2>3
<1> QED
  BY <1>2, <1>4, <1>5, <1>6, <1>7 DEF InOrder

\* Remove, after a node.
LEMMA Without ==
  ASSUME NEW nodes, Sound(nodes), NEW nodes2, DOMAIN nodes2 = DOMAIN nodes,
         NEW h \in DOMAIN nodes, InOrder(nodes, h),
         NEW a \in Walk(nodes, h), NEW q \in DOMAIN nodes, nodes[a].next = q,
         \A m \in DOMAIN nodes : nodes2[m].priority = nodes[m].priority,
         \A m \in DOMAIN nodes : m # a => nodes2[m].next = nodes[m].next,
         nodes2[a].next = nodes[q].next
  PROVE  /\ Sound(nodes2) /\ InOrder(nodes2, h) /\ q \in Walk(nodes, h)
         /\ Walk(nodes2, h) = Walk(nodes, h) \ {q}
<1>1. /\ 0 \notin DOMAIN nodes /\ Linked(nodes, DOMAIN nodes)
      /\ Walk(nodes, h) \subseteq DOMAIN nodes /\ h \in Walk(nodes, h)
      /\ Linked(nodes, Walk(nodes, h)) /\ a \in DOMAIN nodes
  BY WalkFollows DEF Sound
<1>2. Sound(nodes2)
  <2>1. Linked(nodes2, DOMAIN nodes2)
    BY <1>1 DEF Linked
  <2> QED
    BY <2>1 DEF Sound
<1>3. /\ Walk(nodes2, h) \subseteq DOMAIN nodes2 /\ h \in Walk(nodes2, h)
      /\ Linked(nodes2, Walk(nodes2, h))
  BY <1>2, WalkFollows DEF Sound
<1>4. q \in Walk(nodes, h) /\ q # 0
  BY <1>1 DEF Linked
<1>5. a # q /\ q # h /\ \A m \in Walk(nodes, h) : nodes[m].next = q => m = a
  <2>1. a \notin Walk(nodes, q)
    BY NoWayBack
  <2>2. q \in Walk(nodes, q)
    BY <1>1, WalkFollows
  <2>3. \A m \in Walk(nodes, h) : nodes[m].next = q => m = a
    BY <1>4, LinksDiffer
  <2> QED
    BY <2>1, <2>2, <2>3
<1>6. nodes[q].next # q
  BY <1>4, <1>5
<1>7. Walk(nodes2, h) \subseteq Walk(nodes, h) \ {q}
  <2>1. ASSUME NEW m \in Walk(nodes, h) \ {q}
        PROVE  nodes2[m].next \in (Walk(nodes, h) \ {q}) \cup {0}
    <3>1. CASE m = a
      BY <1>1, <1>4, <1>6, <3>1 DEF Linked
    <3>2. CASE m # a
      BY <1>1, <1>5, <2>1, <3>2 DEF Linked
    <3> QED
      BY <3>1, <3>2
  <2>2. Linked(nodes2, Walk(nodes, h) \ {q})
    BY <2>1 DEF Linked
  <2> QED
    BY <1>1, <1>5, <2>2, WalkIsLeast
<1>8. Walk(nodes, h) \subseteq Walk(nodes2, h) \cup {q}
  <2> DEFINE S == {m \in Walk(nodes2, h) \cup {q} : m \in Walk(nodes, h)}
  <2>1. ASSUME NEW m \in S
        PROVE  nodes[m].next \in S \cup {0}
    <3>1. nodes[m].next \in Walk(nodes, h) \cup {0} /\ m \in DOMAIN nodes
      BY <1>1 DEF Linked
    <3>2. CASE m = a
      BY <1>4, <3>2
    <3>3. CASE m = q
      <4>1. a \in Walk(nodes2, h)
        <5> DEFINE T == {z \in Walk(nodes, h) : z \in Walk(nodes2, h) \/ a \in Walk(nodes2, h)}
        <5>1. ASSUME NEW z \in T PROVE nodes[z].next \in T \cup {0}
          <6>1. z \in DOMAIN nodes /\ nodes[z].next \in Walk(nodes, h) \cup {0}
            BY <1>1 DEF Linked
          <6> QED
            BY <1>3, <6>1 DEF Linked
        <5>2. Linked(nodes, T) /\ h \in T /\ T \in SUBSET DOMAIN nodes
          BY <1>1, <1>3, <5>1 DEF Linked
        <5> HIDE DEF T
        <5>3. Walk(nodes, h) \subseteq T
          BY <5>2, WalkIsLeast
        <5> QED
          BY <5>3 DEF T
      <4> QED
        BY <1>3, <3>1, <3>3, <4>1 DEF Linked
    <3>4. CASE m # a /\ m # q
      BY <1>3, <3>1, <3>4 DEF Linked
    <3> QED
      BY <3>2, <3>3, <3>4
  <2>2. Linked(nodes, S) /\ h \in S /\ S \in SUBSET DOMAIN nodes
    BY <1>1, <1>3, <2>1 DEF Linked
  <2> HIDE DEF S
  <2>3. Walk(nodes, h) \subseteq S
    BY <2>2, WalkIsLeast
  <2> QED
    BY <2>3 DEF S
<1>9. ASSUME NEW m \in Walk(nodes2, h), nodes2[m].next # 0
      PROVE  Ahead(nodes2, m, nodes2[m].next)
  <2>1. m \in Walk(nodes, h) /\ m \in DOMAIN nodes
    BY <1>1, <1>7
  <2>2. CASE m = a
    <3>1. Ahead(nodes, a, q) /\ Ahead(nodes, q, nodes[q].next) /\ nodes[q].next \in DOMAIN nodes
      BY <1>1, <1>4, <1>9, <2>2 DEF InOrder, Linked
    <3>2. Ahead(nodes, a, nodes[q].next)
      BY <1>1, <3>1 DEF Ahead, Sound
    <3> QED
      BY <1>1, <2>2, <3>1, <3>2 DEF Ahead
  <2>3. CASE m # a
    <3>1. Ahead(nodes, m, nodes[m].next) /\ nodes[m].next \in DOMAIN nodes
      BY <1>1, <1>9, <2>1, <2>3 DEF InOrder, Linked
    <3> QED
      BY <2>1, <2>3, <3>1 DEF Ahead
  <2> QED
    BY <2>2, <2>3
<1> QED
  BY <1>2, <1>4, <1>7, <1>8, <1>9 DEF InOrder

-----------------------------------------------------------------------------
(* The list is a delay queue.                                              *)

Entry(nodes, n) == [value |-> nodes[n].value, priority |-> nodes[n].priority, ticket |-> n]
Entries(nodes, S) == {Entry(nodes, n) : n \in S}

ListInv ==
  /\ \E k \in Nat : DOMAIN node = 1 .. k
  /\ node \in [DOMAIN node -> [value : Values, priority : Priorities, next : Nat]]
  /\ Sound(node) /\ head \in DOMAIN node \cup {0} /\ InOrder(node, head)
  /\ \A a, b \in Walk(node, head) : node[a].value = node[b].value => a = b
  /\ length = Cardinality(Walk(node, head))

LEMMA EntriesAreCounted ==
  ASSUME NEW nodes, NEW S, IsFiniteSet(S)
  PROVE  IsFiniteSet(Entries(nodes, S)) /\ Cardinality(Entries(nodes, S)) = Cardinality(S)
<1> DEFINE f == [n \in S |-> Entry(nodes, n)]
<1>1. f \in Bijection(S, Entries(nodes, S))
  <2>1. f \in [S -> Entries(nodes, S)] /\ \A e \in Entries(nodes, S) : \E n \in S : f[n] = e
    BY DEF Entries
  <2>2. \A m, n \in S : f[m] = f[n] => m = n
    BY DEF Entry
  <2> QED
    BY <2>1, <2>2 DEF Bijection, Injection, IsInjective, Surjection
<1>2. ExistsBijection(S, Entries(nodes, S))
  BY <1>1 DEF ExistsBijection
<1> QED
  BY <1>2, FS_Bijection

LEMMA NamesAgree ==
  ASSUME NEW S
  PROVE  PQ!Cardinality(S) = Cardinality(S) /\ PQ!DQ!Cardinality(S) = Cardinality(S)
BY DEF PQ!Cardinality, PQ!DQ!Cardinality, Cardinality

LEMMA WhatWaits ==
  /\ \A n : PQ!Chain(n) = Walk(node, n)
  /\ PQ!Waiting = Entries(node, Walk(node, head))
  /\ PQ!Waiting' = Entries(node', Walk(node', head'))
BY DEF PQ!Waiting, PQ!Chain, PQ!Follows, PQ!Allocated, PQ!Nil, Walk, Linked, Entries, Entry

LEMMA ListIsFinite ==
  ASSUME ListInv
  PROVE  /\ IsFiniteSet(DOMAIN node) /\ IsFiniteSet(Walk(node, head))
         /\ Walk(node, head) \subseteq DOMAIN node
         /\ Cardinality(DOMAIN node) \in Nat
         /\ DOMAIN node = 1 .. Cardinality(DOMAIN node)
         /\ Cardinality(Walk(node, head)) \in Nat
<1>1. PICK k \in Nat : DOMAIN node = 1 .. k
  BY DEF ListInv
<1>2. IsFiniteSet(DOMAIN node) /\ Cardinality(DOMAIN node) = k
  BY <1>1, FS_Interval
<1>3. Walk(node, head) \subseteq DOMAIN node
  BY DEF Walk
<1> QED
  BY <1>1, <1>2, <1>3, FS_Subset, FS_CardinalityType

\* What a step must establish of the number of the entries.
LEMMA SizeIsRight ==
  ASSUME ListInv'
  PROVE  length' = PQ!DQ!Cardinality(PQ!Waiting')
<1>1. PICK k \in Nat : DOMAIN node' = 1 .. k
  BY DEF ListInv
<1>2. IsFiniteSet(Walk(node', head'))
  <2>1. Walk(node', head') \subseteq DOMAIN node'
    BY DEF Walk
  <2>2. IsFiniteSet(DOMAIN node')
    BY <1>1, FS_Interval
  <2> QED
    BY <2>1, <2>2, FS_Subset
<1>3. length' = Cardinality(Walk(node', head'))
  BY DEF ListInv
<1> QED
  BY <1>2, <1>3, EntriesAreCounted, NamesAgree, WhatWaits

LEMMA ListBegins == PQ!Init => ListInv /\ PQ!DQ!Init
<1> SUFFICES ASSUME PQ!Init PROVE ListInv /\ PQ!DQ!Init
  OBVIOUS
<1>1. DOMAIN node = {} /\ DOMAIN node = 1 .. 0 /\ head = 0 /\ length = 0 /\ out = "none"
  BY DEF PQ!Init, PQ!Nil, PQ!NoValue
<1>2. Walk(node, head) = {} /\ Cardinality({}) = 0
  BY <1>1, NoWalk, FS_EmptySet
<1>3. ListInv
  <2>1. \E k \in Nat : DOMAIN node = 1 .. k
    BY <1>1
  <2>2. node \in [DOMAIN node -> [value : Values, priority : Priorities, next : Nat]]
    BY <1>1 DEF PQ!Init
  <2> QED
    BY <1>1, <1>2, <2>1, <2>2 DEF ListInv, Sound, Linked, InOrder
<1>4. PQ!DQ!Init
  BY <1>1, <1>2, WhatWaits DEF PQ!DQ!Init, PQ!DQ!NoValue, Entries
<1> QED
  BY <1>3, <1>4

LEMMA EnqueueEnters ==
  ASSUME ListInv, NEW v \in Values, NEW p \in Priorities, PQ!Enqueue(v, p)
  PROVE  ListInv' /\ \E n \in 1 .. MaxTickets : PQ!DQ!Enter(v, p, n)
<1> DEFINE n == Cardinality(DOMAIN node) + 1
           W == Walk(node, head)
           last == PQ!LastNotLessUrgent(p)
<1>1. /\ Cardinality(DOMAIN node) \in Nat /\ DOMAIN node = 1 .. Cardinality(DOMAIN node)
      /\ IsFiniteSet(DOMAIN node) /\ IsFiniteSet(W) /\ W \subseteq DOMAIN node
      /\ Cardinality(W) \in Nat
  BY ListIsFinite
<1>2. /\ n \in Nat \ {0} /\ n \notin DOMAIN node /\ (\A m \in DOMAIN node : m < n)
      /\ DOMAIN node \cup {n} = 1 .. n
  BY <1>1
<1>3. n \in 1 .. MaxTickets
  BY <1>1, NamesAgree, QueueAssumption DEF PQ!Enqueue, PQ!Allocated
<1>4. /\ Sound(node) /\ head \in DOMAIN node \cup {0} /\ InOrder(node, head)
      /\ node \in [DOMAIN node -> [value : Values, priority : Priorities, next : Nat]]
      /\ p \in Int /\ length = Cardinality(W)
  BY QueueAssumption DEF ListInv
<1>5. /\ \A m \in W : node[m].value # v
      /\ length' = length + 1 /\ out' = out
  BY WhatWaits DEF PQ!Enqueue, PQ!Queued
<1> HIDE DEF n
<1>6. /\ DOMAIN node' = DOMAIN node \cup {n}
      /\ node' \in [DOMAIN node' -> [value : Values, priority : Priorities, next : Nat]]
      /\ Sound(node') /\ InOrder(node', head') /\ head' \in DOMAIN node'
      /\ Walk(node', head') = W \cup {n}
      /\ node'[n].value = v /\ node'[n].priority = p
      /\ \A m \in DOMAIN node : /\ node'[m].value = node[m].value
                                /\ node'[m].priority = node[m].priority
  <2>1. CASE head = 0 \/ node[head].priority < p
    <3>1. /\ node' = [m \in DOMAIN node \cup {n} |->
                        IF m = n THEN [value |-> v, priority |-> p, next |-> head] ELSE node[m]]
          /\ head' = n
      BY <2>1, NamesAgree DEF PQ!Enqueue, PQ!WithNode, PQ!Nil, PQ!Allocated, n
    <3>2. /\ DOMAIN node' = DOMAIN node \cup {n} /\ \A m \in DOMAIN node : node'[m] = node[m]
          /\ node'[n] = [value |-> v, priority |-> p, next |-> head]
      BY <1>2, <3>1
    <3>3. Sound(node') /\ InOrder(node', n) /\ Walk(node', n) = W \cup {n}
      BY <1>2, <1>4, <2>1, <3>2, InFront
    <3>4. head \in Nat
      BY <1>1, <1>4
    <3>5. node' \in [DOMAIN node' -> [value : Values, priority : Priorities, next : Nat]]
      BY <1>4, <3>1, <3>2, <3>4
    <3> QED
      BY <3>1, <3>2, <3>3, <3>5
  <2>2. CASE ~(head = 0 \/ node[head].priority < p)
    <3>1. /\ node' = [[m \in DOMAIN node \cup {n} |->
                        IF m = n THEN [value |-> v, priority |-> p, next |-> node[last].next]
                        ELSE node[m]] EXCEPT ![last].next = n]
          /\ head' = head
      <4>1. /\ node' = [PQ!WithNode(n, v, p, node[last].next) EXCEPT ![last].next = n]
            /\ head' = head
        BY <2>2, NamesAgree DEF PQ!Enqueue, PQ!Nil, PQ!Allocated, n
      <4> HIDE DEF last
      <4> QED
        BY <4>1 DEF PQ!WithNode, PQ!Allocated
    <3>2. head \in DOMAIN node /\ node[head].priority >= p
      BY <1>4, <2>2 DEF Sound
    <3>3. /\ last \in W /\ node[last].priority >= p
          /\ node[last].next = 0 \/ node[node[last].next].priority < p
      <4>1. last = CHOOSE m \in W : /\ node[m].priority >= p
                                    /\ node[m].next = 0 \/ node[node[m].next].priority < p
        BY WhatWaits DEF PQ!LastNotLessUrgent, PQ!Nil
      <4>2. \E m \in W : /\ node[m].priority >= p
                         /\ node[m].next = 0 \/ node[node[m].next].priority < p
        BY <1>1, <1>4, <3>2, SomeNodeIsTheLast
      <4> HIDE DEF last, W
      <4> QED
        BY <4>1, <4>2
    <3> HIDE DEF last
    <3>4. last \in DOMAIN node /\ last # n
      BY <1>1, <1>2, <3>3
    <3>5. /\ DOMAIN node' = DOMAIN node \cup {n}
          /\ \A m \in DOMAIN node : m # last => node'[m] = node[m]
          /\ node'[n] = [value |-> v, priority |-> p, next |-> node[last].next]
          /\ node'[last] = [node[last] EXCEPT !.next = n]
      BY <1>2, <3>1, <3>4
    <3>6. /\ node'[last].next = n /\ node'[last].value = node[last].value
          /\ node'[last].priority = node[last].priority
          /\ node'[last] \in [value : Values, priority : Priorities, next : Nat]
      BY <1>2, <1>4, <3>4, <3>5
    <3>7. \A m \in DOMAIN node : /\ node'[m].value = node[m].value
                                 /\ node'[m].priority = node[m].priority
      BY <3>5, <3>6
    <3>8. /\ node'[n].next = node[last].next /\ node'[n].priority = p
          /\ node'[n] \in [value : Values, priority : Priorities, next : Nat]
      BY <1>4, <3>4, <3>5
    <3>9. Sound(node') /\ InOrder(node', head) /\ Walk(node', head) = W \cup {n}
      <4>1. PICK nodes, nodes2, h, l : nodes = node /\ nodes2 = node' /\ h = head /\ l = last
        OBVIOUS
      <4>2. /\ Sound(nodes) /\ InOrder(nodes, h) /\ h \in DOMAIN nodes /\ l \in Walk(nodes, h)
            /\ DOMAIN nodes2 = DOMAIN nodes \cup {n}
        BY <1>4, <3>2, <3>3, <3>5, <4>1
      <4>3. /\ nodes[l].priority >= p
            /\ nodes[l].next = 0 \/ nodes[nodes[l].next].priority < p
        BY <3>3, <4>1
      <4>4. /\ \A m \in DOMAIN nodes : nodes2[m].priority = nodes[m].priority
            /\ \A m \in DOMAIN nodes : m # l => nodes2[m].next = nodes[m].next
        BY <3>5, <3>7, <4>1
      <4>5. nodes2[l].next = n /\ nodes2[n].next = nodes[l].next /\ nodes2[n].priority = p
        BY <3>6, <3>8, <4>1
      <4>6. n \in Nat \ {0} /\ n \notin DOMAIN nodes /\ (\A m \in DOMAIN nodes : m < n) /\ p \in Int
        BY <1>2, <1>4, <4>1
      <4>7. Sound(nodes2) /\ InOrder(nodes2, h) /\ Walk(nodes2, h) = Walk(nodes, h) \cup {n}
        BY <4>2, <4>3, <4>4, <4>5, <4>6, Between
      <4> QED
        BY <4>1, <4>7
    <3>10. node' \in [DOMAIN node' -> [value : Values, priority : Priorities, next : Nat]]
      <4>1. node' = [m \in DOMAIN node' |-> node'[m]]
        BY <3>1, <3>5
      <4>2. \A m \in DOMAIN node' : node'[m] \in [value : Values, priority : Priorities, next : Nat]
        BY <1>4, <3>5, <3>6, <3>8
      <4> QED
        BY <4>1, <4>2
    <3> QED
      BY <3>1, <3>2, <3>5, <3>7, <3>8, <3>9, <3>10
  <2> QED
    BY <2>1, <2>2
<1>7. ListInv'
  <2>1. \E k \in Nat : DOMAIN node' = 1 .. k
    BY <1>2, <1>6
  <2>2. \A a, b \in Walk(node', head') : node'[a].value = node'[b].value => a = b
    BY <1>1, <1>5, <1>6 DEF ListInv
  <2>3. Cardinality(W \cup {n}) = Cardinality(W) + 1
    BY <1>1, <1>2, FS_AddElement
  <2> QED
    BY <1>4, <1>5, <1>6, <2>1, <2>2, <2>3 DEF ListInv
<1>8. PQ!DQ!Enter(v, p, n)
  <2>1. Entries(node', W \cup {n}) = Entries(node, W) \cup {[value |-> v, priority |-> p, ticket |-> n]}
    BY <1>1, <1>6 DEF Entries, Entry
  <2>2. \A e \in Entries(node, W) : e.ticket < n
    BY <1>1, <1>2 DEF Entries, Entry
  <2> QED
    BY <1>5, <1>6, <2>1, <2>2, WhatWaits DEF PQ!DQ!Enter
<1> QED
  BY <1>3, <1>7, <1>8

LEMMA DequeueLeaves ==
  ASSUME ListInv, NEW min \in Priorities, PQ!DequeueWithPriority(min)
  PROVE  ListInv' /\ (PQ!DQ!Refuse \/ \E e \in PQ!Waiting : PQ!DQ!Leave(e))
<1> DEFINE W == Walk(node, head)
           x == node[head].next
<1>1. /\ Sound(node) /\ head \in DOMAIN node \cup {0} /\ InOrder(node, head)
      /\ \A a, b \in W : node[a].value = node[b].value => a = b
      /\ length = Cardinality(W) /\ IsFiniteSet(W) /\ Cardinality(W) \in Nat
      /\ W \subseteq DOMAIN node
  BY ListIsFinite DEF ListInv
<1>2. CASE head = 0 \/ node[head].priority < min
  <2>1. out' = "none" /\ node' = node /\ head' = head /\ length' = length
    BY <1>2 DEF PQ!DequeueWithPriority, PQ!Nil, PQ!NoValue
  <2>2. ListInv'
    BY <2>1 DEF ListInv
  <2>3. PQ!DQ!Refuse
    BY <2>1, WhatWaits DEF PQ!DQ!Refuse, PQ!DQ!NoValue
  <2> QED
    BY <2>2, <2>3
<1>3. CASE ~(head = 0 \/ node[head].priority < min)
  <2>1. /\ out' = node[head].value /\ node' = node /\ head' = x /\ length' = length - 1
        /\ head \in DOMAIN node
    BY <1>1, <1>3 DEF PQ!DequeueWithPriority, PQ!Nil
  <2>2. /\ W = {head} \cup Walk(node, x) /\ head \in W
    BY <1>1, <2>1, WalkGoesOn DEF Sound
  <2>3. x \in DOMAIN node \cup {0} /\ InOrder(node, x) /\ head \notin Walk(node, x)
    BY <1>1, <2>1, <2>2, NoWayBack DEF Sound, Linked
  <2>4. Walk(node, x) = W \ {head}
    BY <2>2, <2>3
  <2>5. ListInv'
    <3>1. Cardinality(W \ {head}) = Cardinality(W) - 1
      BY <1>1, <2>2, FS_RemoveElement
    <3>2. \A a, b \in Walk(node, x) : node[a].value = node[b].value => a = b
      BY <1>1, <2>4
    <3> QED
      BY <1>1, <2>1, <2>3, <2>4, <3>1, <3>2 DEF ListInv
  <2>6. PQ!DQ!Leave(Entry(node, head))
    <3>1. \A f \in Entries(node, W) \ {Entry(node, head)} : PQ!DQ!Before(Entry(node, head), f)
      <4>1. \A m \in W : m = head \/ Ahead(node, head, m)
        BY <1>1, <2>1, FirstIsAhead
      <4> QED
        BY <4>1 DEF Entries, Entry, Ahead, PQ!DQ!Before
    <3>2. Entries(node, W \ {head}) = Entries(node, W) \ {Entry(node, head)}
      BY <2>2 DEF Entries, Entry
    <3>3. Entry(node, head).value = node[head].value
      BY DEF Entry
    <3> QED
      BY <2>1, <2>4, <3>1, <3>2, <3>3, WhatWaits DEF PQ!DQ!Leave
  <2>7. Entry(node, head) \in PQ!Waiting
    BY <2>2, WhatWaits DEF Entries
  <2> QED
    BY <2>5, <2>6, <2>7
<1> QED
  BY <1>2, <1>3

LEMMA RemoveCancels ==
  ASSUME ListInv, NEW v \in Values, PQ!Remove(v)
  PROVE  ListInv' /\ PQ!DQ!Cancel(v)
<1> DEFINE W == Walk(node, head)
<1>1. /\ Sound(node) /\ head \in DOMAIN node \cup {0} /\ InOrder(node, head)
      /\ node \in [DOMAIN node -> [value : Values, priority : Priorities, next : Nat]]
      /\ \A a, b \in W : node[a].value = node[b].value => a = b
      /\ length = Cardinality(W) /\ IsFiniteSet(W) /\ Cardinality(W) \in Nat
      /\ W \subseteq DOMAIN node
  BY ListIsFinite DEF ListInv
<1>2. CASE v \notin PQ!Queued /\ UNCHANGED <<node, head, length, out>>
  <2>1. ListInv'
    BY <1>2 DEF ListInv
  <2>2. \A e \in Entries(node, W) : e.value # v
    BY <1>2, WhatWaits DEF Entries, Entry, PQ!Queued
  <2> QED
    BY <1>2, <2>1, <2>2, WhatWaits DEF PQ!DQ!Cancel
\* In the two other cases a node q of the value leaves the walk.
<1>3. ASSUME NEW q \in W, node[q].value = v, Walk(node', head') = W \ {q}, out' = out,
             \A m \in W \ {q} : /\ node'[m].value = node[m].value
                                /\ node'[m].priority = node[m].priority
      PROVE  PQ!DQ!Cancel(v) /\ Cardinality(Walk(node', head')) = Cardinality(W) - 1
             /\ \A a, b \in Walk(node', head') : node'[a].value = node'[b].value => a = b
  <2>1. Entries(node', W \ {q}) = {e \in Entries(node, W) : e.value # v}
    <3>1. \A m \in W \ {q} : Entry(node', m) = Entry(node, m) /\ Entry(node, m).value # v
      BY <1>1, <1>3 DEF Entry
    <3>2. Entry(node, q).value = v
      BY <1>3 DEF Entry
    <3> QED
      BY <3>1, <3>2 DEF Entries
  <2>2. PQ!DQ!Cancel(v)
    BY <1>3, <2>1, WhatWaits DEF PQ!DQ!Cancel
  <2>3. Cardinality(Walk(node', head')) = Cardinality(W) - 1
    <3> HIDE DEF W
    <3> QED
      BY <1>1, <1>3, FS_RemoveElement
  <2>4. \A a, b \in Walk(node', head') : node'[a].value = node'[b].value => a = b
    <3> HIDE DEF W
    <3> QED
      BY <1>1, <1>3
  <2> QED
    BY <2>2, <2>3, <2>4
<1>4. CASE /\ head # 0 /\ node[head].value = v
           /\ head' = node[head].next
           /\ length' = length - 1
           /\ UNCHANGED <<node, out>>
  <2> DEFINE x == node[head].next
  <2>1. head \in DOMAIN node /\ W = {head} \cup Walk(node, x) /\ head \in W
    BY <1>1, <1>4, WalkGoesOn DEF Sound
  <2>2. x \in DOMAIN node \cup {0} /\ InOrder(node, x) /\ head \notin Walk(node, x)
    BY <1>1, <2>1, NoWayBack DEF Sound, Linked
  <2>3. Walk(node', head') = W \ {head}
    BY <1>4, <2>1, <2>2
  <2>4. /\ PQ!DQ!Cancel(v) /\ Cardinality(Walk(node', head')) = Cardinality(W) - 1
        /\ \A a, b \in Walk(node', head') : node'[a].value = node'[b].value => a = b
    <3>1. node' = node /\ out' = out /\ head \in W /\ node[head].value = v
      BY <1>4, <2>1
    <3>2. \A m \in W \ {head} : /\ node'[m].value = node[m].value
                                /\ node'[m].priority = node[m].priority
      BY <3>1
    <3> HIDE DEF W
    <3> QED
      BY <1>3, <2>3, <3>1, <3>2
  <2>5. ListInv'
    BY <1>1, <1>4, <2>2, <2>4 DEF ListInv
  <2> QED
    BY <2>4, <2>5
<1>5. ASSUME NEW a \in W, node[a].next # 0, node[node[a].next].value = v,
             node' = [node EXCEPT ![a].next = node[node[a].next].next],
             length' = length - 1, UNCHANGED <<head, out>>
      PROVE  ListInv' /\ PQ!DQ!Cancel(v)
  <2> DEFINE q == node[a].next
  <2>1. a \in DOMAIN node /\ q \in DOMAIN node /\ head \in DOMAIN node /\ node[q].next \in Nat
    BY <1>1, <1>5, NoWalk DEF Sound, Linked
  <2> HIDE DEF q
  <2>2. /\ DOMAIN node' = DOMAIN node
        /\ \A m \in DOMAIN node : m # a => node'[m] = node[m]
        /\ node'[a] = [node[a] EXCEPT !.next = node[q].next]
    BY <1>5, <2>1 DEF q
  <2>3. /\ node'[a].next = node[q].next /\ node'[a].value = node[a].value
        /\ node'[a].priority = node[a].priority
        /\ node'[a] \in [value : Values, priority : Priorities, next : Nat]
    BY <1>1, <2>1, <2>2
  <2>4. \A m \in DOMAIN node : /\ node'[m].value = node[m].value
                               /\ node'[m].priority = node[m].priority
    BY <2>2, <2>3
  <2>5. /\ Sound(node') /\ InOrder(node', head) /\ q \in W
        /\ Walk(node', head) = W \ {q}
    <3>1. node[a].next = q
      BY DEF q
    <3> QED
      BY <1>1, <2>1, <2>2, <2>3, <2>4, <3>1, Without
  <2>6. /\ PQ!DQ!Cancel(v) /\ Cardinality(Walk(node', head')) = Cardinality(W) - 1
        /\ \A b, c \in Walk(node', head') : node'[b].value = node'[c].value => b = c
    <3>1. node[q].value = v /\ head' = head /\ out' = out
      BY <1>5 DEF q
    <3> QED
      BY <1>1, <1>3, <2>4, <2>5, <3>1
  <2>7. node' \in [DOMAIN node' -> [value : Values, priority : Priorities, next : Nat]]
    <3>1. node' = [m \in DOMAIN node' |-> node'[m]]
      BY <1>5
    <3>2. \A m \in DOMAIN node' : node'[m] \in [value : Values, priority : Priorities, next : Nat]
      BY <1>1, <2>2, <2>3
    <3> QED
      BY <3>1, <3>2
  <2>8. \E k \in Nat : DOMAIN node' = 1 .. k
    BY <2>2 DEF ListInv
  <2>9. ListInv'
    BY <1>1, <1>5, <2>1, <2>2, <2>5, <2>6, <2>7, <2>8 DEF ListInv
  <2> QED
    BY <2>6, <2>9
<1>6. CASE \E n \in PQ!Chain(head) :
             /\ node[n].next # PQ!Nil /\ node[node[n].next].value = v
             /\ node' = [node EXCEPT ![n].next = node[node[n].next].next]
             /\ length' = length - 1
             /\ UNCHANGED <<head, out>>
  BY <1>5, <1>6, WhatWaits DEF PQ!Nil
<1> QED
  BY <1>2, <1>4, <1>6 DEF PQ!Remove, PQ!Nil

LEMMA ListStep ==
  ASSUME ListInv, [PQ!Next]_PQ!vars
  PROVE  ListInv' /\ [PQ!DQ!Next]_PQ!DQ!vars
<1>1. CASE PQ!Next
  <2>1. ListInv' /\ (\/ PQ!DQ!Refuse
                     \/ PQ!DQ!Clear
                     \/ \E e \in PQ!Waiting : PQ!DQ!Leave(e)
                     \/ \E v \in Values : PQ!DQ!Cancel(v)
                     \/ \E v \in Values, p \in Priorities, n \in 1 .. MaxTickets :
                          PQ!DQ!Enter(v, p, n))
    <3>1. CASE \E v \in Values, p \in Priorities : PQ!Enqueue(v, p)
      BY <3>1, EnqueueEnters
    <3>2. CASE \E min \in Priorities : PQ!DequeueWithPriority(min)
      BY <3>2, DequeueLeaves
    <3>3. CASE \E v \in Values : PQ!Remove(v)
      BY <3>3, RemoveCancels
    <3>4. CASE PQ!Clear
      <4>1. head' = 0 /\ length' = 0 /\ node' = node /\ out' = out
        BY <3>4 DEF PQ!Clear, PQ!Nil
      <4>2. Walk(node', head') = {} /\ Cardinality({}) = 0
        BY <4>1, NoWalk, FS_EmptySet
      <4>3. ListInv'
        BY <4>1, <4>2 DEF ListInv, InOrder
      <4>4. PQ!DQ!Clear
        BY <4>1, <4>2, WhatWaits DEF PQ!DQ!Clear, Entries
      <4> QED
        BY <4>3, <4>4
    <3> QED
      BY <1>1, <3>1, <3>2, <3>3, <3>4 DEF PQ!Next
  <2> QED
    BY <2>1, SizeIsRight DEF PQ!DQ!Next
<1>2. CASE UNCHANGED PQ!vars
  <2>1. node' = node /\ head' = head /\ length' = length /\ out' = out
    BY <1>2 DEF PQ!vars
  <2>2. ListInv'
    BY <2>1 DEF ListInv
  <2> QED
    BY <2>1, <2>2, WhatWaits DEF PQ!DQ!vars
<1> QED
  BY <1>1, <1>2

\* The linked list of pq.go gives its jobs in the order of a delay queue and counts them: for any
\* values and priorities, insertions and removals in any order.
THEOREM ListIsADelayQueue == PQ!Spec => ImplementsDelayQueue
<1>1. PQ!Init => ListInv /\ PQ!DQ!Init
  BY ListBegins
<1>2. ListInv /\ [PQ!Next]_PQ!vars => ListInv' /\ [PQ!DQ!Next]_PQ!DQ!vars
  BY ListStep
<1> QED
  BY <1>1, <1>2, PTL DEF PQ!Spec, ImplementsDelayQueue, PQ!ImplementsDelayQueue, PQ!DQ!Spec
=============================================================================
