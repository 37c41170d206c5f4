--------------------------- MODULE SchedulerProofs ---------------------------
(* Theorems about Scheduler, for every value of its constants: its          *)
(* invariants, then its refinement of JobQueue.                             *)
EXTENDS SchedulerRefinement, FiniteSetTheorems, TLAPS

JobLock == JobIds \cup {NoJob}

LEMMA ConstantFacts ==
  /\ MaxJobId \in Nat
  /\ NoJob \notin JobIds
  /\ \A j \in JobIds : j \in Nat
BY SchedulerAssumption DEF JobIds, NoJob

Events == {"DELAY", "PENDING", "ENQUEUE", "START", "FAIL", "SUCCESS", "HIDE",
           "CANCEL", "TERMINATE"}

LEMMA JobUpdate ==
  ASSUME NEW rec \in Job, NEW s \in JobStates, NEW n \in Nat
  PROVE  [rec EXCEPT !.state = s, !.age = 0, !.vis = 0, !.fails = n] \in Job
BY DEF Job

\* An event keeps a job record well formed and decides its state.
LEMMA EventRecord ==
  ASSUME NEW rec \in Job, NEW e \in Events
  PROVE  /\ Event(rec, e) \in Job
         /\ Event(rec, e).state = StateFromEvent(e)
         /\ Event(rec, e).res = rec.res
         /\ Event(rec, e).prio = rec.prio
         /\ Event(rec, e).timer = rec.timer
         /\ e # "FAIL" => Event(rec, e).fails = rec.fails
         /\ e = "FAIL" => Event(rec, e).fails = rec.fails + 1
<1>1. StateFromEvent(e) \in JobStates
  BY DEF StateFromEvent, Events, JobStates
<1>2. rec.fails \in Nat
  BY DEF Job
<1> DEFINE n == IF e = "FAIL" THEN rec.fails + 1 ELSE rec.fails
<1>3. n \in Nat
  BY <1>2
<1>4. Event(rec, e) = [rec EXCEPT !.state = StateFromEvent(e), !.age = 0,
                                  !.vis = 0, !.fails = n]
  BY DEF Event
<1> HIDE DEF n
<1>5. Event(rec, e) \in Job
  <2>1. PICK s \in JobStates : s = StateFromEvent(e)
    BY <1>1
  <2>2. [rec EXCEPT !.state = s, !.age = 0, !.vis = 0, !.fails = n] \in Job
    BY <1>3, JobUpdate
  <2> QED
    BY <1>4, <2>1, <2>2
<1>6. e # "FAIL" => n = rec.fails
  BY DEF n
<1>7. e = "FAIL" => n = rec.fails + 1
  BY DEF n
<1>8. /\ Event(rec, e).state = StateFromEvent(e)
      /\ Event(rec, e).res = rec.res
      /\ Event(rec, e).prio = rec.prio
      /\ Event(rec, e).timer = rec.timer
      /\ Event(rec, e).fails = n
  BY <1>4 DEF Job
<1> QED
  BY <1>5, <1>6, <1>7, <1>8

LEMMA StateOf ==
  /\ StateFromEvent("DELAY") = "Delayed" /\ StateFromEvent("PENDING") = "Pending"
  /\ StateFromEvent("ENQUEUE") = "Queued" /\ StateFromEvent("START") = "Running"
  /\ StateFromEvent("FAIL") = "Running" /\ StateFromEvent("SUCCESS") = "Succeeded"
  /\ StateFromEvent("HIDE") = "Hidden" /\ StateFromEvent("CANCEL") = "Canceled"
  /\ StateFromEvent("TERMINATE") = "Failed"
BY DEF StateFromEvent

LEMMA AbsentRecord ==
  /\ Absent \in Job /\ Absent.state = "NoState" /\ Absent.res = {}
BY DEF Absent, Job, JobStates

LEMMA NewJobRecord ==
  /\ \A rq \in Requests : NewJob(rq) \in Job /\ rq.delay \in Nat
  /\ \A rec \in Job : NewJob(rec) \in Job
BY SchedulerAssumption DEF NewJob, Job, JobStates

-----------------------------------------------------------------------------
(* The parts of the inductive invariant, as predicates of the values that   *)
(* an operation hands to TryEnqueue.                                        *)

LocksOwned(lk, jb) ==
  \A r \in Resources : lk[r] # NoJob => lk[r] \in Active(jb) /\ r \in jb[lk[r]].res

HoldsAll(lk, jb, ex) ==
  \A j \in Active(jb) : \A r \in jb[j].res : lk[r] = j \/ <<j, r>> \in ex

Blocked(lk, jb, pend) == \A j \in pend : ~Available(lk, jb, j)

PendingAreDue(jb) == \A j \in JobIds : jb[j].state = "Pending" => jb[j].timer = 0

\* What TryEnqueue may do to a job: nothing, or queue it if it is pending.
Promoted(before, after) ==
  \/ after = before
  \/ /\ before.state = "Pending" /\ after.state = "Queued"
     /\ after.res = before.res /\ after.fails = before.fails

\* A pending job k that is served while j, ahead of it, is not: some job but k has a
\* resource of j.
InTurn(jb, pend) ==
  \A j, k \in pend :
    Precedes(jb, j, k) /\ job'[k].state = "Queued" /\ job'[j].state = "Pending"
      => \E r \in jb[j].res : lock'[r] \notin {NoJob, j, k}

\* TryEnqueue turns a consistent table into a consistent one in which every pending
\* job is blocked.
LEMMA TryEnqueueKeeps ==
  ASSUME NEW jb \in [JobIds -> Job], NEW q, NEW pend,
         NEW lk \in [Resources -> JobLock], NEW ex,
         pend = InState(jb, "Pending"), q = InState(jb, "Queued"),
         PendingAreDue(jb), LocksOwned(lk, jb), HoldsAll(lk, jb, ex),
         TryEnqueue(jb, q, pend, lk)
  PROVE  /\ job' \in [JobIds -> Job]
         /\ lock' \in [Resources -> JobLock]
         /\ pending' = InState(job', "Pending")
         /\ queued' = InState(job', "Queued")
         /\ PendingAreDue(job')
         /\ LocksOwned(lock', job')
         /\ HoldsAll(lock', job', ex)
         /\ Blocked(lock', job', pending')
         /\ \A j \in JobIds : Promoted(jb[j], job'[j])
         /\ InTurn(jb, pend)
<1>1. PICK S \in SUBSET pend :
        /\ Admitted(S, pend, lk, jb)
        /\ job' = [j \in JobIds |-> IF j \in S THEN Event(jb[j], "ENQUEUE") ELSE jb[j]]
        /\ queued' = q \cup S
        /\ pending' = pend \ S
        /\ lock' = LockAll(lk, jb, S)
  BY DEF TryEnqueue
<1>2. \A j \in S : j \in JobIds /\ jb[j] \in Job /\ jb[j].state = "Pending"
  BY <1>1 DEF InState
<1>3. \A j \in S : /\ job'[j] \in Job /\ job'[j].state = "Queued"
                   /\ job'[j].res = jb[j].res /\ job'[j].fails = jb[j].fails
                   /\ job'[j].timer = jb[j].timer
  <2> SUFFICES ASSUME NEW j \in S
               PROVE  /\ job'[j] \in Job /\ job'[j].state = "Queued"
                      /\ job'[j].res = jb[j].res /\ job'[j].fails = jb[j].fails
                      /\ job'[j].timer = jb[j].timer
    OBVIOUS
  <2>1. job'[j] = Event(jb[j], "ENQUEUE")
    BY <1>1, <1>2
  <2>2. "ENQUEUE" \in Events /\ "ENQUEUE" # "FAIL"
    BY DEF Events
  <2> QED
    BY <1>2, <2>1, <2>2, EventRecord, StateOf
<1>4. \A j \in JobIds \ S : job'[j] = jb[j]
  BY <1>1
<1>5. job' \in [JobIds -> Job]
  BY <1>1, <1>3, <1>4
<1>6. \A i, k \in S : i # k => ~Conflict(jb, i, k)
  <2> SUFFICES ASSUME NEW i \in S, NEW k \in S, i # k
               PROVE  ~Conflict(jb, i, k)
    OBVIOUS
  <2>1. i \in Nat /\ k \in Nat /\ jb[i].prio \in Int /\ jb[k].prio \in Int
    BY <1>2, ConstantFacts DEF Job
  <2>2. Precedes(jb, i, k) \/ Precedes(jb, k, i)
    BY <2>1 DEF Precedes
  <2>3. /\ Precedes(jb, i, k) => ~Conflict(jb, i, k)
        /\ Precedes(jb, k, i) => ~Conflict(jb, k, i)
    BY <1>1 DEF Admitted
  <2> QED
    BY <2>2, <2>3 DEF Conflict
<1>7. \A j \in S : \A r \in jb[j].res : r \in Resources /\ lock'[r] = j /\ lk[r] \in {NoJob, j}
  <2> SUFFICES ASSUME NEW j \in S, NEW r \in jb[j].res
               PROVE  r \in Resources /\ lock'[r] = j /\ lk[r] \in {NoJob, j}
    OBVIOUS
  <2>1. r \in Resources
    BY <1>2 DEF Job
  <2>2. \A i \in S : r \in jb[i].res => i = j
    BY <1>6 DEF Conflict
  <2>3. lock'[r] = CHOOSE i \in S : r \in jb[i].res
    BY <1>1, <2>1 DEF LockAll
  <2>4. Available(lk, jb, j)
    BY <1>1 DEF Admitted
  <2> QED
    BY <2>1, <2>2, <2>3, <2>4 DEF Available
<1>8. \A r \in Resources : (\A j \in S : r \notin jb[j].res) => lock'[r] = lk[r]
  BY <1>1 DEF LockAll
<1>9. lock' \in [Resources -> JobLock]
  <2>1. \A r \in Resources : lock'[r] \in JobLock
    BY <1>2, <1>7, <1>8 DEF JobLock
  <2> QED
    BY <1>1, <2>1 DEF LockAll
<1>10. pending' = InState(job', "Pending") /\ queued' = InState(job', "Queued")
  BY <1>1, <1>2, <1>3, <1>4 DEF InState
<1>11. PendingAreDue(job')
  BY <1>2, <1>3, <1>4 DEF PendingAreDue
<1>12. LocksOwned(lock', job')
  <2> SUFFICES ASSUME NEW r \in Resources, lock'[r] # NoJob
               PROVE  lock'[r] \in Active(job') /\ r \in job'[lock'[r]].res
    BY DEF LocksOwned
  <2>1. CASE \E j \in S : r \in jb[j].res
    <3>1. PICK j \in S : r \in jb[j].res
      BY <2>1
    <3> QED
      BY <3>1, <1>2, <1>3, <1>7 DEF Active
  <2>2. CASE \A j \in S : r \notin jb[j].res
    <3>1. lock'[r] = lk[r] /\ lk[r] \in Active(jb) /\ r \in jb[lk[r]].res
      BY <2>2, <1>8 DEF LocksOwned
    <3>2. lk[r] \notin S
      BY <3>1, <1>2 DEF Active
    <3> QED
      BY <3>1, <3>2, <1>4 DEF Active
  <2> QED
    BY <2>1, <2>2
<1>13. HoldsAll(lock', job', ex)
  <2> SUFFICES ASSUME NEW j \in Active(job'), NEW r \in job'[j].res
               PROVE  lock'[r] = j \/ <<j, r>> \in ex
    BY DEF HoldsAll
  <2>1. CASE j \in S
    BY <2>1, <1>3, <1>7
  <2>2. CASE j \notin S
    <3>1. j \in Active(jb) /\ job'[j] = jb[j] /\ jb[j] \in Job
      BY <2>2, <1>4 DEF Active
    <3>2. r \in Resources /\ (lk[r] = j \/ <<j, r>> \in ex)
      BY <3>1 DEF HoldsAll, Job
    <3>3. CASE lk[r] = j
      <4>1. j # NoJob
        BY <3>1, ConstantFacts DEF Active
      <4>2. \A i \in S : r \notin jb[i].res
        BY <3>3, <4>1, <2>2, <1>7
      <4> QED
        BY <3>2, <3>3, <4>2, <1>8
    <3> QED
      BY <3>2, <3>3
  <2> QED
    BY <2>1, <2>2
<1>14. Blocked(lock', job', pending')
  <2> SUFFICES ASSUME NEW j \in pending'
               PROVE  ~Available(lock', job', j)
    BY DEF Blocked
  <2>1. j \in pend /\ j \notin S /\ job'[j] = jb[j] /\ jb[j].timer = 0 /\ jb[j] \in Job
    BY <1>1, <1>4 DEF InState, PendingAreDue
  <2>2. ~Available(lk, jb, j) \/ \E k \in S : Conflict(jb, k, j)
    BY <2>1, <1>1 DEF Admitted
  <2>3. CASE \E k \in S : Conflict(jb, k, j)
    <3>1. PICK k \in S : Conflict(jb, k, j)
      BY <2>3
    <3>2. PICK r \in jb[k].res : r \in jb[j].res
      BY <3>1 DEF Conflict
    <3>3. lock'[r] = k /\ k # j /\ k # NoJob
      BY <3>2, <2>1, <1>2, <1>7, ConstantFacts
    <3> QED
      BY <3>2, <3>3, <2>1 DEF Available
  <2>4. CASE ~Available(lk, jb, j)
    <3>1. PICK r \in jb[j].res : lk[r] \notin {NoJob, j}
      BY <2>4 DEF Available
    <3>2. \A k \in S : r \notin jb[k].res \/ lk[r] = k
      BY <3>1, <1>7
    <3>3. r \in Resources /\ lk[r] \in Active(jb)
      BY <3>1, <2>1 DEF Job, LocksOwned
    <3>4. lk[r] \notin S
      BY <3>3, <1>2 DEF Active
    <3>5. lock'[r] = lk[r]
      BY <3>2, <3>3, <3>4, <1>8
    <3> QED
      BY <3>1, <3>5, <2>1 DEF Available
  <2> QED
    BY <2>2, <2>3, <2>4
<1>15. \A j \in JobIds : Promoted(jb[j], job'[j])
  BY <1>2, <1>3, <1>4 DEF Promoted
<1>16. InTurn(jb, pend)
  <2> SUFFICES ASSUME NEW j \in pend, NEW k \in pend, Precedes(jb, j, k),
                      job'[k].state = "Queued", job'[j].state = "Pending"
               PROVE  \E r \in jb[j].res : lock'[r] \notin {NoJob, j, k}
    BY DEF InTurn
  <2>1. j \in JobIds /\ k \in JobIds /\ jb[j].timer = 0 /\ jb[k].state = "Pending"
    BY DEF InState, PendingAreDue
  <2>2. j \notin S /\ k \in S
    BY <2>1, <1>3, <1>4
  <2>3. \/ ~Available(lk, jb, j)
        \/ \E i \in S : Precedes(jb, i, j) /\ Conflict(jb, i, j)
    BY <2>1, <2>2, <1>1 DEF Admitted
  <2>4. ASSUME NEW i \in S, Precedes(jb, i, j), Conflict(jb, i, j)
        PROVE  \E r \in jb[j].res : lock'[r] \notin {NoJob, j, k}
    <3>1. PICK r \in jb[i].res : r \in jb[j].res
      BY <2>4 DEF Conflict
    <3>2. lock'[r] = i /\ i # NoJob /\ i # j
      BY <3>1, <2>2, <1>2, <1>7, ConstantFacts
    <3>3. /\ i \in Nat /\ j \in Nat /\ k \in Nat
          /\ jb[i].prio \in Int /\ jb[j].prio \in Int /\ jb[k].prio \in Int
      BY <2>1, <1>2, ConstantFacts DEF Job
    <3>4. i # k
      BY <3>3, <2>4 DEF Precedes
    <3> QED
      BY <3>1, <3>2, <3>4
  <2>5. CASE ~Available(lk, jb, j)
    <3>1. PICK r \in jb[j].res : lk[r] \notin {NoJob, j}
      BY <2>5 DEF Available
    <3>2. r \in Resources /\ lk[r] \in Active(jb)
      BY <3>1, <2>1 DEF Job, LocksOwned
    <3>3. lk[r] \notin S
      BY <3>2, <1>2 DEF Active
    <3>4. lock'[r] = lk[r]
      BY <3>1, <3>2, <3>3, <1>7, <1>8
    <3> QED
      BY <3>1, <3>3, <3>4, <2>2
  <2> QED
    BY <2>3, <2>4, <2>5
<1> QED
  BY <1>5, <1>9, <1>10, <1>11, <1>12, <1>13, <1>14, <1>15, <1>16

-----------------------------------------------------------------------------
(* What every operation keeps.  Blocked makes it inductive that an operation *)
(* that frees nothing (a pull, a retry) may leave the pending jobs alone.    *)

Core ==
  /\ job \in [JobIds -> Job]
  /\ lock \in [Resources -> JobLock]
  /\ stripped \subseteq JobIds \X Resources
  /\ OneContainer
  /\ PendingAreDue(job)
  /\ LocksOwned(lock, job)
  /\ HoldsAll(lock, job, stripped)
  /\ Blocked(lock, job, pending)

\* The body of NoOvertaking.
Orderly ==
  \A j, k \in pending :
    /\ Precedes(job, j, k) /\ Conflict(job, j, k)
    /\ job'[k].state = "Queued" /\ job'[j].state = "Pending"
    => \E r \in job[j].res : lock'[r] \notin {NoJob, j, k}

\* A step that serves no pending job.
LEMMA QuietIsOrderly ==
  ASSUME \A k \in pending : job'[k].state # "Queued"
  PROVE  Orderly
BY DEF Orderly

\* An operation that ends with TryEnqueue; jb is the table it hands over.
LEMMA Settled ==
  ASSUME Core, NEW jb \in [JobIds -> Job], NEW q, NEW pend,
         NEW lk \in [Resources -> JobLock],
         pend = InState(jb, "Pending"), q = InState(jb, "Queued"),
         PendingAreDue(jb), LocksOwned(lk, jb), HoldsAll(lk, jb, stripped'),
         stripped' \subseteq JobIds \X Resources,
         retry' = InState(jb, "Hidden"), delayed' = InState(jb, "Delayed"),
         TryEnqueue(jb, q, pend, lk)
  PROVE  /\ Core' /\ \A j \in JobIds : Promoted(jb[j], job'[j])
         /\ (\A i \in pending : jb[i] = job[i] \/ jb[i].state = "NoState") => Orderly
<1> DEFINE ex == stripped'
<1> HIDE DEF ex
<1>1. HoldsAll(lk, jb, ex)
  BY DEF ex
<1>2. /\ job' \in [JobIds -> Job]
      /\ lock' \in [Resources -> JobLock]
      /\ pending' = InState(job', "Pending")
      /\ queued' = InState(job', "Queued")
      /\ PendingAreDue(job')
      /\ LocksOwned(lock', job')
      /\ HoldsAll(lock', job', ex)
      /\ Blocked(lock', job', pending')
      /\ \A j \in JobIds : Promoted(jb[j], job'[j])
      /\ InTurn(jb, pend)
  BY <1>1, TryEnqueueKeeps
<1>3. retry' = InState(job', "Hidden") /\ delayed' = InState(job', "Delayed")
  BY <1>2 DEF InState, Promoted
<1>4. Core'
  BY <1>2, <1>3 DEF Core, OneContainer, ex
<1>5. ASSUME \A i \in pending : jb[i] = job[i] \/ jb[i].state = "NoState"
      PROVE  Orderly
  <2> SUFFICES ASSUME NEW j \in pending, NEW k \in pending, Precedes(job, j, k),
                      job'[k].state = "Queued", job'[j].state = "Pending"
               PROVE  \E r \in job[j].res : lock'[r] \notin {NoJob, j, k}
    BY DEF Orderly
  <2>1. /\ j \in JobIds /\ job[j].state = "Pending"
        /\ k \in JobIds /\ job[k].state = "Pending"
    BY DEF Core, OneContainer, InState
  <2>2. jb[j] = job[j] /\ jb[k] = job[k]
    BY <2>1, <1>2, <1>5 DEF Promoted
  <2>3. j \in pend /\ k \in pend /\ Precedes(jb, j, k)
    BY <2>1, <2>2 DEF InState, Precedes
  <2> QED
    BY <2>2, <2>3, <1>2 DEF InTurn
<1> QED
  BY <1>2, <1>4, <1>5

\* The job table after job j became rec.
Changed(j, rec) == [job EXCEPT ![j] = rec]

LEMMA ChangedTable ==
  ASSUME Core, NEW j \in JobIds, NEW rec \in Job,
         rec.state = "Pending" => rec.timer = 0
  PROVE  /\ Changed(j, rec) \in [JobIds -> Job]
         /\ Changed(j, rec)[j] = rec
         /\ \A i \in JobIds : i # j => Changed(j, rec)[i] = job[i]
         /\ PendingAreDue(Changed(j, rec))
         /\ \A s : rec.state = s => InState(Changed(j, rec), s) = InState(job, s) \cup {j}
         /\ \A s : rec.state # s => InState(Changed(j, rec), s) = InState(job, s) \ {j}
BY DEF Core, Changed, PendingAreDue, InState

\* A job that gives back its resources and is not active any more.
LEMMA Released ==
  ASSUME Core, NEW j \in JobIds, NEW rec \in Job,
         rec.state = "Pending" => rec.timer = 0,
         rec.state \notin {"Queued", "Running"},
         NEW ex, NotStripped(j) \subseteq ex
  PROVE  /\ UnlockResources(lock, job, j) \in [Resources -> JobLock]
         /\ LocksOwned(UnlockResources(lock, job, j), Changed(j, rec))
         /\ HoldsAll(UnlockResources(lock, job, j), Changed(j, rec), ex)
<1> DEFINE lk == UnlockResources(lock, job, j)
           jb == Changed(j, rec)
<1>1. \A i \in JobIds : i # j => jb[i] = job[i]
  BY ChangedTable
<1>2. jb[j] = rec
  BY ChangedTable
<1>3. Active(jb) = Active(job) \ {j}
  BY <1>1, <1>2 DEF Active
<1>4. lk \in [Resources -> JobLock]
  BY DEF UnlockResources, Core, JobLock
<1>5. \A r \in Resources : lk[r] \in {lock[r], NoJob} /\ (lock[r] # j => lk[r] = lock[r])
  BY DEF UnlockResources
<1>6. \A r \in Resources : lk[r] # j
  <2> SUFFICES ASSUME NEW r \in Resources, lk[r] = j
               PROVE  FALSE
    OBVIOUS
  <2>1. j # NoJob
    BY ConstantFacts
  <2>2. lock[r] = j /\ r \in job[j].res
    BY <2>1, <1>5 DEF Core, LocksOwned
  <2> QED
    BY <2>1, <2>2 DEF UnlockResources
<1>7. LocksOwned(lk, jb)
  <2> SUFFICES ASSUME NEW r \in Resources, lk[r] # NoJob
               PROVE  lk[r] \in Active(jb) /\ r \in jb[lk[r]].res
    BY DEF LocksOwned
  <2>1. lk[r] = lock[r] /\ lock[r] # j
    BY <1>5, <1>6
  <2>2. lock[r] \in Active(job) /\ r \in job[lock[r]].res
    BY <2>1 DEF Core, LocksOwned
  <2> QED
    BY <2>1, <2>2, <1>1, <1>3 DEF Active
<1>8. HoldsAll(lk, jb, ex)
  <2> SUFFICES ASSUME NEW i \in Active(jb), NEW r \in jb[i].res
               PROVE  lk[r] = i \/ <<i, r>> \in ex
    BY DEF HoldsAll
  <2>1. i \in Active(job) /\ i # j /\ jb[i] = job[i] /\ job[i] \in Job
    BY <1>1, <1>3 DEF Active, Core
  <2>2. r \in Resources /\ (lock[r] = i \/ <<i, r>> \in stripped)
    BY <2>1 DEF Core, HoldsAll, Job
  <2>3. <<i, r>> \in stripped => <<i, r>> \in ex
    BY <2>1 DEF NotStripped
  <2> QED
    BY <2>1, <2>2, <2>3, <1>5
<1> QED
  BY <1>4, <1>7, <1>8

\* A step in which the jobs but j change only by being served.
OthersPromoted(j) == \A i \in JobIds \ {j} : Promoted(job[i], job'[i])

\* Job j leaves its container and its locks (success, termination, hiding, deletion).
LEMMA ReleaseStep ==
  ASSUME Core, NEW j \in JobIds, NEW rec \in Job,
         rec.state \notin {"Queued", "Running", "Pending", "Delayed"},
         job[j].state = "Pending" => rec.state = "NoState",
         stripped' = NotStripped(j),
         retry' = IF rec.state = "Hidden" THEN retry \cup {j} ELSE retry \ {j},
         delayed' = delayed \ {j},
         TryEnqueue(Changed(j, rec), queued \ {j}, pending \ {j},
                    UnlockResources(lock, job, j))
  PROVE  Core' /\ Orderly /\ OthersPromoted(j) /\ job'[j] = rec
<1> DEFINE jb == Changed(j, rec)
           lk == UnlockResources(lock, job, j)
<1>1. /\ jb \in [JobIds -> Job] /\ jb[j] = rec
      /\ \A i \in JobIds : i # j => jb[i] = job[i]
      /\ PendingAreDue(jb)
  BY ChangedTable
<1>2. /\ pending \ {j} = InState(jb, "Pending")
      /\ queued \ {j} = InState(jb, "Queued")
      /\ delayed' = InState(jb, "Delayed")
      /\ retry' = InState(jb, "Hidden")
  <2>1. /\ InState(jb, "Pending") = InState(job, "Pending") \ {j}
        /\ InState(jb, "Queued") = InState(job, "Queued") \ {j}
        /\ InState(jb, "Delayed") = InState(job, "Delayed") \ {j}
    BY ChangedTable
  <2>2. /\ rec.state = "Hidden" => InState(jb, "Hidden") = InState(job, "Hidden") \cup {j}
        /\ rec.state # "Hidden" => InState(jb, "Hidden") = InState(job, "Hidden") \ {j}
    BY ChangedTable
  <2> QED
    BY <2>1, <2>2 DEF Core, OneContainer
<1>3. stripped' \subseteq JobIds \X Resources
  BY DEF Core, NotStripped
<1> DEFINE ex == stripped'
<1>4. NotStripped(j) \subseteq ex
  OBVIOUS
<1> HIDE DEF ex
<1>5. /\ lk \in [Resources -> JobLock]
      /\ LocksOwned(lk, jb)
      /\ HoldsAll(lk, jb, ex)
  BY <1>4, Released
<1>6. HoldsAll(lk, jb, stripped')
  BY <1>5 DEF ex
<1> HIDE DEF jb, lk
<1>7. TryEnqueue(jb, queued \ {j}, pending \ {j}, lk)
  BY DEF jb, lk
<1>8. /\ Core' /\ \A i \in JobIds : Promoted(jb[i], job'[i])
      /\ (\A i \in pending : jb[i] = job[i] \/ jb[i].state = "NoState") => Orderly
  BY <1>1, <1>2, <1>3, <1>5, <1>6, <1>7, Settled
<1>9. \A i \in pending : i \in JobIds /\ job[i].state = "Pending"
  BY DEF Core, OneContainer, InState
<1>10. Orderly
  BY <1>1, <1>8, <1>9
<1> QED
  BY <1>1, <1>8, <1>10 DEF Promoted, OthersPromoted

\* The jobs of S are queued again with their resources (retries).
LEMMA Requeued ==
  ASSUME Core, NEW S \in SUBSET JobIds, NEW jb \in [JobIds -> Job],
         \A j \in S : /\ jb[j].state = "Queued" /\ jb[j].res = job[j].res
                      /\ job[j].state # "Pending" /\ Available(lock, job, j),
         \A j \in JobIds \ S : jb[j] = job[j],
         \A j, k \in S : j # k => ~Conflict(job, j, k),
         NEW lk, lk = LockAll(lock, job, S),
         NEW ex, ex = {p \in stripped : p[1] \notin S}
  PROVE  /\ lk \in [Resources -> JobLock]
         /\ LocksOwned(lk, jb)
         /\ HoldsAll(lk, jb, ex)
         /\ Blocked(lk, jb, pending)
         /\ PendingAreDue(jb)
<1>1. \A j \in S : \A r \in job[j].res : r \in Resources /\ lk[r] = j /\ lock[r] \in {NoJob, j}
  <2> SUFFICES ASSUME NEW j \in S, NEW r \in job[j].res
               PROVE  r \in Resources /\ lk[r] = j /\ lock[r] \in {NoJob, j}
    OBVIOUS
  <2>1. r \in Resources
    BY DEF Core, Job
  <2>2. \A i \in S : r \in job[i].res => i = j
    BY DEF Conflict
  <2>3. lk[r] = CHOOSE i \in S : r \in job[i].res
    BY <2>1 DEF LockAll
  <2> QED
    BY <2>1, <2>2, <2>3 DEF Available
<1>2. \A r \in Resources : (\A j \in S : r \notin job[j].res) => lk[r] = lock[r]
  BY DEF LockAll
<1>3. lk \in [Resources -> JobLock]
  <2>1. \A r \in Resources : lk[r] \in JobLock
    BY <1>1, <1>2 DEF JobLock, Core
  <2> QED
    BY <2>1 DEF LockAll
<1>4. LocksOwned(lk, jb)
  <2> SUFFICES ASSUME NEW r \in Resources, lk[r] # NoJob
               PROVE  lk[r] \in Active(jb) /\ r \in jb[lk[r]].res
    BY DEF LocksOwned
  <2>1. CASE \E j \in S : r \in job[j].res
    BY <2>1, <1>1 DEF Active
  <2>2. CASE \A j \in S : r \notin job[j].res
    <3>1. lk[r] = lock[r] /\ lock[r] \in Active(job) /\ r \in job[lock[r]].res
      BY <2>2, <1>2 DEF LocksOwned, Core
    <3> QED
      BY <3>1 DEF Active
  <2> QED
    BY <2>1, <2>2
<1>5. HoldsAll(lk, jb, ex)
  <2> SUFFICES ASSUME NEW j \in Active(jb), NEW r \in jb[j].res
               PROVE  lk[r] = j \/ <<j, r>> \in ex
    BY DEF HoldsAll
  <2>1. CASE j \in S
    BY <2>1, <1>1
  <2>2. CASE j \notin S
    <3>1. j \in Active(job) /\ jb[j] = job[j] /\ job[j] \in Job
      BY <2>2 DEF Active, Core
    <3>2. r \in Resources /\ (lock[r] = j \/ <<j, r>> \in stripped)
      BY <3>1 DEF HoldsAll, Job, Core
    <3>3. <<j, r>> \in stripped => <<j, r>> \in ex
      BY <2>2
    <3>4. CASE lock[r] = j
      <4>1. j # NoJob
        BY <3>1, ConstantFacts DEF Active
      <4>2. \A i \in S : r \notin job[i].res
        BY <3>4, <4>1, <2>2, <1>1
      <4> QED
        BY <3>2, <3>4, <4>2, <1>2
    <3> QED
      BY <3>2, <3>3, <3>4
  <2> QED
    BY <2>1, <2>2
<1>6. Blocked(lk, jb, pending)
  <2> SUFFICES ASSUME NEW j \in pending
               PROVE  ~Available(lk, jb, j)
    BY DEF Blocked
  <2>1. j \in JobIds /\ j \notin S /\ jb[j] = job[j] /\ job[j] \in Job
    BY DEF Core, OneContainer, InState
  <2>2. PICK r \in job[j].res : lock[r] \notin {NoJob, j}
    BY DEF Core, Blocked, Available
  <2>3. r \in Resources
    BY <2>1, <2>2 DEF Job
  <2>4. CASE \E k \in S : r \in job[k].res
    <3>1. PICK k \in S : r \in job[k].res
      BY <2>4
    <3>2. lk[r] = k /\ k # j /\ k # NoJob
      BY <3>1, <2>1, <1>1, ConstantFacts
    <3> QED
      BY <3>2, <2>1, <2>2 DEF Available
  <2>5. CASE \A k \in S : r \notin job[k].res
    BY <2>5, <2>1, <2>2, <2>3, <1>2 DEF Available
  <2> QED
    BY <2>4, <2>5
<1>7. PendingAreDue(jb)
  BY DEF Core, PendingAreDue
<1> QED
  BY <1>3, <1>4, <1>5, <1>6, <1>7

-----------------------------------------------------------------------------
(* The operations, one lemma each.                                          *)

\* What a step does to the jobs, seen from outside.  Job j, which was running, is
\* finished, queued again or hidden, with one failure more or not, ...
Ends(j) ==
  /\ job[j].state = "Running" /\ job'[j].res = job[j].res
  /\ \/ /\ job'[j].state \in {"Succeeded", "Queued"}
        /\ job'[j].fails = job[j].fails
     \/ /\ job'[j].state = "Failed"
        /\ job'[j].fails = job[j].fails + 1 /\ job'[j].fails >= MaxRetry
     \/ /\ job'[j].state \in {"Queued", "Hidden"}
        /\ job'[j].fails = job[j].fails + 1 /\ job'[j].fails < MaxRetry
  /\ OthersPromoted(j)
  /\ \/ stripped' = NotStripped(j)
     \/ stripped' = stripped /\ job'[j].state = "Queued"

\* ... the jobs of S are deleted, ...
Removes(S) ==
  /\ \A i \in S : job'[i] = Absent
  /\ \A i \in JobIds \ S : Promoted(job[i], job'[i])
  /\ stripped' = {p \in stripped : p[1] \notin S}

\* ... the jobs of S, which were queued, start, ...
Starts(S) ==
  /\ \A i \in S : /\ job[i].state = "Queued" /\ job'[i].state = "Running"
                  /\ job'[i].res = job[i].res /\ job'[i].fails = job[i].fails
  /\ \A i \in JobIds \ S : job'[i] = job[i]
  /\ stripped' = stripped

\* ... or some jobs that wait are made pending or queued.
Waiting == {"Delayed", "Pending", "Hidden"}

Offers ==
  /\ \A i \in JobIds :
       /\ job'[i].res = job[i].res /\ job'[i].fails = job[i].fails
       /\ \/ job'[i].state = job[i].state
          \/ job[i].state \in Waiting /\ job'[i].state \in Waiting \cup {"Queued"}
  /\ \A p \in stripped' \ stripped : p[1] \in Active(job) /\ p[2] \in job[p[1]].res

Kind ==
  \/ \E j \in JobIds : Ends(j)
  \/ \E S \in SUBSET JobIds : Removes(S) \/ Starts(S)
  \/ Offers

LEMMA RunningIsElsewhere ==
  ASSUME Core, NEW j \in JobIds, job[j].state = "Running"
  PROVE  /\ j \notin pending /\ j \notin queued /\ j \notin retry /\ j \notin delayed
         /\ pending \ {j} = pending /\ queued \ {j} = queued
         /\ retry \ {j} = retry /\ delayed \ {j} = delayed
BY DEF Core, OneContainer, InState

LEMMA SuccessKeeps ==
  ASSUME Core, NEW j \in JobIds, SetJobAsSuccessful(j)
  PROVE  Core' /\ Orderly /\ Kind
<1> DEFINE rec == Event(job[j], "SUCCESS")
<1>1. job[j].state = "Running" /\ job[j] \in Job
  BY DEF SetJobAsSuccessful, Core
<1>2. /\ rec \in Job /\ rec.state = "Succeeded"
      /\ rec.res = job[j].res /\ rec.fails = job[j].fails
  BY <1>1, EventRecord, StateOf DEF Events
<1>3. TryEnqueue(Changed(j, rec), queued, pending, UnlockResources(lock, job, j))
  BY DEF SetJobAsSuccessful, Changed
<1>4. stripped' = NotStripped(j) /\ retry' = retry /\ delayed' = delayed
  BY DEF SetJobAsSuccessful
<1> HIDE DEF rec
<1>5. Core' /\ Orderly /\ OthersPromoted(j) /\ job'[j] = rec
  BY <1>1, <1>2, <1>3, <1>4, RunningIsElsewhere, ReleaseStep
<1> QED
  BY <1>1, <1>2, <1>4, <1>5 DEF Ends, Kind

\* The table after the FAIL event of job j.
Fails(j) == [job EXCEPT ![j] = Event(@, "FAIL")]

LEMMA FailedTable ==
  ASSUME Core, NEW j \in JobIds, job[j].state = "Running",
         NEW jb, jb = Fails(j)
  PROVE  /\ jb[j] \in Job /\ jb[j].state = "Running" /\ jb[j].res = job[j].res
         /\ jb[j].timer = job[j].timer /\ jb[j].fails = job[j].fails + 1
         /\ \A i \in JobIds : i # j => jb[i] = job[i]
         /\ \A rec : [jb EXCEPT ![j] = rec] = Changed(j, rec)
         /\ UnlockResources(lock, jb, j) = UnlockResources(lock, job, j)
         /\ Available(lock, jb, j) <=> Available(lock, job, j)
<1>1. job \in [JobIds -> Job] /\ job[j] \in Job
  BY DEF Core
<1>2. jb[j] = Event(job[j], "FAIL") /\ \A i \in JobIds : i # j => jb[i] = job[i]
  BY <1>1 DEF Fails
<1>3. /\ jb[j] \in Job /\ jb[j].state = "Running" /\ jb[j].res = job[j].res
      /\ jb[j].timer = job[j].timer /\ jb[j].fails = job[j].fails + 1
  BY <1>1, <1>2, EventRecord, StateOf DEF Events
<1>4. \A rec : [jb EXCEPT ![j] = rec] = Changed(j, rec)
  BY <1>1 DEF Changed, Fails
<1> QED
  BY <1>2, <1>3, <1>4 DEF UnlockResources, Available

LEMMA TerminateKeeps ==
  ASSUME Core, NEW j \in JobIds, job[j].state = "Running",
         job[j].fails + 1 >= MaxRetry,
         NEW jb, jb = Fails(j), Terminate(j, jb)
  PROVE  Core' /\ Orderly /\ Kind
<1> DEFINE rec == Event(jb[j], "TERMINATE")
<1>1. /\ rec \in Job /\ rec.state = "Failed"
      /\ rec.res = job[j].res /\ rec.fails = job[j].fails + 1
  <2>1. jb[j] \in Job /\ jb[j].res = job[j].res /\ jb[j].fails = job[j].fails + 1
    BY FailedTable
  <2>2. "TERMINATE" \in Events /\ "TERMINATE" # "FAIL"
    BY DEF Events
  <2> QED
    BY <2>1, <2>2, EventRecord, StateOf
<1>2. [jb EXCEPT ![j] = Event(@, "TERMINATE")] = Changed(j, rec)
  <2>1. PICK r : r = rec
    OBVIOUS
  <2>2. [jb EXCEPT ![j] = r] = Changed(j, r)
    BY FailedTable
  <2> QED
    BY <2>1, <2>2
<1>3. TryEnqueue(Changed(j, rec), queued, pending, UnlockResources(lock, job, j))
  BY <1>2, FailedTable DEF Terminate
<1>4. stripped' = NotStripped(j) /\ retry' = retry /\ delayed' = delayed
  BY DEF Terminate
<1> HIDE DEF rec
<1>5. Core' /\ Orderly /\ OthersPromoted(j) /\ job'[j] = rec
  BY <1>1, <1>3, <1>4, RunningIsElsewhere, ReleaseStep
<1>6. Ends(j)
  BY <1>1, <1>4, <1>5 DEF Ends
<1> QED
  BY <1>5, <1>6 DEF Kind

LEMMA RetryLaterKeeps ==
  ASSUME Core, NEW j \in JobIds, job[j].state = "Running",
         job[j].fails + 1 < MaxRetry, NEW wait \in Nat,
         NEW jb, jb = Fails(j), RetryLater(j, jb, wait)
  PROVE  Core' /\ Orderly /\ Kind
<1> DEFINE rec == [Event(jb[j], "HIDE") EXCEPT !.timer = wait]
<1>1. /\ Event(jb[j], "HIDE") \in Job /\ Event(jb[j], "HIDE").state = "Hidden"
      /\ Event(jb[j], "HIDE").res = job[j].res
      /\ Event(jb[j], "HIDE").fails = job[j].fails + 1
  <2>1. jb[j] \in Job /\ jb[j].res = job[j].res /\ jb[j].fails = job[j].fails + 1
    BY FailedTable
  <2>2. "HIDE" \in Events /\ "HIDE" # "FAIL"
    BY DEF Events
  <2> QED
    BY <2>1, <2>2, EventRecord, StateOf
<1>2. /\ rec \in Job /\ rec.state = "Hidden"
      /\ rec.res = job[j].res /\ rec.fails = job[j].fails + 1
  BY <1>1 DEF Job
<1>3. [jb EXCEPT ![j] = [Event(@, "HIDE") EXCEPT !.timer = wait]] = Changed(j, rec)
  <2>1. PICK r : r = rec
    OBVIOUS
  <2>2. [jb EXCEPT ![j] = r] = Changed(j, r)
    BY FailedTable
  <2> QED
    BY <2>1, <2>2
<1>4. TryEnqueue(Changed(j, rec), queued, pending, UnlockResources(lock, job, j))
  BY <1>3, FailedTable DEF RetryLater
<1>5. stripped' = NotStripped(j) /\ retry' = retry \cup {j} /\ delayed' = delayed
  BY DEF RetryLater
<1> HIDE DEF rec
<1>6. Core' /\ Orderly /\ OthersPromoted(j) /\ job'[j] = rec
  BY <1>2, <1>4, <1>5, RunningIsElsewhere, ReleaseStep
<1>7. Ends(j)
  BY <1>2, <1>5, <1>6 DEF Ends
<1> QED
  BY <1>6, <1>7 DEF Kind

LEMMA RetryNowKeeps ==
  ASSUME Core, NEW j \in JobIds, job[j].state = "Running",
         job[j].fails + 1 < MaxRetry, Available(lock, job, j),
         NEW jb, jb = Fails(j), RetryNow(j, jb)
  PROVE  Core' /\ Orderly /\ Kind
<1> DEFINE rec == Event(jb[j], "ENQUEUE")
           after == Changed(j, rec)
           lk == LockAll(lock, job, {j})
           ex == {p \in stripped : p[1] \notin {j}}
<1>1. /\ rec \in Job /\ rec.state = "Queued"
      /\ rec.res = job[j].res /\ rec.fails = job[j].fails + 1
  <2>1. jb[j] \in Job /\ jb[j].res = job[j].res /\ jb[j].fails = job[j].fails + 1
    BY FailedTable
  <2>2. "ENQUEUE" \in Events
    BY DEF Events
  <2> QED
    BY <2>1, <2>2, EventRecord, StateOf
<1>2. job' = after
  <2>1. PICK r : r = rec
    OBVIOUS
  <2>2. [jb EXCEPT ![j] = r] = Changed(j, r)
    BY FailedTable
  <2>3. job' = [jb EXCEPT ![j] = rec]
    BY DEF RetryNow
  <2> QED
    BY <2>1, <2>2, <2>3
<1>3. lock' = lk
  <2>1. jb[j].res = job[j].res
    BY FailedTable
  <2> QED
    BY <2>1 DEF RetryNow, LockResources, LockAll
<1>4. stripped' = ex
  BY DEF RetryNow, NotStripped
<1>5. pending' = pending /\ retry' = retry /\ delayed' = delayed /\ queued' = queued \cup {j}
  BY DEF RetryNow
<1> HIDE DEF rec
<1>6. /\ after \in [JobIds -> Job]
      /\ after[j] = rec
      /\ \A i \in JobIds : i # j => after[i] = job[i]
      /\ InState(after, "Queued") = InState(job, "Queued") \cup {j}
      /\ \A s : s # "Queued" => InState(after, s) = InState(job, s) \ {j}
  BY <1>1, ChangedTable
<1> HIDE DEF after, lk, ex
<1>7. /\ lk \in [Resources -> JobLock]
      /\ LocksOwned(lk, after)
      /\ HoldsAll(lk, after, ex)
      /\ Blocked(lk, after, pending)
      /\ PendingAreDue(after)
  <2> DEFINE S == {j}
  <2>1. S \in SUBSET JobIds /\ lk = LockAll(lock, job, S) /\ ex = {p \in stripped : p[1] \notin S}
    BY DEF lk, ex
  <2>2. \A i \in S : /\ after[i].state = "Queued" /\ after[i].res = job[i].res
                     /\ job[i].state # "Pending" /\ Available(lock, job, i)
    BY <1>1, <1>6
  <2>3. /\ \A i \in JobIds \ S : after[i] = job[i]
        /\ \A i, k \in S : i # k => ~Conflict(job, i, k)
    BY <1>6
  <2> HIDE DEF S
  <2> QED
    BY <1>6, <2>1, <2>2, <2>3, Requeued
<1>8. OneContainer'
  BY <1>2, <1>5, <1>6, RunningIsElsewhere DEF Core, OneContainer
<1>9. ex \subseteq JobIds \X Resources
  BY DEF Core, ex
<1>10. Core'
  BY <1>2, <1>3, <1>4, <1>5, <1>6, <1>7, <1>8, <1>9 DEF Core
<1>11. OthersPromoted(j)
  BY <1>2, <1>6 DEF OthersPromoted, Promoted
<1>12. Ends(j)
  <2>1. stripped' = NotStripped(j)
    BY DEF RetryNow
  <2> QED
    BY <1>1, <1>2, <1>6, <1>11, <2>1 DEF Ends
<1>13. Orderly
  BY <1>2, <1>6, QuietIsOrderly, RunningIsElsewhere DEF Core, OneContainer, InState
<1> QED
  BY <1>10, <1>12, <1>13 DEF Kind

LEMMA FailKeeps ==
  ASSUME Core, NEW j \in JobIds, FailRunningJob(j)
  PROVE  Core' /\ Orderly /\ Kind
<1> DEFINE jb == Fails(j)
           n == jb[j].fails
<1>1. job[j].state = "Running"
  BY DEF FailRunningJob
<1>2. n \in Nat /\ n >= 1 /\ n = job[j].fails + 1
  <2>1. n = job[j].fails + 1 /\ job[j] \in Job
    BY <1>1, FailedTable DEF Core
  <2> QED
    BY <2>1 DEF Job
<1>3. Available(lock, jb, j) <=> Available(lock, job, j)
  BY <1>1, FailedTable
<1>4. \/ n >= MaxRetry /\ Terminate(j, jb)
      \/ n < MaxRetry /\ Available(lock, jb, j) /\ RetryNow(j, jb)
      \/ n < MaxRetry /\ RetryLater(j, jb, RetryDelay[n])
  BY DEF FailRunningJob, Fails
<1>5. n < MaxRetry => RetryDelay[n] \in Nat
  BY <1>2, SchedulerAssumption
<1> HIDE DEF jb, n
<1>6. jb = Fails(j)
  BY DEF jb
<1> QED
  BY <1>1, <1>2, <1>3, <1>4, <1>5, <1>6, TerminateKeeps, RetryNowKeeps, RetryLaterKeeps

LEMMA CancelKeeps ==
  ASSUME Core, NEW j \in JobIds, CancelJob(j)
  PROVE  Core' /\ Orderly /\ Kind
<1> DEFINE rec == Event(Event(job[j], "CANCEL"), "ENQUEUE")
           jb == Changed(j, rec)
<1>1. job[j].state = "Running" /\ job[j] \in Job
  BY DEF CancelJob, Core
<1>2. /\ rec \in Job /\ rec.state = "Queued"
      /\ rec.res = job[j].res /\ rec.fails = job[j].fails
  BY <1>1, EventRecord, StateOf DEF Events
<1>3. /\ TryEnqueue(jb, IndexAfter(queued, job[j], rec, j), pending, lock)
      /\ stripped' = stripped /\ retry' = retry /\ delayed' = delayed
  BY DEF CancelJob, Changed
<1>4. IndexAfter(queued, job[j], rec, j) = queued \cup {j}
  BY <1>1, <1>2 DEF IndexAfter
<1> HIDE DEF rec
<1>5. /\ jb \in [JobIds -> Job] /\ jb[j] = rec
      /\ \A i \in JobIds : i # j => jb[i] = job[i]
      /\ PendingAreDue(jb)
      /\ InState(jb, "Queued") = InState(job, "Queued") \cup {j}
      /\ \A s : s # "Queued" => InState(jb, s) = InState(job, s) \ {j}
  BY <1>2, ChangedTable
<1> HIDE DEF jb
<1>6. Active(jb) = Active(job) /\ \A i \in JobIds : jb[i].res = job[i].res
  BY <1>1, <1>2, <1>5 DEF Active
<1>7. LocksOwned(lock, jb) /\ HoldsAll(lock, jb, stripped')
  BY <1>3, <1>6 DEF Core, LocksOwned, HoldsAll, Active
<1>8. /\ pending = InState(jb, "Pending") /\ queued \cup {j} = InState(jb, "Queued")
      /\ retry' = InState(jb, "Hidden") /\ delayed' = InState(jb, "Delayed")
  BY <1>1, <1>3, <1>5, RunningIsElsewhere DEF Core, OneContainer
<1>9. TryEnqueue(jb, queued \cup {j}, pending, lock)
  BY <1>3, <1>4
<1>10. lock \in [Resources -> JobLock] /\ stripped' \subseteq JobIds \X Resources
  BY <1>3 DEF Core
<1>11. /\ Core' /\ \A i \in JobIds : Promoted(jb[i], job'[i])
       /\ (\A i \in pending : jb[i] = job[i] \/ jb[i].state = "NoState") => Orderly
  BY <1>5, <1>7, <1>8, <1>9, <1>10, Settled
<1>12. OthersPromoted(j) /\ job'[j] = rec
  BY <1>2, <1>5, <1>11 DEF Promoted, OthersPromoted
<1>13. Orderly
  <2>1. \A i \in pending : i \in JobIds /\ i # j
    BY <1>1, RunningIsElsewhere DEF Core, OneContainer, InState
  <2> QED
    BY <2>1, <1>5, <1>11
<1> QED
  BY <1>1, <1>2, <1>3, <1>11, <1>12, <1>13 DEF Ends, Kind

LEMMA RemoveKeeps ==
  ASSUME Core, NEW j \in JobIds, RemoveJob(j)
  PROVE  Core' /\ Orderly /\ Kind /\ Removes({j})
<1>1. IndexAfter(queued, job[j], Absent, j) = queued \ {j}
  BY AbsentRecord DEF IndexAfter, Core, OneContainer, InState
<1>2. TryEnqueue(Changed(j, Absent), queued \ {j}, pending \ {j}, UnlockResources(lock, job, j))
  BY <1>1 DEF RemoveJob, Changed
<1>3. stripped' = NotStripped(j) /\ retry' = retry \ {j} /\ delayed' = delayed \ {j}
  BY DEF RemoveJob
<1>4. Core' /\ Orderly /\ OthersPromoted(j) /\ job'[j] = Absent
  BY <1>2, <1>3, AbsentRecord, ReleaseStep
<1>5. Removes({j})
  BY <1>3, <1>4 DEF Removes, OthersPromoted, NotStripped
<1>6. {j} \in SUBSET JobIds
  OBVIOUS
<1>7. Kind
  BY <1>5, <1>6 DEF Kind
<1> QED
  BY <1>4, <1>5, <1>7

LEMMA OffersIsAKind ==
  ASSUME \A i \in JobIds :
           /\ job'[i].res = job[i].res /\ job'[i].fails = job[i].fails
           /\ \/ job'[i].state = job[i].state
              \/ job[i].state \in Waiting /\ job'[i].state \in Waiting \cup {"Queued"},
         \A p \in stripped' \ stripped : p[1] \in Active(job) /\ p[2] \in job[p[1]].res
  PROVE  Kind
BY DEF Offers, Kind

\* A step that changes no state of a job and serves no pending job.
LEMMA SameStates ==
  ASSUME Core,
         \A i \in JobIds :
           /\ job'[i].state = job[i].state
           /\ job'[i].res = job[i].res /\ job'[i].fails = job[i].fails,
         \A p \in stripped' \ stripped : p[1] \in Active(job) /\ p[2] \in job[p[1]].res
  PROVE  Orderly /\ Kind
<1>1. \A i \in pending : i \in JobIds /\ job[i].state = "Pending"
  BY DEF Core, OneContainer, InState
<1> QED
  BY <1>1, QuietIsOrderly, OffersIsAKind

\* A step that changes neither the locks nor who may hold them.
LEMMA LocksUntouched ==
  ASSUME Core, job' \in [JobIds -> Job], OneContainer', PendingAreDue(job'),
         lock' = lock, stripped' = stripped, pending' = pending,
         \A j \in JobIds : /\ job'[j].res = job[j].res
                           /\ job[j].state \in {"Queued", "Running"}
                                <=> job'[j].state \in {"Queued", "Running"}
  PROVE  Core'
<1>1. Active(job') = Active(job)
  BY DEF Active
<1>2. LocksOwned(lock', job')
  BY <1>1 DEF Core, LocksOwned, Active
<1>3. HoldsAll(lock', job', stripped')
  BY <1>1 DEF Core, HoldsAll, Active
<1>4. Blocked(lock', job', pending')
  BY DEF Core, Blocked, Available, OneContainer, InState
<1> QED
  BY <1>2, <1>3, <1>4 DEF Core

LEMMA StartKeeps ==
  ASSUME Core, NEW C \in SUBSET queued, NEW v \in Nat, StartJobs(C, v)
  PROVE  Core' /\ Orderly /\ Kind
<1>1. \A j \in C : j \in JobIds /\ job[j] \in Job /\ job[j].state = "Queued"
  BY DEF Core, OneContainer, InState
<1>2. \A j \in C : /\ job'[j] \in Job /\ job'[j].state = "Running"
                   /\ job'[j].res = job[j].res /\ job'[j].fails = job[j].fails
  <2> SUFFICES ASSUME NEW j \in C
               PROVE  /\ job'[j] \in Job /\ job'[j].state = "Running"
                      /\ job'[j].res = job[j].res /\ job'[j].fails = job[j].fails
    OBVIOUS
  <2> DEFINE rec == Event(job[j], "START")
  <2>1. "START" \in Events
    BY DEF Events
  <2>2. /\ rec \in Job /\ rec.state = "Running"
        /\ rec.res = job[j].res /\ rec.fails = job[j].fails
    BY <1>1, <2>1, EventRecord, StateOf
  <2>3. job'[j] = [rec EXCEPT !.vis = v]
    BY <1>1 DEF StartJobs
  <2> HIDE DEF rec
  <2> QED
    BY <2>2, <2>3 DEF Job
<1>3. \A j \in JobIds \ C : job'[j] = job[j]
  BY DEF StartJobs
<1>4. job' \in [JobIds -> Job]
  <2>1. \A j \in JobIds : job'[j] \in Job
    BY <1>2, <1>3 DEF Core
  <2> QED
    BY <2>1 DEF StartJobs
<1>5. /\ queued' = queued \ C /\ pending' = pending /\ retry' = retry /\ delayed' = delayed
      /\ lock' = lock /\ stripped' = stripped
  BY <1>1 DEF StartJobs, Core, OneContainer, InState
<1>6. OneContainer'
  BY <1>1, <1>2, <1>3, <1>5 DEF Core, OneContainer, InState
<1>7. PendingAreDue(job')
  BY <1>2, <1>3 DEF Core, PendingAreDue
<1>8. Core'
  BY <1>1, <1>2, <1>3, <1>4, <1>5, <1>6, <1>7, LocksUntouched
<1>9. Orderly
  BY <1>2, <1>3, QuietIsOrderly DEF Core, OneContainer, InState
<1>10. Starts(C)
  BY <1>1, <1>2, <1>3, <1>5 DEF Starts
<1>11. C \in SUBSET JobIds
  BY <1>1
<1> QED
  BY <1>8, <1>9, <1>10, <1>11 DEF Kind

LEMMA ChangeVisibilityKeeps ==
  ASSUME Core, NEW j \in JobIds, NEW v \in Nat, ChangeVisibilityTimeout(j, v)
  PROVE  Core' /\ Orderly /\ Kind
<1>1. /\ job' = [job EXCEPT ![j].vis = v]
      /\ pending' = pending /\ queued' = queued /\ retry' = retry /\ delayed' = delayed
      /\ lock' = lock /\ stripped' = stripped
  BY DEF ChangeVisibilityTimeout, queueVars
<1>2. job[j] \in Job /\ [job[j] EXCEPT !.vis = v] \in Job
  BY DEF Core, Job
<1>3. /\ job' \in [JobIds -> Job]
      /\ \A i \in JobIds : /\ job'[i].state = job[i].state /\ job'[i].res = job[i].res
                           /\ job'[i].fails = job[i].fails
                           /\ job'[i].timer = job[i].timer
  BY <1>1, <1>2 DEF Core, Job
<1>4. OneContainer' /\ PendingAreDue(job')
  BY <1>1, <1>3 DEF Core, OneContainer, PendingAreDue, InState
<1>5. Core'
  BY <1>1, <1>3, <1>4, LocksUntouched
<1> QED
  BY <1>1, <1>3, <1>5, SameStates

LEMMA TickKeeps ==
  ASSUME Core, Tick
  PROVE  Core' /\ Orderly /\ Kind
<1>1. /\ job' = [j \in JobIds |-> Aged(job[j])]
      /\ pending' = pending /\ queued' = queued /\ retry' = retry /\ delayed' = delayed
      /\ lock' = lock /\ stripped' = stripped
  BY DEF Tick, queueVars
<1>2. \A rec \in Job : /\ Aged(rec) \in Job /\ Aged(rec).state = rec.state
                       /\ Aged(rec).res = rec.res /\ Aged(rec).fails = rec.fails
                       /\ rec.timer = 0 => Aged(rec).timer = 0
  <2> SUFFICES ASSUME NEW rec \in Job
               PROVE  /\ Aged(rec) \in Job /\ Aged(rec).state = rec.state
                      /\ Aged(rec).res = rec.res /\ Aged(rec).fails = rec.fails
                      /\ rec.timer = 0 => Aged(rec).timer = 0
    OBVIOUS
  <2> DEFINE t == Max2(0, rec.timer - 1)
             a == IF rec.state \in {"Running", "Succeeded", "Failed", "Canceled"}
                    THEN Min2(rec.age + 1, AgeCap) ELSE rec.age
  <2>1. rec.timer \in Nat /\ rec.age \in Nat /\ AgeCap \in Nat
    BY SchedulerAssumption DEF Job
  <2>2. t \in Nat /\ a \in Nat /\ (rec.timer = 0 => t = 0)
    BY <2>1 DEF Max2, Min2
  <2>3. Aged(rec) = [rec EXCEPT !.timer = t, !.age = a]
    BY DEF Aged
  <2> HIDE DEF t, a
  <2> QED
    BY <2>2, <2>3 DEF Job
<1>3. /\ job' \in [JobIds -> Job]
      /\ \A i \in JobIds : /\ job'[i].state = job[i].state /\ job'[i].res = job[i].res
                           /\ job'[i].fails = job[i].fails
                           /\ job[i].timer = 0 => job'[i].timer = 0
  BY <1>1, <1>2 DEF Core
<1>4. OneContainer' /\ PendingAreDue(job')
  BY <1>1, <1>3 DEF Core, OneContainer, PendingAreDue, InState
<1>5. Core'
  BY <1>1, <1>3, <1>4, LocksUntouched
<1> QED
  BY <1>1, <1>3, <1>5, SameStates

\* Job nextId, which did not exist, becomes rec; the others may be served.
LEMMA CreateKeeps ==
  ASSUME Core, nextId \in JobIds, job[nextId].state = "NoState",
         NEW new \in Job, NEW wait \in Nat, new.timer = 0,
         FinalizeJobCreation(new, wait)
  PROVE  /\ Core' /\ Orderly /\ OthersPromoted(nextId) /\ stripped' = stripped
         /\ job'[nextId].state \in Waiting \cup {"Queued"}
         /\ job'[nextId].fails = new.fails
<1> DEFINE rec == IF wait > 0 THEN [Event(new, "DELAY") EXCEPT !.timer = wait]
                              ELSE Event(new, "PENDING")
           jb == Changed(nextId, rec)
           pend == IF wait > 0 THEN pending ELSE pending \cup {nextId}
<1>1. /\ Event(new, "DELAY") \in Job /\ Event(new, "DELAY").state = "Delayed"
      /\ Event(new, "PENDING") \in Job /\ Event(new, "PENDING").state = "Pending"
      /\ Event(new, "PENDING").timer = 0
      /\ Event(new, "DELAY").fails = new.fails /\ Event(new, "PENDING").fails = new.fails
  <2>1. "DELAY" \in Events /\ "PENDING" \in Events
    BY DEF Events
  <2> QED
    BY <2>1, EventRecord, StateOf
<1>2. /\ rec \in Job /\ rec.fails = new.fails
      /\ wait > 0 => rec.state = "Delayed"
      /\ ~(wait > 0) => rec.state = "Pending" /\ rec.timer = 0
  <2>1. CASE wait > 0
    BY <1>1, <2>1 DEF Job
  <2>2. CASE ~(wait > 0)
    BY <1>1, <2>2
  <2> QED
    BY <2>1, <2>2
<1>3. /\ TryEnqueue(jb, queued, pend, lock)
      /\ stripped' = stripped /\ retry' = retry
      /\ delayed' = IF wait > 0 THEN delayed \cup {nextId} ELSE delayed
  <2>1. CASE wait > 0
    BY <2>1 DEF FinalizeJobCreation, Changed
  <2>2. CASE ~(wait > 0)
    BY <2>2 DEF FinalizeJobCreation, Changed
  <2> QED
    BY <2>1, <2>2
<1> HIDE DEF rec
<1>4. /\ jb \in [JobIds -> Job] /\ jb[nextId] = rec
      /\ \A i \in JobIds : i # nextId => jb[i] = job[i]
      /\ PendingAreDue(jb)
      /\ \A s : rec.state = s => InState(jb, s) = InState(job, s) \cup {nextId}
      /\ \A s : rec.state # s => InState(jb, s) = InState(job, s) \ {nextId}
  BY <1>2, ChangedTable
<1> HIDE DEF jb
<1>5. \A s \in {"Pending", "Queued", "Hidden", "Delayed"} : nextId \notin InState(job, s)
  BY DEF InState
<1>6. /\ pend = InState(jb, "Pending") /\ queued = InState(jb, "Queued")
      /\ retry' = InState(jb, "Hidden") /\ delayed' = InState(jb, "Delayed")
  <2>1. \A s \in {"Pending", "Queued", "Hidden", "Delayed"} :
          InState(jb, s) = IF rec.state = s THEN InState(job, s) \cup {nextId} ELSE InState(job, s)
    <3> TAKE s \in {"Pending", "Queued", "Hidden", "Delayed"}
    <3>1. rec.state = s => InState(jb, s) = InState(job, s) \cup {nextId}
      BY <1>4
    <3>2. rec.state # s => InState(jb, s) = InState(job, s) \ {nextId}
      BY <1>4
    <3>3. InState(job, s) \ {nextId} = InState(job, s)
      BY <1>5
    <3> QED
      BY <3>1, <3>2, <3>3
  <2>2. /\ pending = InState(job, "Pending") /\ queued = InState(job, "Queued")
        /\ retry = InState(job, "Hidden") /\ delayed = InState(job, "Delayed")
    BY DEF Core, OneContainer
  <2>3. CASE wait > 0
    <3>1. rec.state = "Delayed"
      BY <2>3, <1>2
    <3> QED
      BY <2>1, <2>2, <2>3, <3>1, <1>3
  <2>4. CASE ~(wait > 0)
    <3>1. rec.state = "Pending"
      BY <2>4, <1>2
    <3> QED
      BY <2>1, <2>2, <2>4, <3>1, <1>3
  <2> QED
    BY <2>3, <2>4
<1>7. rec.state \notin {"Queued", "Running"}
  BY <1>2
<1>8. Active(jb) = Active(job)
  BY <1>4, <1>7 DEF Active
<1>9. LocksOwned(lock, jb) /\ HoldsAll(lock, jb, stripped')
  BY <1>3, <1>4, <1>8 DEF Core, LocksOwned, HoldsAll, Active
<1>10. lock \in [Resources -> JobLock] /\ stripped' \subseteq JobIds \X Resources
  BY <1>3 DEF Core
<1> HIDE DEF pend
<1>11. /\ Core' /\ \A i \in JobIds : Promoted(jb[i], job'[i])
       /\ (\A i \in pending : jb[i] = job[i] \/ jb[i].state = "NoState") => Orderly
  BY <1>3, <1>4, <1>6, <1>9, <1>10, Settled
<1>12. Orderly
  <2>1. \A i \in pending : i \in JobIds /\ i # nextId
    BY <1>5 DEF Core, OneContainer, InState
  <2> QED
    BY <2>1, <1>4, <1>11
<1>13. /\ job'[nextId].state \in Waiting \cup {"Queued"}
       /\ job'[nextId].fails = new.fails
  <2>1. Promoted(rec, job'[nextId])
    BY <1>4, <1>11
  <2> QED
    BY <2>1, <1>2 DEF Promoted, Waiting
<1> QED
  BY <1>3, <1>4, <1>11, <1>12, <1>13 DEF OthersPromoted

LEMMA DeleteAllKeeps ==
  ASSUME Core, DeleteAllJobs
  PROVE  Core' /\ Orderly /\ Kind
<1>1. \A j \in JobIds : job'[j] = Absent
  BY DEF DeleteAllJobs
<1>2. job' \in [JobIds -> Job] /\ lock' \in [Resources -> JobLock]
  BY AbsentRecord DEF DeleteAllJobs, JobLock
<1>3. /\ OneContainer' /\ PendingAreDue(job') /\ Active(job') = {}
  BY <1>1, AbsentRecord DEF DeleteAllJobs, OneContainer, PendingAreDue, InState, Active
<1>4. LocksOwned(lock', job') /\ HoldsAll(lock', job', stripped') /\ Blocked(lock', job', pending')
  BY <1>3 DEF DeleteAllJobs, LocksOwned, HoldsAll, Blocked
<1>5. stripped' \subseteq JobIds \X Resources
  BY DEF DeleteAllJobs
<1> QED
  <2>1. Core'
    BY <1>1, <1>2, <1>3, <1>4, <1>5 DEF Core
  <2>2. Orderly
    BY <1>1, AbsentRecord, QuietIsOrderly DEF Core, OneContainer, InState
  <2>3. Removes(JobIds)
    BY <1>1 DEF Removes, DeleteAllJobs, Core
  <2> QED
    BY <2>1, <2>2, <2>3 DEF Kind

\* The locks lk are those held but for some the admin API took away.
LEMMA UnlockKeeps ==
  ASSUME Core, NEW lk \in [Resources -> JobLock],
         \A r \in Resources : lk[r] \in {lock[r], NoJob},
         stripped \subseteq stripped', stripped' \subseteq JobIds \X Resources,
         \A r \in Resources : lk[r] # lock[r] => <<lock[r], r>> \in stripped',
         \A p \in stripped' \ stripped : p[1] \in Active(job) /\ p[2] \in job[p[1]].res,
         retry' = retry, delayed' = delayed,
         TryEnqueue(job, queued, pending, lk)
  PROVE  Core' /\ Orderly /\ Kind
<1>1. LocksOwned(lk, job)
  BY DEF Core, LocksOwned
<1>2. HoldsAll(lk, job, stripped')
  <2> SUFFICES ASSUME NEW j \in Active(job), NEW r \in job[j].res
               PROVE  lk[r] = j \/ <<j, r>> \in stripped'
    BY DEF HoldsAll
  <2>1. r \in Resources /\ (lock[r] = j \/ <<j, r>> \in stripped)
    BY DEF Core, HoldsAll, Job, Active
  <2> QED
    BY <2>1
<1>3. /\ pending = InState(job, "Pending") /\ queued = InState(job, "Queued")
      /\ retry' = InState(job, "Hidden") /\ delayed' = InState(job, "Delayed")
      /\ PendingAreDue(job) /\ job \in [JobIds -> Job]
  BY DEF Core, OneContainer
<1>4. Core' /\ Orderly /\ \A j \in JobIds : Promoted(job[j], job'[j])
  BY <1>1, <1>2, <1>3, Settled
<1>5. Kind
  BY <1>4, OffersIsAKind DEF Promoted, Waiting
<1> QED
  BY <1>4, <1>5

\* TryEnqueuePendingJobs, and the end of a visibility pass.
LEMMA ServeKeeps ==
  ASSUME Core, TryEnqueue(job, queued, pending, lock),
         retry' = retry, delayed' = delayed, stripped' = stripped
  PROVE  Core' /\ Orderly /\ Kind
<1>1. lock \in [Resources -> JobLock] /\ stripped' \subseteq JobIds \X Resources
  BY DEF Core
<1> QED
  BY <1>1, UnlockKeeps

LEMMA UnlockResourceKeeps ==
  ASSUME Core, NEW r \in Resources, UnlockResource(r)
  PROVE  Core' /\ Orderly /\ Kind
<1> DEFINE lk == [lock EXCEPT ![r] = NoJob]
<1>1. /\ TryEnqueue(job, queued, pending, lk)
      /\ stripped' = stripped \cup {<<lock[r], r>>} /\ lock[r] # NoJob
      /\ retry' = retry /\ delayed' = delayed
  BY DEF UnlockResource
<1>2. /\ lk \in [Resources -> JobLock]
      /\ \A x \in Resources : lk[x] \in {lock[x], NoJob}
      /\ \A x \in Resources : lk[x] # lock[x] => x = r
  BY DEF Core, JobLock
<1>3. lock[r] \in JobIds
  BY <1>1 DEF Core, JobLock
<1>4. stripped' \subseteq JobIds \X Resources
  BY <1>1, <1>3 DEF Core
<1>5. \A x \in Resources : lk[x] # lock[x] => <<lock[x], x>> \in stripped'
  BY <1>1, <1>2
<1>6. \A p \in stripped' \ stripped : p[1] \in Active(job) /\ p[2] \in job[p[1]].res
  BY <1>1 DEF Core, LocksOwned
<1> HIDE DEF lk
<1> QED
  BY <1>1, <1>2, <1>4, <1>5, <1>6, UnlockKeeps

LEMMA UnlockAllKeeps ==
  ASSUME Core, UnlockAllResources
  PROVE  Core' /\ Orderly /\ Kind
<1> DEFINE lk == [x \in Resources |-> NoJob]
           T == {<<lock[x], x>> : x \in {y \in Resources : lock[y] # NoJob}}
<1>1. /\ TryEnqueue(job, queued, pending, lk)
      /\ stripped' = stripped \cup T
      /\ retry' = retry /\ delayed' = delayed
  BY DEF UnlockAllResources
<1>2. lk \in [Resources -> JobLock] /\ \A x \in Resources : lk[x] = NoJob
  BY DEF JobLock
<1>3. T \subseteq JobIds \X Resources
  BY DEF Core, JobLock
<1>4. \A x \in Resources : lock[x] # NoJob => <<lock[x], x>> \in T
  OBVIOUS
<1>7. \A p \in T : p[1] \in Active(job) /\ p[2] \in job[p[1]].res
  BY DEF Core, LocksOwned
<1> HIDE DEF lk, T
<1>5. stripped \subseteq stripped' /\ stripped' \subseteq JobIds \X Resources
  BY <1>1, <1>3 DEF Core
<1>6. \A x \in Resources : lk[x] # lock[x] => <<lock[x], x>> \in stripped'
  BY <1>1, <1>2, <1>4
<1>8. \A p \in stripped' \ stripped : p[1] \in Active(job) /\ p[2] \in job[p[1]].res
  BY <1>1, <1>7
<1> QED
  BY <1>1, <1>2, <1>5, <1>6, <1>8, UnlockKeeps

\* The ENQUEUE (or PENDING) events of the jobs of S.
EventOf(S, e) == [j \in JobIds |-> IF j \in S THEN Event(job[j], e) ELSE job[j]]

LEMMA EventTable ==
  ASSUME Core, NEW S \in SUBSET JobIds, NEW e \in Events, e # "FAIL"
  PROVE  LET jb == EventOf(S, e)
         IN  /\ jb \in [JobIds -> Job]
             /\ \A j \in S : /\ jb[j].state = StateFromEvent(e) /\ jb[j].res = job[j].res
                             /\ jb[j].timer = job[j].timer /\ jb[j].fails = job[j].fails
             /\ \A j \in JobIds \ S : jb[j] = job[j]
<1> DEFINE jb == EventOf(S, e)
<1>1. \A j \in S : /\ Event(job[j], e) \in Job
                   /\ Event(job[j], e).state = StateFromEvent(e)
                   /\ Event(job[j], e).res = job[j].res
                   /\ Event(job[j], e).timer = job[j].timer
                   /\ Event(job[j], e).fails = job[j].fails
  BY EventRecord DEF Core
<1>2. \A j \in S : jb[j] = Event(job[j], e)
  BY DEF EventOf
<1>3. \A j \in JobIds \ S : jb[j] = job[j] /\ job[j] \in Job
  BY DEF Core, EventOf
<1>4. jb \in [JobIds -> Job]
  <2>1. \A j \in JobIds : jb[j] \in Job
    BY <1>1, <1>2, <1>3
  <2>2. jb = [j \in JobIds |-> jb[j]]
    BY DEF EventOf
  <2> QED
    BY <2>1, <2>2
<1> HIDE DEF jb
<1>5. \A j \in S : /\ jb[j].state = StateFromEvent(e) /\ jb[j].res = job[j].res
                   /\ jb[j].timer = job[j].timer /\ jb[j].fails = job[j].fails
  BY <1>1, <1>2
<1> QED
  BY <1>3, <1>4, <1>5 DEF jb

LEMMA RetriesKeep ==
  ASSUME Core, AttemptJobRetries
  PROVE  Core' /\ Orderly /\ Kind
<1> DEFINE due == {j \in retry : job[j].timer = 0}
<1>1. PICK S \in SUBSET due :
        /\ Retried(S, due)
        /\ job' = [j \in JobIds |-> IF j \in S THEN Event(job[j], "ENQUEUE") ELSE job[j]]
        /\ queued' = queued \cup S
        /\ retry' = retry \ S
        /\ lock' = LockAll(lock, job, S)
        /\ stripped' = {p \in stripped : p[1] \notin S}
  BY DEF AttemptJobRetries
<1>2. S \in SUBSET JobIds /\ \A j \in S : job[j].state = "Hidden"
  BY DEF Core, OneContainer, InState
<1> DEFINE jb == [j \in JobIds |-> IF j \in S THEN Event(job[j], "ENQUEUE") ELSE job[j]]
           lk == LockAll(lock, job, S)
           ex == {p \in stripped : p[1] \notin S}
<1>3. "ENQUEUE" \in Events /\ "ENQUEUE" # "FAIL"
  BY DEF Events
<1>4. job' = jb /\ lock' = lk /\ stripped' = ex
  BY <1>1
<1>5. pending' = pending /\ delayed' = delayed
  BY DEF AttemptJobRetries
<1> HIDE DEF due
<1>6. /\ jb \in [JobIds -> Job]
      /\ \A j \in S : /\ jb[j].state = "Queued" /\ jb[j].res = job[j].res
                      /\ jb[j].fails = job[j].fails
      /\ \A j \in JobIds \ S : jb[j] = job[j]
  <2>1. PICK e, tab : e \in Events /\ e = "ENQUEUE" /\ tab = EventOf(S, e)
    BY <1>3
  <2>2. jb = tab
    BY <2>1 DEF EventOf
  <2>3. /\ tab \in [JobIds -> Job]
        /\ \A j \in S : tab[j].state = StateFromEvent(e)
        /\ \A j \in S : tab[j].res = job[j].res /\ tab[j].fails = job[j].fails
        /\ \A j \in JobIds \ S : tab[j] = job[j]
    <3>1. e \in Events /\ e # "FAIL" /\ tab = EventOf(S, e)
      BY <2>1
    <3> HIDE DEF jb
    <3> QED
      BY <1>2, <3>1, EventTable
  <2> HIDE DEF jb
  <2>4. StateFromEvent(e) = "Queued"
    BY <2>1, StateOf
  <2> QED
    BY <2>2, <2>3, <2>4
<1>7. \A j \in S : Available(lock, job, j) /\ \A k \in S \ {j} : ~Conflict(job, j, k)
  BY <1>1 DEF Retried
<1>8. \A j, k \in S : j # k => ~Conflict(job, j, k)
  BY <1>7
<1> HIDE DEF jb
<1>9. /\ lk \in [Resources -> JobLock]
      /\ LocksOwned(lk, jb)
      /\ HoldsAll(lk, jb, ex)
      /\ Blocked(lk, jb, pending)
      /\ PendingAreDue(jb)
  BY <1>2, <1>6, <1>7, <1>8, Requeued
<1>10. ex \subseteq JobIds \X Resources
  BY DEF Core
<1>11. OneContainer'
  BY <1>1, <1>2, <1>4, <1>5, <1>6 DEF Core, OneContainer, InState
<1> HIDE DEF lk, ex
<1>12. Core'
  BY <1>4, <1>5, <1>6, <1>9, <1>10, <1>11 DEF Core
<1>13. Orderly
  BY <1>2, <1>4, <1>6, QuietIsOrderly DEF Core, OneContainer, InState
<1>14. Kind
  <2>1. stripped' \subseteq stripped
    BY <1>1
  <2> QED
    BY <1>2, <1>4, <1>6, <2>1, OffersIsAKind DEF Waiting
<1> QED
  BY <1>12, <1>13, <1>14

LEMMA DelayedKeeps ==
  ASSUME Core, CheckDelayedJobs
  PROVE  Core' /\ Orderly /\ Kind
<1> DEFINE due == {j \in delayed : job[j].timer = 0}
           jb == [j \in JobIds |-> IF j \in due THEN Event(job[j], "PENDING") ELSE job[j]]
<1>1. /\ TryEnqueue(jb, queued, pending \cup due, lock)
      /\ delayed' = delayed \ due
      /\ retry' = retry /\ stripped' = stripped
  BY DEF CheckDelayedJobs
<1>2. due \in SUBSET JobIds /\ \A j \in due : job[j].state = "Delayed" /\ job[j].timer = 0
  BY DEF Core, OneContainer, InState
<1>3. "PENDING" \in Events /\ "PENDING" # "FAIL"
  BY DEF Events
<1> HIDE DEF due
<1>4. /\ jb \in [JobIds -> Job]
      /\ \A j \in due : /\ jb[j].state = "Pending" /\ jb[j].res = job[j].res
                        /\ jb[j].timer = job[j].timer /\ jb[j].fails = job[j].fails
      /\ \A j \in JobIds \ due : jb[j] = job[j]
  <2>1. PICK e, S, tab :
          /\ e \in Events /\ S \in SUBSET JobIds
          /\ e = "PENDING" /\ S = due /\ tab = EventOf(S, e)
    BY <1>2, <1>3
  <2>2. jb = tab
    BY <2>1 DEF EventOf
  <2>3. /\ tab \in [JobIds -> Job]
        /\ \A j \in S : tab[j].state = StateFromEvent(e)
        /\ \A j \in S : /\ tab[j].res = job[j].res /\ tab[j].timer = job[j].timer
                          /\ tab[j].fails = job[j].fails
        /\ \A j \in JobIds \ S : tab[j] = job[j]
    <3>1. e \in Events /\ S \in SUBSET JobIds /\ e # "FAIL" /\ tab = EventOf(S, e)
      BY <2>1
    <3> HIDE DEF jb
    <3> QED
      BY <3>1, EventTable
  <2> HIDE DEF jb
  <2>4. StateFromEvent(e) = "Pending"
    BY <2>1, StateOf
  <2> QED
    BY <2>1, <2>2, <2>3, <2>4
<1> HIDE DEF jb
<1>5. Active(jb) = Active(job)
  BY <1>2, <1>4 DEF Active
<1>6. LocksOwned(lock, jb) /\ HoldsAll(lock, jb, stripped')
  BY <1>1, <1>2, <1>4, <1>5 DEF Core, LocksOwned, HoldsAll, Active
<1>7. PendingAreDue(jb)
  BY <1>2, <1>4 DEF Core, PendingAreDue
<1>8. /\ pending \cup due = InState(jb, "Pending") /\ queued = InState(jb, "Queued")
      /\ retry' = InState(jb, "Hidden") /\ delayed' = InState(jb, "Delayed")
  BY <1>1, <1>2, <1>4 DEF Core, OneContainer, InState
<1>9. lock \in [Resources -> JobLock] /\ stripped' \subseteq JobIds \X Resources
  BY <1>1 DEF Core
<1>10. /\ Core' /\ \A j \in JobIds : Promoted(jb[j], job'[j])
       /\ (\A i \in pending : jb[i] = job[i] \/ jb[i].state = "NoState") => Orderly
  BY <1>1, <1>4, <1>6, <1>7, <1>8, <1>9, Settled
<1>11. Orderly
  BY <1>2, <1>4, <1>10 DEF Core, OneContainer, InState
<1>12. Kind
  BY <1>1, <1>2, <1>4, <1>10, OffersIsAKind DEF Promoted, Waiting
<1> QED
  BY <1>10, <1>11, <1>12

LEMMA RestartKeeps ==
  ASSUME Core, Restart
  PROVE  Core' /\ Orderly /\ Kind
<1>1. PICK lk \in [Resources -> JobIds \cup {NoJob}] :
        /\ LoadedLocks(lk)
        /\ lock' = lk
        /\ stripped' = {p \in Active(job) \X Resources : p[2] \in job[p[1]].res /\ lk[p[2]] # p[1]}
  BY DEF Restart
<1>2. \A j \in JobIds : job[j].state = "Hidden" =>
        [job[j] EXCEPT !.timer = 0] \in Job /\ [job[j] EXCEPT !.timer = 0].state = "Hidden"
        /\ [job[j] EXCEPT !.timer = 0].res = job[j].res
        /\ [job[j] EXCEPT !.timer = 0].fails = job[j].fails
  BY DEF Core, Job
<1>3. /\ job' \in [JobIds -> Job]
      /\ \A j \in JobIds : /\ job'[j].state = job[j].state /\ job'[j].res = job[j].res
                           /\ job'[j].fails = job[j].fails
                           /\ job[j].state # "Hidden" => job'[j] = job[j]
  BY <1>2 DEF Restart, Core
<1>4. Active(job') = Active(job)
  BY <1>3 DEF Active
<1>5. OneContainer' /\ PendingAreDue(job')
  BY <1>3 DEF Restart, Core, OneContainer, PendingAreDue, InState
<1>6. \A r \in Resources :
        lk[r] # NoJob => lk[r] \in Active(job) /\ r \in job[lk[r]].res
  BY <1>1 DEF LoadedLocks, Claimants
<1>7. LocksOwned(lock', job')
  BY <1>1, <1>3, <1>4, <1>6 DEF LocksOwned, Active
<1>8. HoldsAll(lock', job', stripped')
  <2> SUFFICES ASSUME NEW j \in Active(job'), NEW r \in job'[j].res
               PROVE  lock'[r] = j \/ <<j, r>> \in stripped'
    BY DEF HoldsAll
  <2>1. j \in Active(job) /\ r \in job[j].res /\ r \in Resources
    BY <1>3, <1>4 DEF Active, Core, Job
  <2> QED
    BY <2>1, <1>1
<1>9. Blocked(lock', job', pending')
  <2> SUFFICES ASSUME NEW j \in pending'
               PROVE  ~Available(lock', job', j)
    BY DEF Blocked
  <2>1. j \in JobIds /\ j \in pending /\ job'[j].res = job[j].res /\ job[j].state = "Pending"
    BY <1>3 DEF Restart, Core, OneContainer, InState
  <2>2. PICK r \in job[j].res : lock[r] \notin {NoJob, j}
    BY <2>1 DEF Core, Blocked, Available
  <2>3. r \in Resources
    BY <2>1, <2>2 DEF Core, Job
  <2>4. lock[r] \in Claimants(r)
    BY <2>2, <2>3 DEF Core, LocksOwned, Claimants
  <2>5. lk[r] \in Claimants(r)
    BY <2>3, <2>4, <1>1 DEF LoadedLocks
  <2>6. lk[r] # j /\ lk[r] # NoJob
    BY <2>1, <2>5, ConstantFacts DEF Claimants, Active
  <2> QED
    BY <2>1, <2>2, <2>6, <1>1 DEF Available
<1>10. stripped' \subseteq JobIds \X Resources
  BY <1>1 DEF Active
<1>11. Core'
  BY <1>1, <1>3, <1>5, <1>7, <1>8, <1>9, <1>10 DEF Core, JobLock
<1> QED
  <2>1. \A p \in stripped' : p[1] \in Active(job) /\ p[2] \in job[p[1]].res
    BY <1>1
  <2> QED
    BY <1>3, <1>11, <2>1, SameStates

-----------------------------------------------------------------------------
(* The inductive invariant.                                                 *)

Passes == {"none", "deleteQueued", "retention", "visibility"}

\* Ids from nextId on were never used.
Fresh == \A j \in JobIds : j >= nextId => job[j].state = "NoState"

IInv ==
  /\ Core
  /\ nextId \in 1 .. MaxJobId + 1
  /\ pass \in Passes
  /\ todo \subseteq JobIds
  /\ Fresh

LEMMA InitIInv == Init => IInv
<1> SUFFICES ASSUME Init PROVE IInv
  OBVIOUS
<1>1. \A j \in JobIds : job[j] = Absent
  BY DEF Init
<1>2. job \in [JobIds -> Job] /\ lock \in [Resources -> JobLock]
  BY AbsentRecord DEF Init, JobLock
<1>3. OneContainer /\ PendingAreDue(job) /\ Active(job) = {} /\ Fresh
  BY <1>1, AbsentRecord DEF Init, OneContainer, PendingAreDue, InState, Active, Fresh
<1>4. LocksOwned(lock, job) /\ HoldsAll(lock, job, stripped) /\ Blocked(lock, job, pending)
  BY <1>3 DEF Init, LocksOwned, HoldsAll, Blocked
<1>5. nextId \in 1 .. MaxJobId + 1
  BY ConstantFacts DEF Init
<1> QED
  BY <1>2, <1>3, <1>4, <1>5 DEF Init, IInv, Core, Passes

\* Either no id is used, or id nextId is.
Creates ==
  /\ nextId \in JobIds /\ nextId' = nextId + 1 /\ job[nextId].state = "NoState"
  /\ job'[nextId].state \in Waiting \cup {"Queued"} /\ job'[nextId].fails = 0
  /\ OthersPromoted(nextId) /\ stripped' = stripped
  /\ BelowLimits /\ Orderly
Keeps == Kind /\ Orderly /\ nextId' = nextId

LEMMA UnchangedKeeps ==
  ASSUME Core, UNCHANGED <<job, pending, queued, retry, delayed, lock, stripped>>
  PROVE  Core' /\ Orderly /\ Kind
<1>1. Core'
  BY DEF Core, OneContainer, InState
<1>2. Orderly /\ Kind
  BY SameStates
<1> QED
  BY <1>1, <1>2

LEMMA ClientKeeps ==
  ASSUME IInv, ClientStep
  PROVE  Core' /\ (Creates \/ Keeps) /\ pass' \in Passes /\ todo' \subseteq JobIds
<1>1. Core /\ pass \in Passes /\ todo \subseteq JobIds
  BY DEF IInv
<1>2. ASSUME NEW new \in Job, NEW wait \in Nat, new.timer = 0, new.fails = 0,
             BelowLimits, FinalizeJobCreation(new, wait)
      PROVE  Core' /\ Creates /\ pass' \in Passes /\ todo' \subseteq JobIds
  <2>1. nextId \in JobIds /\ nextId' = nextId + 1 /\ pass' = pass /\ todo' = todo
    BY <1>2 DEF FinalizeJobCreation, passVars
  <2>2. job[nextId].state = "NoState"
    BY <2>1, ConstantFacts DEF IInv, Fresh
  <2>3. /\ Core' /\ Orderly /\ OthersPromoted(nextId) /\ stripped' = stripped
        /\ job'[nextId].state \in Waiting \cup {"Queued"} /\ job'[nextId].fails = 0
    BY <1>1, <1>2, <2>1, <2>2, CreateKeeps
  <2> QED
    BY <1>1, <1>2, <2>1, <2>2, <2>3 DEF Creates
<1>3. ASSUME NEW rq \in Requests, CreateJob(rq)
      PROVE  Core' /\ Creates /\ pass' \in Passes /\ todo' \subseteq JobIds
  <2>1. /\ NewJob(rq) \in Job /\ rq.delay \in Nat
        /\ NewJob(rq).timer = 0 /\ NewJob(rq).fails = 0
    BY NewJobRecord DEF NewJob
  <2>2. BelowLimits /\ FinalizeJobCreation(NewJob(rq), rq.delay)
    BY <1>3 DEF CreateJob
  <2> QED
    BY <1>2, <2>1, <2>2
<1>4. ASSUME NEW j \in JobIds, CloneJob(j)
      PROVE  Core' /\ Creates /\ pass' \in Passes /\ todo' \subseteq JobIds
  <2> DEFINE wait == IF job[j].state = "Delayed" THEN job[j].timer ELSE 0
  <2>1. job[j] \in Job
    BY <1>1 DEF Core
  <2>2. wait \in Nat
    BY <2>1 DEF Job
  <2>3. /\ NewJob(job[j]) \in Job
        /\ NewJob(job[j]).timer = 0 /\ NewJob(job[j]).fails = 0
    BY <2>1, NewJobRecord DEF NewJob
  <2>4. BelowLimits /\ FinalizeJobCreation(NewJob(job[j]), wait)
    BY <1>4 DEF CloneJob
  <2> QED
    BY <1>2, <2>2, <2>3, <2>4
<1>5. ASSUME NEW j \in JobIds, DeleteJob(j)
      PROVE  Core' /\ Keeps /\ pass' \in Passes /\ todo' \subseteq JobIds
  BY <1>1, <1>5, RemoveKeeps DEF DeleteJob, RemoveJob, Keeps, passVars
<1>6. ASSUME DeleteQueuedJobs
      PROVE  Core' /\ Keeps /\ pass' \in Passes /\ todo' \subseteq JobIds
  <2>1. /\ UNCHANGED <<job, nextId, pending, queued, retry, delayed, lock, stripped>>
        /\ pass' = "deleteQueued" /\ todo' \subseteq JobIds
    BY <1>6 DEF DeleteQueuedJobs, BeginPass, jobsVars, queueVars
  <2> QED
    BY <1>1, <2>1, UnchangedKeeps DEF Keeps, Passes
<1>7. ASSUME DeleteAllJobs
      PROVE  Core' /\ Keeps /\ pass' \in Passes /\ todo' \subseteq JobIds
  BY <1>1, <1>7, DeleteAllKeeps DEF DeleteAllJobs, Keeps, passVars
<1> QED
  BY <1>3, <1>4, <1>5, <1>6, <1>7 DEF ClientStep

LEMMA WorkerKeeps ==
  ASSUME IInv, WorkerStep
  PROVE  Core' /\ Keeps /\ pass' \in Passes /\ todo' \subseteq JobIds
<1>1. Core /\ pass \in Passes /\ todo \subseteq JobIds
  BY DEF IInv
<1>2. \A v \in Visibilities : v \in Nat
  BY SchedulerAssumption DEF Visibilities
<1>3. ASSUME NEW t, NEW n, NEW v \in Visibilities, PullJobs(t, n, v)
      PROVE  Core' /\ Keeps /\ pass' = pass /\ todo' = todo
  BY <1>1, <1>2, <1>3, StartKeeps DEF PullJobs, StartJobs, Keeps, passVars
<1>4. ASSUME NEW j \in JobIds, NEW v \in Visibilities, PullSpecificJob(j, v)
      PROVE  Core' /\ Keeps /\ pass' = pass /\ todo' = todo
  <2>1. {j} \in SUBSET queued /\ StartJobs({j}, v)
    BY <1>1, <1>4 DEF PullSpecificJob, Core, OneContainer, InState
  <2>2. Core' /\ Orderly /\ Kind
    BY <1>1, <1>2, <2>1, StartKeeps
  <2> QED
    BY <2>1, <2>2 DEF StartJobs, Keeps, passVars
<1>5. ASSUME NEW j \in JobIds, NEW v \in Visibilities, ChangeVisibilityTimeout(j, v)
      PROVE  Core' /\ Keeps /\ pass' = pass /\ todo' = todo
  BY <1>1, <1>2, <1>5, ChangeVisibilityKeeps DEF ChangeVisibilityTimeout, Keeps, passVars
<1>6. ASSUME NEW j \in JobIds, SetJobAsSuccessful(j)
      PROVE  Core' /\ Keeps /\ pass' = pass /\ todo' = todo
  BY <1>1, <1>6, SuccessKeeps DEF SetJobAsSuccessful, Keeps, passVars
<1>7. ASSUME NEW j \in JobIds, CancelJob(j)
      PROVE  Core' /\ Keeps /\ pass' = pass /\ todo' = todo
  BY <1>1, <1>7, CancelKeeps DEF CancelJob, Keeps, passVars
<1>8. ASSUME NEW j \in JobIds, FailJob(j)
      PROVE  Core' /\ Keeps /\ pass' = pass /\ todo' = todo
  <2>1. FailRunningJob(j) /\ pass' = pass /\ todo' = todo
    BY <1>8 DEF FailJob, passVars
  <2>2. nextId' = nextId
    BY <2>1 DEF FailRunningJob, Terminate, RetryNow, RetryLater
  <2> QED
    BY <1>1, <2>1, <2>2, FailKeeps DEF Keeps
<1> QED
  BY <1>1, <1>3, <1>4, <1>5, <1>6, <1>7, <1>8 DEF WorkerStep

LEMMA AdminKeeps ==
  ASSUME IInv, AdminStep
  PROVE  Core' /\ Keeps /\ pass' \in Passes /\ todo' \subseteq JobIds
<1>1. Core /\ pass \in Passes /\ todo \subseteq JobIds
  BY DEF IInv
<1>2. ASSUME NEW r \in Resources, UnlockResource(r)
      PROVE  Core' /\ Keeps /\ pass' = pass /\ todo' = todo
  BY <1>1, <1>2, UnlockResourceKeeps DEF UnlockResource, Keeps, passVars
<1>3. ASSUME UnlockAllResources
      PROVE  Core' /\ Keeps /\ pass' = pass /\ todo' = todo
  BY <1>1, <1>3, UnlockAllKeeps DEF UnlockAllResources, Keeps, passVars
<1>4. ASSUME Restart
      PROVE  Core' /\ Keeps /\ pass' = pass /\ todo' = todo
  BY <1>1, <1>4, RestartKeeps DEF Restart, Keeps, passVars
<1> QED
  BY <1>1, <1>2, <1>3, <1>4 DEF AdminStep

LEMMA LoopKeeps ==
  ASSUME IInv, TickerStep \/ PassStep \/ Tick
  PROVE  Core' /\ Keeps /\ pass' \in Passes /\ todo' \subseteq JobIds
<1>1. Core /\ pass \in Passes /\ todo \subseteq JobIds
  BY DEF IInv
<1>2. ASSUME TryEnqueuePendingJobs
      PROVE  Core' /\ Keeps /\ pass' \in Passes /\ todo' \subseteq JobIds
  BY <1>1, <1>2, ServeKeeps DEF TryEnqueuePendingJobs, Keeps, passVars
<1>3. ASSUME AttemptJobRetries
      PROVE  Core' /\ Keeps /\ pass' \in Passes /\ todo' \subseteq JobIds
  BY <1>1, <1>3, RetriesKeep DEF AttemptJobRetries, Keeps, passVars
<1>4. ASSUME CheckDelayedJobs
      PROVE  Core' /\ Keeps /\ pass' \in Passes /\ todo' \subseteq JobIds
  BY <1>1, <1>4, DelayedKeeps DEF CheckDelayedJobs, Keeps, passVars
<1>5. ASSUME NEW name \in Passes, NEW jobs \in SUBSET JobIds, BeginPass(name, jobs)
      PROVE  Core' /\ Keeps /\ pass' \in Passes /\ todo' \subseteq JobIds
  <2>1. /\ UNCHANGED <<job, nextId, pending, queued, retry, delayed, lock, stripped>>
        /\ pass' \in Passes /\ todo' \subseteq JobIds
    BY <1>5 DEF BeginPass, jobsVars, queueVars
  <2> QED
    BY <1>1, <2>1, UnchangedKeeps DEF Keeps
<1>6. ASSUME CheckJobsVisibilityTimeout
      PROVE  Core' /\ Keeps /\ pass' \in Passes /\ todo' \subseteq JobIds
  <2>1. RunningForTooLong \in SUBSET JobIds
    BY DEF RunningForTooLong
  <2> QED
    BY <1>5, <1>6, <2>1 DEF CheckJobsVisibilityTimeout, Passes
<1>7. ASSUME CheckJobsRetention
      PROVE  Core' /\ Keeps /\ pass' \in Passes /\ todo' \subseteq JobIds
  BY <1>5, <1>7 DEF CheckJobsRetention, Passes
<1>8. ASSUME NEW j \in JobIds, RemoveJob(j), NEW name \in Passes, EndPassWhenDone(name, todo \ {j})
      PROVE  Core' /\ Keeps /\ pass' \in Passes /\ todo' \subseteq JobIds
  <2>1. pass' \in Passes /\ todo' \subseteq JobIds
    BY <1>1, <1>8 DEF EndPassWhenDone, Passes
  <2> QED
    BY <1>1, <1>8, <2>1, RemoveKeeps DEF RemoveJob, Keeps
<1>9. ASSUME NEW j \in JobIds, DeleteQueuedStep(j) \/ RetentionStep(j)
      PROVE  Core' /\ Keeps /\ pass' \in Passes /\ todo' \subseteq JobIds
  BY <1>8, <1>9 DEF DeleteQueuedStep, RetentionStep, Passes
<1>10. ASSUME NEW j \in JobIds, VisibilityStep(j)
       PROVE  Core' /\ Keeps /\ pass' \in Passes /\ todo' \subseteq JobIds
  <2>1. FailRunningJob(j) /\ pass' = pass /\ todo' = todo \ {j}
    BY <1>10 DEF VisibilityStep
  <2>2. nextId' = nextId
    BY <2>1 DEF FailRunningJob, Terminate, RetryNow, RetryLater
  <2> QED
    BY <1>1, <2>1, <2>2, FailKeeps DEF Keeps
<1>11. ASSUME EndVisibilityPass
       PROVE  Core' /\ Keeps /\ pass' \in Passes /\ todo' \subseteq JobIds
  BY <1>1, <1>11, ServeKeeps DEF EndVisibilityPass, Keeps, Passes
<1>12. ASSUME Tick
       PROVE  Core' /\ Keeps /\ pass' \in Passes /\ todo' \subseteq JobIds
  BY <1>1, <1>12, TickKeeps DEF Tick, Keeps, passVars
<1> QED
  BY <1>2, <1>3, <1>4, <1>6, <1>7, <1>9, <1>10, <1>11, <1>12 DEF TickerStep, PassStep

\* The body of CompletedIsFinal.
Final ==
  \A j \in JobIds :
    /\ job[j].state \in {"Succeeded", "Failed"} => job'[j].state \in {job[j].state, "NoState"}
    /\ job[j].state = "NoState" /\ j < nextId => job'[j].state = "NoState"

LEMMA KindIsFinal ==
  ASSUME Kind
  PROVE  \A j \in JobIds :
           /\ job[j].state = "NoState" => job'[j].state = "NoState"
           /\ job[j].state \in {"Succeeded", "Failed"} => job'[j].state \in {job[j].state, "NoState"}
<1>1. CASE \E j \in JobIds : Ends(j)
  BY <1>1 DEF Ends, OthersPromoted, Promoted
<1>2. CASE \E S \in SUBSET JobIds : Removes(S)
  BY <1>2, AbsentRecord DEF Removes, Promoted
<1>3. CASE \E S \in SUBSET JobIds : Starts(S)
  BY <1>3 DEF Starts
<1>4. CASE Offers
  BY <1>4 DEF Offers, Waiting
<1> QED
  BY <1>1, <1>2, <1>3, <1>4 DEF Kind

LEMMA NextKeeps ==
  ASSUME IInv, [Next]_vars
  PROVE  IInv' /\ Final /\ Orderly /\ (Creates \/ Keeps)
<1>1. CASE UNCHANGED vars
  BY <1>1, UnchangedKeeps DEF vars, IInv, Fresh, Final, Keeps
<1>2. CASE Next
  <2>1. Core' /\ (Creates \/ Keeps) /\ pass' \in Passes /\ todo' \subseteq JobIds
    BY <1>2, ClientKeeps, WorkerKeeps, AdminKeeps, LoopKeeps DEF Next
  <2>2. nextId \in 1 .. MaxJobId + 1 /\ Fresh
    BY DEF IInv
  <2>3. CASE Keeps
    BY <2>1, <2>2, <2>3, KindIsFinal DEF Keeps, IInv, Fresh, Final
  <2>4. CASE Creates
    <3>1. nextId \in JobIds /\ nextId' = nextId + 1 /\ job[nextId].state = "NoState"
      BY <2>4 DEF Creates
    <3>2. \A j \in JobIds \ {nextId} : Promoted(job[j], job'[j])
      BY <2>4 DEF Creates, OthersPromoted
    <3>3. nextId' \in 1 .. MaxJobId + 1
      BY <3>1, ConstantFacts DEF JobIds
    <3>4. Fresh'
      <4> SUFFICES ASSUME NEW j \in JobIds, j >= nextId'
                   PROVE  job'[j].state = "NoState"
        BY DEF Fresh
      <4>1. j # nextId /\ j >= nextId
        BY <2>2, <3>1, ConstantFacts
      <4> QED
        BY <2>2, <3>2, <4>1 DEF Fresh, Promoted
    <3>5. Final
      BY <3>1, <3>2, ConstantFacts DEF Final, Promoted
    <3> QED
      BY <2>1, <2>4, <3>3, <3>4, <3>5 DEF IInv, Creates
  <2> QED
    BY <2>1, <2>3, <2>4
<1> QED
  BY <1>1, <1>2

\* Every reachable state of the scheduler satisfies the inductive invariant.
THEOREM Invariance == Spec => []IInv
<1>1. IInv /\ [Next]_vars => IInv'
  BY NextKeeps
<1> QED
  BY <1>1, InitIInv, PTL DEF Spec

\* The shape of the scheduler's state.
THEOREM TypeCorrect == Spec => []TypeOK
<1>1. IInv => TypeOK
  BY DEF IInv, Core, OneContainer, InState, JobLock, Passes, TypeOK
<1> QED
  BY <1>1, Invariance, PTL

\* No handler loses a job or leaves it in a queue that is not the one of its state.
THEOREM ContainersAgree == Spec => []OneContainer
<1>1. IInv => OneContainer
  BY DEF IInv, Core
<1> QED
  BY <1>1, Invariance, PTL

\* Every locked resource belongs to a queued or running job that asked for it, and such a
\* job holds each of its resources unless the admin API took it away.
THEOREM LocksAgree == Spec => []LocksMatchJobs
<1>1. IInv => LocksMatchJobs
  BY DEF IInv, Core, LocksOwned, LocksHaveActiveOwners, HoldsAll, HoldsItsResources, LocksMatchJobs
<1> QED
  BY <1>1, Invariance, PTL

\* The locks exclude: a resource is held by one job at a time.
LEMMA LocksExclude == IInv => ExclusiveUse
<1> SUFFICES ASSUME IInv,
                    NEW i \in Active(job), NEW k \in Active(job),
                    NEW r \in job[i].res \cap job[k].res, i # k
             PROVE  <<i, r>> \in stripped \/ <<k, r>> \in stripped
  BY DEF ExclusiveUse
<1>1. lock[r] = i \/ <<i, r>> \in stripped
  BY DEF IInv, Core, HoldsAll
<1>2. lock[r] = k \/ <<k, r>> \in stripped
  BY DEF IInv, Core, HoldsAll
<1> QED
  BY <1>1, <1>2

\* Two jobs that need the same resource are never queued or running together, unless
\* the admin API took it away from one of them.
THEOREM MutualExclusion == Spec => []ExclusiveUse
  BY LocksExclude, Invariance, PTL

\* No pending job is left behind: a job stays pending only because another job holds
\* one of its resources.
THEOREM NoneLeftBehind == Spec => []PendingIsBlocked
<1>1. IInv => PendingIsBlocked
  BY DEF IInv, Core, Blocked, PendingIsBlocked
<1> QED
  BY <1>1, Invariance, PTL

\* A completed job never runs again and a deleted job does not come back.
THEOREM CompletionIsFinal == Spec => CompletedIsFinal
<1>1. IInv /\ [Next]_vars => [Final]_vars
  BY NextKeeps
<1>2. [][Final]_vars => CompletedIsFinal
  <2>1. [Final]_vars =>
          [\A j \in JobIds :
             /\ job[j].state \in {"Succeeded", "Failed"} => job'[j].state \in {job[j].state, "NoState"}
             /\ job[j].state = "NoState" /\ j < nextId => job'[j].state = "NoState"]_vars
    BY DEF Final
  <2> QED
    BY <2>1, PTL DEF CompletedIsFinal
<1> QED
  BY <1>1, <1>2, Invariance, PTL DEF Spec

\* A pending job that gets its resources passes no pending job ahead of it, unless that one
\* is kept back by another job: the walk of tryEnqueuePendingJobsLocked follows the queue order.
THEOREM NoneOvertaken == Spec => NoOvertaking
<1>1. IInv /\ [Next]_vars => [Orderly]_vars
  BY NextKeeps
<1>2. [][Orderly]_vars => NoOvertaking
  <2>1. [Orderly]_vars =>
          [\A j, k \in pending :
             /\ Precedes(job, j, k) /\ Conflict(job, j, k)
             /\ job'[k].state = "Queued" /\ job'[j].state = "Pending"
             => \E r \in job[j].res : lock'[r] \notin {NoJob, j, k}]_vars
    BY DEF Orderly
  <2> QED
    BY <2>1, PTL DEF NoOvertaking
<1> QED
  BY <1>1, <1>2, Invariance, PTL DEF Spec

-----------------------------------------------------------------------------
(* The books of the scheduler: what follows from the kinds of steps alone.   *)

\* Only the active jobs are exempt from the exclusion, for resources they asked for.
Exemptions == \A p \in stripped : p[1] \in Active(job) /\ p[2] \in job[p[1]].res

\* A job that does not exist needs nothing.
GoneNeedNothing == \A j \in JobIds : job[j].state = "NoState" => job[j].res = {}

LEMMA MaxFacts ==
  /\ MaxRetry \in Nat /\ Max2(1, MaxRetry) \in Nat /\ Max2(1, MaxRetry) >= 1
  /\ Max2(1, MaxRetry) >= MaxRetry
  /\ \A n \in Nat : n >= 1 /\ n >= MaxRetry <=> n >= Max2(1, MaxRetry)
BY SchedulerAssumption DEF Max2

\* The record of one job, whatever else happens.
InBudget(rec) ==
  /\ rec.state \notin {"NoState", "Succeeded", "Failed"} => rec.fails < Max2(1, MaxRetry)
  /\ rec.state = "Failed" => rec.fails = Max2(1, MaxRetry)

LEMMA PromotedInBudget ==
  ASSUME NEW before, NEW after, Promoted(before, after), InBudget(before)
  PROVE  InBudget(after)
BY DEF Promoted, InBudget

LEMMA BudgetStep ==
  ASSUME IInv, RetryBudget, Creates \/ Keeps
  PROVE  RetryBudget'
<1>1. \A j \in JobIds : InBudget(job[j]) /\ job[j].fails \in Nat
  BY DEF RetryBudget, InBudget, IInv, Core, Job
<1>2. SUFFICES ASSUME NEW j \in JobIds
               PROVE  InBudget(job'[j])
  BY DEF RetryBudget, InBudget
<1>3. CASE Creates
  <2>1. CASE j = nextId
    BY <2>1, <1>3, MaxFacts DEF Creates, InBudget, Waiting
  <2>2. CASE j # nextId
    BY <2>2, <1>1, <1>3, PromotedInBudget DEF Creates, OthersPromoted
  <2> QED
    BY <2>1, <2>2
<1>4. ASSUME NEW i \in JobIds, Ends(i)
      PROVE  InBudget(job'[j])
  <2>1. CASE j = i
    <3>1. job[j].fails < Max2(1, MaxRetry) /\ job[j].fails \in Nat
      BY <1>1, <1>4, <2>1 DEF Ends, InBudget
    <3>2. CASE job'[j].state \in {"Succeeded", "Queued"} /\ job'[j].fails = job[j].fails
      BY <3>1, <3>2 DEF InBudget
    <3>3. CASE /\ job'[j].state = "Failed"
               /\ job'[j].fails = job[j].fails + 1 /\ job'[j].fails >= MaxRetry
      <4>1. job'[j].fails = Max2(1, MaxRetry)
        BY <3>1, <3>3, MaxFacts
      <4> QED
        BY <4>1, <3>3 DEF InBudget
    <3>4. CASE /\ job'[j].state \in {"Queued", "Hidden"}
               /\ job'[j].fails = job[j].fails + 1 /\ job'[j].fails < MaxRetry
      <4>1. job'[j].fails < Max2(1, MaxRetry)
        BY <3>1, <3>4, MaxFacts
      <4> QED
        BY <4>1, <3>4 DEF InBudget
    <3> QED
      BY <1>4, <2>1, <3>2, <3>3, <3>4 DEF Ends
  <2>2. CASE j # i
    BY <2>2, <1>1, <1>4, PromotedInBudget DEF Ends, OthersPromoted
  <2> QED
    BY <2>1, <2>2
<1>5. ASSUME NEW S \in SUBSET JobIds, Removes(S)
      PROVE  InBudget(job'[j])
  <2>1. InBudget(Absent)
    BY AbsentRecord DEF InBudget
  <2> QED
    BY <2>1, <1>1, <1>5, PromotedInBudget DEF Removes
<1>6. ASSUME NEW S \in SUBSET JobIds, Starts(S)
      PROVE  InBudget(job'[j])
  BY <1>1, <1>6 DEF Starts, InBudget
<1>7. CASE Offers
  BY <1>1, <1>7 DEF Offers, InBudget, Waiting
<1> QED
  BY <1>3, <1>4, <1>5, <1>6, <1>7 DEF Keeps, Kind

LEMMA FiniteLive ==
  ASSUME NEW S \in SUBSET JobIds
  PROVE  IsFiniteSet(S) /\ Cardinality(S) \in Nat
<1>1. IsFiniteSet(JobIds)
  BY SchedulerAssumption, FS_Interval DEF JobIds
<1> QED
  BY <1>1, FS_Subset, FS_CardinalityType

LEMMA LimitsStep ==
  ASSUME IInv, LimitsHold, Creates \/ Keeps
  PROVE  LimitsHold'
<1>1. Live(job) \in SUBSET JobIds /\ Live(job') \in SUBSET JobIds
  BY DEF Live
<1>2. /\ IsFiniteSet(Live(job)) /\ Cardinality(Live(job)) \in Nat
      /\ Cardinality(Live(job')) \in Nat
  BY <1>1, FiniteLive
<1>3. MaxAllowedJobs \in Nat /\ BackendMaxJobs \in Nat
  BY SchedulerAssumption
<1>4. CASE Keeps
  <2>1. Live(job') \subseteq Live(job)
    BY <1>4, KindIsFinal DEF Keeps, Live
  <2>2. Cardinality(Live(job')) <= Cardinality(Live(job))
    BY <2>1, <1>2, FS_Subset
  <2> QED
    BY <1>2, <1>3, <2>2 DEF LimitsHold
<1>5. CASE Creates
  <2>1. Live(job') \subseteq Live(job) \cup {nextId}
    BY <1>5 DEF Creates, OthersPromoted, Promoted, Live
  <2>2. /\ IsFiniteSet(Live(job) \cup {nextId})
        /\ Cardinality(Live(job) \cup {nextId}) <= Cardinality(Live(job)) + 1
        /\ Cardinality(Live(job) \cup {nextId}) \in Nat
    <3> DEFINE L == Live(job)
    <3>1. IsFiniteSet(L) /\ Cardinality(L) \in Nat
      BY <1>2
    <3> HIDE DEF L
    <3>2. /\ IsFiniteSet(L \cup {nextId})
          /\ Cardinality(L \cup {nextId})
               = IF nextId \in L THEN Cardinality(L) ELSE Cardinality(L) + 1
      BY <3>1, FS_AddElement
    <3>3. /\ Cardinality(L \cup {nextId}) <= Cardinality(L) + 1
          /\ Cardinality(L \cup {nextId}) \in Nat
      BY <3>1, <3>2
    <3> QED
      BY <3>2, <3>3 DEF L
  <2>3. Cardinality(Live(job')) <= Cardinality(Live(job) \cup {nextId})
    BY <2>1, <2>2, FS_Subset
  <2>4. Cardinality(Live(job')) <= Cardinality(Live(job)) + 1
    BY <1>2, <2>2, <2>3
  <2>5. BelowLimits
    BY <1>5 DEF Creates
  <2> QED
    BY <1>2, <1>3, <2>4, <2>5 DEF BelowLimits, LimitsHold
<1> QED
  BY <1>4, <1>5

LEMMA ExemptionsStep ==
  ASSUME IInv, Exemptions, Creates \/ Keeps
  PROVE  Exemptions'
<1> SUFFICES ASSUME NEW p \in stripped'
             PROVE  p[1] \in Active(job') /\ p[2] \in job'[p[1]].res
  BY DEF Exemptions
<1>1. \A j \in JobIds : Promoted(job[j], job'[j]) /\ j \in Active(job)
        => j \in Active(job') /\ job'[j].res = job[j].res
  BY DEF Promoted, Active
<1>2. Active(job) \subseteq JobIds
  BY DEF Active
<1>3. CASE Creates
  BY <1>1, <1>2, <1>3 DEF Creates, OthersPromoted, Exemptions, Active
<1>4. ASSUME NEW j \in JobIds, Ends(j)
      PROVE  p[1] \in Active(job') /\ p[2] \in job'[p[1]].res
  <2>1. /\ p \in stripped /\ p[1] \in Active(job) /\ p[2] \in job[p[1]].res
        /\ p[1] # j \/ (stripped' = stripped /\ job'[j].state = "Queued")
    BY <1>4 DEF Ends, NotStripped, Exemptions
  <2>2. CASE p[1] = j
    <3>1. job'[j].state = "Queued" /\ job'[j].res = job[j].res
      BY <1>4, <2>1, <2>2 DEF Ends
    <3> QED
      BY <2>1, <2>2, <3>1 DEF Active
  <2>3. CASE p[1] # j
    BY <1>1, <1>2, <1>4, <2>1, <2>3 DEF Ends, OthersPromoted
  <2> QED
    BY <2>2, <2>3
<1>5. ASSUME NEW S \in SUBSET JobIds, Removes(S)
      PROVE  p[1] \in Active(job') /\ p[2] \in job'[p[1]].res
  BY <1>1, <1>2, <1>5 DEF Removes, Exemptions
<1>6. ASSUME NEW S \in SUBSET JobIds, Starts(S)
      PROVE  p[1] \in Active(job') /\ p[2] \in job'[p[1]].res
  BY <1>2, <1>6 DEF Starts, Exemptions, Active
<1>7. CASE Offers
  <2>1. p[1] \in Active(job) /\ p[2] \in job[p[1]].res
    BY <1>7 DEF Offers, Exemptions
  <2> QED
    BY <1>7, <2>1 DEF Offers, Active, Waiting
<1> QED
  BY <1>3, <1>4, <1>5, <1>6, <1>7 DEF Keeps, Kind

LEMMA GoneStep ==
  ASSUME IInv, GoneNeedNothing, Creates \/ Keeps
  PROVE  GoneNeedNothing'
<1>1. ASSUME NEW j \in JobIds, Promoted(job[j], job'[j]), job'[j].state = "NoState"
      PROVE  job'[j].res = {}
  BY <1>1 DEF Promoted, GoneNeedNothing
<1>2. CASE Creates
  BY <1>1, <1>2 DEF Creates, OthersPromoted, GoneNeedNothing, Waiting
<1>3. CASE \E j \in JobIds : Ends(j)
  BY <1>1, <1>3 DEF Ends, OthersPromoted, GoneNeedNothing
<1>4. CASE \E S \in SUBSET JobIds : Removes(S)
  BY <1>1, <1>4, AbsentRecord DEF Removes, GoneNeedNothing
<1>5. CASE \E S \in SUBSET JobIds : Starts(S)
  BY <1>5 DEF Starts, GoneNeedNothing
<1>6. CASE Offers
  BY <1>6 DEF Offers, GoneNeedNothing, Waiting
<1> QED
  BY <1>2, <1>3, <1>4, <1>5, <1>6 DEF Keeps, Kind

Books == RetryBudget /\ LimitsHold /\ Exemptions /\ GoneNeedNothing

LEMMA InitBooks == Init => Books
<1> SUFFICES ASSUME Init PROVE Books
  OBVIOUS
<1>1. \A j \in JobIds : job[j] = Absent
  BY DEF Init
<1>2. RetryBudget /\ GoneNeedNothing
  BY <1>1, AbsentRecord DEF RetryBudget, GoneNeedNothing
<1>3. Live(job) = {}
  BY <1>1, AbsentRecord DEF Live
<1>4. LimitsHold
  BY <1>3, FS_EmptySet, SchedulerAssumption DEF LimitsHold
<1> QED
  BY <1>2, <1>4 DEF Init, Books, Exemptions

\* The inductive invariant and the books together.
THEOREM BooksAreKept == Spec => [](IInv /\ Books)
<1>1. IInv /\ Books /\ [Next]_vars => IInv' /\ Books'
  BY NextKeeps, BudgetStep, LimitsStep, ExemptionsStep, GoneStep DEF Books
<1> QED
  BY <1>1, InitIInv, InitBooks, PTL DEF Spec

\* A job that can still run has retries left and a failed one used them all: failJobLocked
\* never terminates a job too early nor retries it once too often.
THEOREM RetriesAreCounted == Spec => []RetryBudget
<1>1. Books => RetryBudget
  BY DEF Books
<1> QED
  BY <1>1, BooksAreKept, PTL

\* No more jobs exist than the service and its backend allow, however they are created.
THEOREM LimitsAreKept == Spec => []LimitsHold
<1>1. Books => LimitsHold
  BY DEF Books
<1> QED
  BY <1>1, BooksAreKept, PTL

-----------------------------------------------------------------------------
(* The retention.                                                           *)

\* What the list of a retention pass is, at each of its steps: completed jobs, none of
\* them younger than a completed job that is kept.
RetentionList ==
  pass = "retention" =>
    /\ todo \subseteq Completed(job)
    /\ \A i \in todo, k \in Completed(job) \ todo : job[i].age >= job[k].age

\* The body of RetentionDeletesOldest.
OldestGo ==
  \A j \in JobIds :
    pass = "retention" /\ job[j].state # "NoState" /\ job'[j].state = "NoState" =>
      /\ j \in Completed(job)
      /\ \A k \in Completed(job') : job[k].age <= job[j].age

\* The mutex: an operation begins when no pass runs, and a pass goes on alone.
LEMMA PassRunsAlone ==
  ASSUME Next
  PROVE  \/ \E j \in JobIds : RetentionStep(j)
         \/ CheckJobsRetention
         \/ pass # "retention" /\ pass' # "retention"
<1>1. CASE ClientStep
  BY <1>1 DEF ClientStep, CreateJob, CloneJob, DeleteJob, DeleteQueuedJobs, DeleteAllJobs,
              FinalizeJobCreation, BeginPass, Idle, passVars
<1>2. CASE WorkerStep
  BY <1>2 DEF WorkerStep, PullJobs, PullSpecificJob, ChangeVisibilityTimeout,
              SetJobAsSuccessful, CancelJob, FailJob, StartJobs, Idle, passVars
<1>3. CASE AdminStep
  BY <1>3 DEF AdminStep, UnlockResource, UnlockAllResources, Restart, Idle, passVars
<1>4. CASE TickerStep
  BY <1>4 DEF TickerStep, TryEnqueuePendingJobs, AttemptJobRetries, CheckDelayedJobs,
              CheckJobsVisibilityTimeout, BeginPass, Idle, passVars
<1>5. CASE PassStep
  BY <1>5 DEF PassStep, DeleteQueuedStep, VisibilityStep, EndVisibilityPass, EndPassWhenDone
<1>6. CASE Tick
  BY <1>6 DEF Tick, Idle, passVars
<1> QED
  BY <1>1, <1>2, <1>3, <1>4, <1>5, <1>6 DEF Next

LEMMA RetentionKeeps ==
  ASSUME IInv, RetentionList, [Next]_vars
  PROVE  RetentionList' /\ OldestGo
<1>1. CASE UNCHANGED vars
  BY <1>1 DEF vars, RetentionList, OldestGo, Completed
<1>2. CASE pass # "retention" /\ pass' # "retention"
  BY <1>2 DEF RetentionList, OldestGo
<1>3. CASE CheckJobsRetention
  <2>1. PICK V \in SUBSET JobIds : OldestCompleted(V) /\ BeginPass("retention", V)
    BY <1>3 DEF CheckJobsRetention
  <2>2. job' = job /\ todo' = V /\ pass = "none"
    BY <2>1 DEF BeginPass, Idle, jobsVars
  <2>3. /\ V \subseteq Completed(job)
        /\ \A i \in V, k \in Completed(job) \ V : job[i].age >= job[k].age
    BY <2>1 DEF OldestCompleted
  <2> QED
    BY <2>2, <2>3 DEF RetentionList, OldestGo, Completed
<1>4. ASSUME NEW j \in JobIds, RetentionStep(j)
      PROVE  RetentionList' /\ OldestGo
  <2>1. /\ pass = "retention" /\ j \in todo /\ todo' = todo \ {j}
        /\ \A k \in todo : job[j].age >= job[k].age
        /\ RemoveJob(j)
    BY <1>4 DEF RetentionStep, EndPassWhenDone
  <2>2. Removes({j})
    BY <2>1, RemoveKeeps DEF IInv
  <2>3. /\ job'[j].state = "NoState"
        /\ \A i \in JobIds \ {j} : Promoted(job[i], job'[i])
    BY <2>2, AbsentRecord DEF Removes
  <2>4. \A k \in Completed(job') : k \in Completed(job) /\ k # j /\ job'[k] = job[k]
    BY <2>3 DEF Completed, Promoted
  <2>5. \A k \in Completed(job) \ {j} : k \in Completed(job') /\ job'[k] = job[k]
    BY <2>3 DEF Completed, Promoted
  <2>6. /\ todo \subseteq Completed(job)
        /\ \A i \in todo, k \in Completed(job) \ todo : job[i].age >= job[k].age
    BY <2>1 DEF RetentionList
  <2>7. todo' \subseteq Completed(job')
    BY <2>1, <2>5, <2>6
  <2>8. \A i \in todo', k \in Completed(job') \ todo' : job'[i].age >= job'[k].age
    BY <2>1, <2>4, <2>5, <2>6
  <2>9. OldestGo
    <3> SUFFICES ASSUME NEW i \in JobIds, job[i].state # "NoState", job'[i].state = "NoState"
                 PROVE  /\ i \in Completed(job)
                        /\ \A k \in Completed(job') : job[k].age <= job[i].age
      BY DEF OldestGo
    <3>1. i = j
      BY <2>3 DEF Promoted
    <3>2. \A k \in JobIds : job[k].age \in Nat
      BY DEF IInv, Core, Job
    <3>3. ASSUME NEW k \in Completed(job')
          PROVE  job[k].age <= job[j].age
      <4>1. k \in JobIds /\ (k \in todo \/ k \in Completed(job) \ todo)
        BY <2>4 DEF Completed
      <4>2. job[j].age >= job[k].age
        BY <4>1, <2>1, <2>6
      <4> QED
        BY <3>2, <4>1, <4>2
    <3> QED
      BY <3>1, <3>3, <2>1, <2>6
  <2> QED
    BY <2>7, <2>8, <2>9 DEF RetentionList
<1> QED
  BY <1>1, <1>2, <1>3, <1>4, PassRunsAlone

\* Retention deletes completed jobs only, the oldest ones first: deleteOldCompletedJobsLocked
\* works on a list it made beforehand, and each deletion serves pending jobs meanwhile.
THEOREM RetentionTakesTheOldest == Spec => RetentionDeletesOldest
<1>1. Init => RetentionList
  BY DEF Init, RetentionList
<1>2. IInv /\ RetentionList /\ [Next]_vars => RetentionList' /\ [OldestGo]_vars
  BY RetentionKeeps
<1>3. [][OldestGo]_vars => RetentionDeletesOldest
  <2>1. [OldestGo]_vars =>
          [\A j \in JobIds :
             pass = "retention" /\ job[j].state # "NoState" /\ job'[j].state = "NoState" =>
               /\ j \in Completed(job)
               /\ \A k \in Completed(job') : job[k].age <= job[j].age]_vars
    BY DEF OldestGo
  <2> QED
    BY <2>1, PTL DEF RetentionDeletesOldest
<1> QED
  BY <1>1, <1>2, <1>3, Invariance, PTL DEF Spec

-----------------------------------------------------------------------------
(* The scheduler implements JobQueue: each kind of step found above is one  *)
(* of the actions of the abstract queue.                                    *)

\* The phases of the abstract queue, as a function.
PhaseFn == [j \in JobIds |-> PhaseOf(j)]
NeedsFn == [j \in JobIds |-> job[j].res]

\* What the phase of each job says of its state.
PhaseTable ==
  \A j \in JobIds :
    /\ PhaseFn[j] = "waiting" <=> job[j].state \in Waiting
    /\ PhaseFn[j] = "ready" <=> job[j].state = "Queued"
    /\ PhaseFn[j] = "leased" <=> job[j].state = "Running"
    /\ PhaseFn[j] = "done" <=> job[j].state \in {"Succeeded", "Failed", "Canceled"}
    /\ PhaseFn[j] = "gone" <=> job[j].state = "NoState" /\ j < nextId
    /\ PhaseFn[j] = "none" <=> job[j].state = "NoState" /\ ~(j < nextId)
    /\ PhaseFn[j] \in JQ!Phases

LEMMA PhaseMeans == Core => PhaseTable
<1> SUFFICES ASSUME Core, NEW j \in JobIds
             PROVE  /\ PhaseFn[j] = "waiting" <=> job[j].state \in Waiting
                    /\ PhaseFn[j] = "ready" <=> job[j].state = "Queued"
                    /\ PhaseFn[j] = "leased" <=> job[j].state = "Running"
                    /\ PhaseFn[j] = "done" <=> job[j].state \in {"Succeeded", "Failed", "Canceled"}
                    /\ PhaseFn[j] = "gone" <=> job[j].state = "NoState" /\ j < nextId
                    /\ PhaseFn[j] = "none" <=> job[j].state = "NoState" /\ ~(j < nextId)
                    /\ PhaseFn[j] \in JQ!Phases
  BY DEF PhaseTable
<1>1. job[j].state \in JobStates
  BY DEF Core, Job
<1>2. PhaseFn[j] = PhaseOf(j)
  BY DEF PhaseFn
<1>3. CASE job[j].state \in Waiting
  BY <1>2, <1>3 DEF PhaseOf, Waiting, JQ!Phases
<1>4. CASE job[j].state \in {"Queued", "Running"}
  BY <1>2, <1>4 DEF PhaseOf, Waiting, JQ!Phases
<1>5. CASE job[j].state \in {"Succeeded", "Failed", "Canceled"}
  BY <1>2, <1>5 DEF PhaseOf, Waiting, JQ!Phases
<1>6. CASE job[j].state = "NoState"
  BY <1>2, <1>6 DEF PhaseOf, Waiting, JQ!Phases
<1> QED
  BY <1>1, <1>3, <1>4, <1>5, <1>6 DEF JobStates, Waiting

\* The exclusion of the abstract queue is that of the locks.
LEMMA Excludes == IInv => JQ!Exclusive(PhaseFn, NeedsFn, stripped)
<1> SUFFICES ASSUME IInv PROVE JQ!Exclusive(PhaseFn, NeedsFn, stripped)
  OBVIOUS
<1>1. JQ!Owns(PhaseFn) = Active(job)
  <2>1. Core
    BY DEF IInv
  <2>2. \A j \in JobIds : PhaseFn[j] \in {"ready", "leased"} <=> job[j].state \in {"Queued", "Running"}
    BY <2>1, PhaseMeans DEF PhaseTable
  <2> QED
    BY <2>2 DEF JQ!Owns, Active
<1>2. Active(job) \subseteq JobIds
  BY DEF Active
<1> QED
  BY <1>1, <1>2, LocksExclude DEF JQ!Exclusive, ExclusiveUse, NeedsFn

\* The body of JQ!Offer.
Offering(ph) ==
  \E T \in SUBSET {j \in JobIds : ph[j] = "waiting"} :
    /\ PhaseFn' = [j \in JobIds |-> IF j \in T THEN "ready" ELSE ph[j]]
    /\ JQ!Exclusive(PhaseFn, NeedsFn, stripped)'

\* The main change of a step gives the phases ph; the jobs that are served in the same
\* step are those whose phase differs.
LEMMA Offered ==
  ASSUME IInv', NEW ph \in [JobIds -> JQ!Phases],
         \A i \in JobIds : \/ PhaseFn'[i] = ph[i]
                           \/ ph[i] = "waiting" /\ PhaseFn'[i] = "ready"
  PROVE  Offering(ph)
<1> DEFINE T == {i \in JobIds : ph[i] = "waiting" /\ PhaseFn'[i] = "ready"}
<1>1. T \in SUBSET {j \in JobIds : ph[j] = "waiting"}
  OBVIOUS
<1>2. PhaseFn' = [j \in JobIds |-> IF j \in T THEN "ready" ELSE ph[j]]
  BY DEF PhaseFn
<1>3. JQ!Exclusive(PhaseFn, NeedsFn, stripped)'
  BY Excludes, PTL
<1> HIDE DEF T
<1> QED
  BY <1>1, <1>2, <1>3 DEF Offering

\* A job whose state does not change keeps its phase, one that is served is offered.
LEMMA PromotedPhase ==
  ASSUME PhaseTable, PhaseTable', NEW i \in JobIds, i < nextId <=> i < nextId',
         Promoted(job[i], job'[i])
  PROVE  \/ PhaseFn'[i] = PhaseFn[i]
         \/ PhaseFn[i] = "waiting" /\ PhaseFn'[i] = "ready"
<1>1. CASE job'[i] = job[i]
  BY <1>1 DEF PhaseTable, JQ!Phases
<1>2. CASE job[i].state = "Pending" /\ job'[i].state = "Queued"
  BY <1>2 DEF PhaseTable, Waiting
<1> QED
  BY <1>1, <1>2 DEF Promoted

\* CreateJob and CloneJob submit a job.
LEMMA CreatesSubmits ==
  ASSUME IInv, IInv', PhaseTable, PhaseTable', Creates
  PROVE  JQ!JQNext
<1> DEFINE R == job'[nextId].res
           ph == [PhaseFn EXCEPT ![nextId] = "waiting"]
<1>1. /\ nextId \in JobIds /\ nextId' = nextId + 1 /\ stripped' = stripped
      /\ job[nextId].state = "NoState" /\ job'[nextId].state \in Waiting \cup {"Queued"}
      /\ \A i \in JobIds \ {nextId} : Promoted(job[i], job'[i])
  BY DEF Creates, OthersPromoted
<1>2. R \in SUBSET Resources
  BY <1>1 DEF IInv, Core, Job
<1>3. PhaseFn[nextId] = "none"
  <2>1. ~(nextId < nextId)
    BY <1>1, ConstantFacts
  <2> QED
    BY <1>1, <2>1 DEF PhaseTable
<1>4. NeedsFn' = [NeedsFn EXCEPT ![nextId] = R]
  BY <1>1 DEF NeedsFn, Promoted
<1>5. Offering(ph)
  <2>1. \A i \in JobIds \ {nextId} : i < nextId <=> i < nextId'
    BY <1>1, ConstantFacts
  <2>2. ph \in [JobIds -> JQ!Phases]
    BY DEF PhaseTable, PhaseFn, JQ!Phases
  <2>3. \A i \in JobIds \ {nextId} :
          \/ PhaseFn'[i] = ph[i]
          \/ ph[i] = "waiting" /\ PhaseFn'[i] = "ready"
    BY <1>1, <2>1, PromotedPhase DEF PhaseFn
  <2>4. ph[nextId] = "waiting" /\ PhaseFn'[nextId] \in {"waiting", "ready"}
    BY <1>1 DEF PhaseTable, PhaseFn
  <2> HIDE DEF ph
  <2> QED
    BY <2>2, <2>3, <2>4, Offered
<1> HIDE DEF R
<1>6. PICK k \in JobIds : k = nextId
  BY <1>1
<1>7. PICK res \in SUBSET Resources : res = R
  BY <1>2
<1>8. JQ!Submit(k, res)
  BY <1>1, <1>3, <1>4, <1>5, <1>6, <1>7
     DEF JQ!Submit, JQ!Offer, JQ!Exclusive, JQ!Owns, Offering, PhaseFn, NeedsFn
<1> QED
  BY <1>8 DEF JQ!JQNext

\* SetJobAsSuccessful and a job that failed too often finish it, CancelJob and a failure
\* that is retried give it back.
LEMMA EndsFinishes ==
  ASSUME IInv, IInv', PhaseTable, PhaseTable', nextId' = nextId,
         NEW j \in JobIds, Ends(j)
  PROVE  JQ!JQNext
<1>1. /\ job[j].state = "Running" /\ job'[j].res = job[j].res
      /\ job'[j].state \in {"Succeeded", "Failed", "Queued", "Hidden"}
      /\ \A i \in JobIds \ {j} : Promoted(job[i], job'[i])
      /\ stripped' \in SUBSET stripped
  BY DEF Ends, OthersPromoted, NotStripped
<1>2. PhaseFn[j] = "leased"
  BY <1>1 DEF PhaseTable
<1>3. NeedsFn' = NeedsFn
  BY <1>1 DEF NeedsFn, Promoted
<1>4. \A i \in JobIds \ {j} : \/ PhaseFn'[i] = PhaseFn[i]
                              \/ PhaseFn[i] = "waiting" /\ PhaseFn'[i] = "ready"
  BY <1>1, PromotedPhase
<1>5. ASSUME NEW p \in {"done", "waiting"},
             PhaseFn'[j] = p \/ (p = "waiting" /\ PhaseFn'[j] = "ready")
      PROVE  Offering([PhaseFn EXCEPT ![j] = p])
  <2> DEFINE ph == [PhaseFn EXCEPT ![j] = p]
  <2>1. ph \in [JobIds -> JQ!Phases]
    BY DEF PhaseTable, PhaseFn, JQ!Phases
  <2>2. ph[j] = p /\ \A i \in JobIds \ {j} : ph[i] = PhaseFn[i]
    BY DEF PhaseFn
  <2> HIDE DEF ph
  <2>3. Offering(ph)
    BY <1>4, <1>5, <2>1, <2>2, Offered
  <2> QED
    BY <2>3 DEF ph
<1>6. CASE job'[j].state \in {"Succeeded", "Failed"}
  <2>1. PhaseFn'[j] = "done"
    BY <1>6 DEF PhaseTable
  <2>2. JQ!Finish(j)
    BY <1>1, <1>2, <1>3, <1>5, <2>1 DEF JQ!Finish, JQ!Offer, JQ!Exclusive, JQ!Owns, Offering, PhaseFn, NeedsFn
  <2> QED
    BY <2>2 DEF JQ!JQNext
<1>7. CASE job'[j].state \in {"Queued", "Hidden"}
  <2>1. PhaseFn'[j] \in {"waiting", "ready"}
    BY <1>7 DEF PhaseTable, Waiting
  <2>2. JQ!GiveBack(j)
    BY <1>1, <1>2, <1>3, <1>5, <2>1 DEF JQ!GiveBack, JQ!Offer, JQ!Exclusive, JQ!Owns, Offering, PhaseFn, NeedsFn
  <2> QED
    BY <2>2 DEF JQ!JQNext
<1> QED
  BY <1>1, <1>6, <1>7

\* The deletions forget jobs; those that never existed are not concerned.
LEMMA RemovesForgets ==
  ASSUME IInv, IInv', GoneNeedNothing, PhaseTable, PhaseTable', nextId' = nextId,
         NEW S \in SUBSET JobIds, Removes(S)
  PROVE  JQ!JQNext
<1> DEFINE ph == [i \in JobIds |-> IF PhaseFn[i] # "none" /\ i \in S THEN "gone" ELSE PhaseFn[i]]
<1>1. /\ \A i \in S : job'[i].state = "NoState" /\ job'[i].res = {}
      /\ \A i \in JobIds \ S : Promoted(job[i], job'[i])
      /\ stripped' \in SUBSET stripped
  BY AbsentRecord DEF Removes
<1>2. PICK F \in SUBSET JobIds : F = {i \in S : PhaseFn[i] # "none"}
  OBVIOUS
<1>3. NeedsFn' = [i \in JobIds |-> IF i \in F THEN {} ELSE NeedsFn[i]]
  <2>1. \A i \in S \ F : job[i].res = {}
    BY <1>2 DEF PhaseTable, GoneNeedNothing
  <2>2. \A i \in F : NeedsFn'[i] = {}
    BY <1>1, <1>2 DEF NeedsFn
  <2>3. \A i \in JobIds \ F : NeedsFn'[i] = NeedsFn[i]
    BY <1>1, <1>2, <2>1 DEF NeedsFn, Promoted
  <2> QED
    BY <2>2, <2>3 DEF NeedsFn
<1>4. ph = [i \in JobIds |-> IF i \in F THEN "gone" ELSE PhaseFn[i]]
  BY <1>2
<1>5. ph \in [JobIds -> JQ!Phases]
  BY DEF PhaseTable, JQ!Phases
<1>6. \A i \in JobIds \ S : ph[i] = PhaseFn[i]
                            /\ (\/ PhaseFn'[i] = PhaseFn[i]
                                \/ PhaseFn[i] = "waiting" /\ PhaseFn'[i] = "ready")
  BY <1>1, PromotedPhase
<1>7. \A i \in S : PhaseFn'[i] = ph[i]
  <2> SUFFICES ASSUME NEW i \in S
               PROVE  PhaseFn'[i] = ph[i]
    OBVIOUS
  <2>1. CASE PhaseFn[i] = "none"
    BY <1>1, <2>1 DEF PhaseTable
  <2>2. CASE PhaseFn[i] # "none"
    <3>1. i < nextId
      <4>1. CASE job[i].state = "NoState"
        BY <2>2, <4>1 DEF PhaseTable
      <4>2. CASE job[i].state # "NoState"
        <5>1. ~(i >= nextId)
          BY <4>2 DEF IInv, Fresh
        <5>2. i \in Nat /\ nextId \in Int
          BY ConstantFacts DEF IInv
        <5> QED
          BY <5>1, <5>2
      <4> QED
        BY <4>1, <4>2
    <3>2. PhaseFn'[i] = "gone"
      BY <1>1, <3>1 DEF PhaseTable
    <3> QED
      BY <2>2, <3>2
  <2> QED
    BY <2>1, <2>2
<1> HIDE DEF ph
<1>8. Offering(ph)
  BY <1>5, <1>6, <1>7, Offered
<1>9. JQ!Forget(F)
  <2>1. \A i \in F : PhaseFn[i] # "none"
    BY <1>2
  <2>2. Offering([i \in JobIds |-> IF i \in F THEN "gone" ELSE PhaseFn[i]])
    BY <1>4, <1>8
  <2> QED
    BY <1>1, <1>3, <2>1, <2>2
       DEF JQ!Forget, JQ!Offer, JQ!Exclusive, JQ!Owns, Offering, PhaseFn, NeedsFn
<1> QED
  BY <1>9 DEF JQ!JQNext

\* The pulls lease the jobs they start.
LEMMA StartsLeases ==
  ASSUME PhaseTable, PhaseTable', nextId' = nextId, NEW S \in SUBSET JobIds, Starts(S)
  PROVE  JQ!JQNext
<1>1. /\ \A i \in S : PhaseFn[i] = "ready" /\ PhaseFn'[i] = "leased"
      /\ \A i \in JobIds \ S : PhaseFn'[i] = PhaseFn[i]
  <2>1. \A i \in S : PhaseFn[i] = "ready" /\ PhaseFn'[i] = "leased"
    BY DEF Starts, PhaseTable
  <2>2. ASSUME NEW i \in JobIds \ S
        PROVE  PhaseFn'[i] = PhaseFn[i]
    <3>1. job'[i].state = job[i].state
      BY DEF Starts
    <3> QED
      BY <3>1 DEF PhaseTable, JQ!Phases
  <2> QED
    BY <2>1, <2>2
<1>2. PhaseFn' = [i \in JobIds |-> IF i \in S THEN "leased" ELSE PhaseFn[i]]
  BY <1>1 DEF PhaseFn
<1>3. NeedsFn' = NeedsFn /\ stripped' = stripped
  BY DEF NeedsFn, Starts
<1>4. JQ!Lease(S)
  BY <1>1, <1>2, <1>3 DEF JQ!Lease, PhaseFn, NeedsFn
<1> QED
  BY <1>4 DEF JQ!JQNext

\* The tickers, the admin API and a restart offer jobs that waited; the last two also
\* settle who is exempt.
LEMMA OffersServes ==
  ASSUME IInv, IInv', Exemptions, PhaseTable, PhaseTable', nextId' = nextId, Offers
  PROVE  JQ!JQNext
<1>1. NeedsFn' = NeedsFn
  BY DEF NeedsFn, Offers
<1>2. \A i \in JobIds : \/ PhaseFn'[i] = PhaseFn[i]
                        \/ PhaseFn[i] = "waiting" /\ PhaseFn'[i] = "ready"
  <2> SUFFICES ASSUME NEW i \in JobIds
               PROVE  \/ PhaseFn'[i] = PhaseFn[i]
                      \/ PhaseFn[i] = "waiting" /\ PhaseFn'[i] = "ready"
    OBVIOUS
  <2>1. CASE job'[i].state = job[i].state
    BY <2>1 DEF PhaseTable, JQ!Phases
  <2>2. CASE job[i].state \in Waiting /\ job'[i].state \in Waiting \cup {"Queued"}
    BY <2>2 DEF PhaseTable
  <2> QED
    BY <2>1, <2>2 DEF Offers
<1>3. PhaseFn \in [JobIds -> JQ!Phases]
  BY DEF PhaseFn, PhaseTable
<1>4. PICK ph \in [JobIds -> JQ!Phases] : ph = PhaseFn
  BY <1>3
<1>5. \E T \in SUBSET {j \in JobIds : PhaseFn[j] = "waiting"} :
        /\ PhaseFn' = [j \in JobIds |-> IF j \in T THEN "ready" ELSE PhaseFn[j]]
        /\ JQ!Exclusive(PhaseFn, NeedsFn, stripped)'
  <2>1. Offering(ph)
    BY <1>2, <1>4, Offered
  <2> QED
    BY <1>4, <2>1 DEF Offering
<1>6. CASE stripped' \subseteq stripped
  <2>1. JQ!Serve
    BY <1>1, <1>5, <1>6 DEF JQ!Serve, JQ!Offer, JQ!Exclusive, JQ!Owns, PhaseFn, NeedsFn
  <2> QED
    BY <2>1 DEF JQ!JQNext
<1>7. CASE ~(stripped' \subseteq stripped)
  <2>1. stripped' \subseteq JobIds \X Resources
    BY DEF IInv, Core
  <2>2. PICK E \in SUBSET (JobIds \X Resources) : E = stripped'
    BY <2>1
  <2>3. \A p \in E : p[1] \in Active(job) /\ p[2] \in job[p[1]].res
    BY <2>2 DEF Offers, Exemptions
  <2>4. \A p \in E : p[1] \in JQ!Owns(PhaseFn) /\ p[2] \in NeedsFn[p[1]]
    BY <2>3 DEF JQ!Owns, PhaseTable, Active, NeedsFn
  <2>5. JQ!Exempt(E)
    BY <1>1, <1>5, <2>2, <2>4
       DEF JQ!Exempt, JQ!Offer, JQ!Exclusive, JQ!Owns, PhaseFn, NeedsFn
  <2> QED
    BY <2>2, <2>5 DEF JQ!JQNext
<1> QED
  BY <1>6, <1>7

\* Every step of the scheduler is a step of the abstract queue.
LEMMA NextRefines ==
  ASSUME IInv, Books, [Next]_vars
  PROVE  JQ!JQNext
<1>1. IInv' /\ (Creates \/ Keeps)
  BY NextKeeps
<1>2. PhaseTable
  BY PhaseMeans DEF IInv
<1>3. PhaseTable'
  <2>1. Core'
    BY <1>1 DEF IInv
  <2> QED
    BY <2>1, PhaseMeans, PTL
<1>4. Exemptions /\ GoneNeedNothing
  BY DEF Books
<1> QED
  BY <1>1, <1>2, <1>3, <1>4, CreatesSubmits, EndsFinishes, RemovesForgets, StartsLeases,
     OffersServes DEF Keeps, Kind

LEMMA InitRefines == Init => JQ!JQInit
<1> SUFFICES ASSUME Init PROVE JQ!JQInit
  OBVIOUS
<1>1. \A j \in JobIds : job[j] = Absent /\ ~(j < nextId)
  BY ConstantFacts DEF Init, JobIds
<1>2. \A j \in JobIds : PhaseOf(j) = "none" /\ job[j].res = {}
  BY <1>1, AbsentRecord DEF PhaseOf
<1> QED
  BY <1>2 DEF JQ!JQInit, Init

\* The scheduler implements the job queue its clients see: a job is offered, leased to one
\* worker at a time, given back or finished, whatever queues, timers and locks are inside.
THEOREM SchedulerImplementsJobQueue == Spec => ImplementsJobQueue
<1>1. IInv /\ Books /\ [Next]_vars => [JQ!JQNext]_(JQ!jqVars)
  BY NextRefines
<1> QED
  BY <1>1, InitRefines, BooksAreKept, PTL DEF Spec, ImplementsJobQueue, JQ!JQSpec
=============================================================================
