---------------------------- MODULE CountsProofs ----------------------------
(***************************************************************************)
(* Theorems about who counts the jobs, for every value of the constants:   *)
(* the metrics of the server (ServiceMetrics), then the consumers of the   *)
(* load test (LoadTest).                                                   *)
(*                                                                         *)
(* The jobs the metrics count are those of Recovery, whose invariant is    *)
(* proved in RecoveryProofs and used here: what an event finds, and which  *)
(* jobs hold which resources.  The admin API takes locks away from active  *)
(* jobs, as a load of mixed copies does: an instance of Recovery in which  *)
(* mixed is true after an unlock has these steps as well.                  *)
(***************************************************************************)
EXTENDS Counts, FiniteSetTheorems, TLAPS

RP == INSTANCE RecoveryProofs WITH mixed <- (mixed \/ unlocks > 0)

\* The jobs of a topic in some states, as the metrics service would recount them.
Found(jobs, t, states) == {j \in InTopic(t) : jobs[j].state \in states}
Recount(jobs, t, states) == Cardinality(Found(jobs, t, states))

Metered ==
  \A t \in Topics :
    /\ existing[t] = Recount(job, t, Counted) /\ total[t] = Recount(job, t, Counted)
    /\ active[t] = Recount(job, t, Working)
    /\ \A s \in Counted : count[t][s] = Recount(job, t, {s})

LocksAreCounted == \A t \in Topics : locked[t] = Cardinality(LockedFor(lock, t))

\* The owner shown is the active job that needs the resource, from its first event to its last.
OwnersAreShown ==
  unlocks = 0 /\ ~mixed =>
    \A r \in Resources :
      /\ owner[r] \in R!JobIds \cup {R!NoJob} /\ lock[r] \in R!JobIds \cup {R!NoJob}
      /\ \A j \in R!JobIds : owner[r] = j <=> job[j].state \in RP!Busy /\ r \in Needs[j]

Typed ==
  /\ count = [t \in Topics |-> count[t]]
  /\ existing = [t \in Topics |-> existing[t]] /\ total = [t \in Topics |-> total[t]]
  /\ active = [t \in Topics |-> active[t]] /\ success = [t \in Topics |-> success[t]]
  /\ locked = [t \in Topics |-> locked[t]] /\ owner = [r \in Resources |-> owner[r]]
  /\ unlocks \in Nat /\ mixed \in BOOLEAN

IInv ==
  /\ RP!IInv
  /\ Typed /\ Metered /\ SuccessRateAgrees
  /\ LocksAreCounted /\ OwnersAreShown

-----------------------------------------------------------------------------
(* Counting.                                                               *)

LEMMA ConstantsFit ==
  /\ RP!RecoveryAssumption
  /\ RP!JobIds = R!JobIds /\ RP!NoJob = R!NoJob
BY ServiceMetricsAssumption DEF RP!RecoveryAssumption, R!JobIds, RP!JobIds, R!NoJob, RP!NoJob

LEMMA FoundAreFinite ==
  ASSUME NEW jobs, NEW t, NEW states
  PROVE  IsFiniteSet(Found(jobs, t, states)) /\ Recount(jobs, t, states) \in Nat
<1>1. IsFiniteSet(R!JobIds)
  BY ServiceMetricsAssumption, FS_Interval DEF R!JobIds
<1>2. Found(jobs, t, states) \in SUBSET R!JobIds
  BY DEF Found, InTopic
<1> QED
  BY <1>1, <1>2, FS_Subset, FS_CardinalityType DEF Recount

\* When one job changes its state, what a recount finds changes by one at most: the counters
\* follow by a decrement, never under zero, and an increment.
LEMMA RecountFollows ==
  ASSUME NEW jobs, NEW jobs2, NEW h \in R!JobIds,
         \A j \in R!JobIds : j # h => jobs2[j].state = jobs[j].state,
         NEW t, NEW states
  PROVE  /\ Recount(jobs2, t, states) =
              IF TopicOf[h] = t
                THEN Less(Recount(jobs, t, states), One(jobs[h].state \in states))
                       + One(jobs2[h].state \in states)
                ELSE Recount(jobs, t, states)
         /\ TopicOf[h] = t /\ jobs[h].state \in states => Recount(jobs, t, states) >= 1
<1> DEFINE A == Found(jobs, t, states)
           B == Found(jobs2, t, states)
<1>1. IsFiniteSet(A) /\ IsFiniteSet(B) /\ Cardinality(A) \in Nat
  BY FoundAreFinite, FS_CardinalityType
<1>2. \A j : j # h => (j \in A <=> j \in B)
  BY DEF Found, InTopic
<1>3. /\ h \in A <=> TopicOf[h] = t /\ jobs[h].state \in states
      /\ h \in B <=> TopicOf[h] = t /\ jobs2[h].state \in states
  BY DEF Found, InTopic
<1>4. Recount(jobs, t, states) = Cardinality(A) /\ Recount(jobs2, t, states) = Cardinality(B)
  BY DEF Recount
<1> HIDE DEF A, B
<1>5. IsFiniteSet(A \ {h}) /\ h \notin A \ {h} /\ (A \ {h}) \cup {h} = A \cup {h}
  BY <1>1, FS_RemoveElement
<1>6. /\ Cardinality(A \ {h}) \in Nat
      /\ Cardinality((A \ {h}) \cup {h}) = Cardinality(A \ {h}) + 1
  BY <1>5, FS_AddElement, FS_CardinalityType
<1>7. Cardinality(A) = Cardinality(A \ {h}) + One(h \in A)
  <2>1. Cardinality(A \ {h}) = IF h \in A THEN Cardinality(A) - 1 ELSE Cardinality(A)
    BY <1>1, FS_RemoveElement
  <2> QED
    BY <1>1, <1>6, <2>1 DEF One
<1>8. Cardinality(B) = Cardinality(A \ {h}) + One(h \in B)
  <2>1. CASE h \in B
    <3>1. B = (A \ {h}) \cup {h}
      BY <1>2, <2>1
    <3> QED
      BY <1>6, <2>1, <3>1 DEF One
  <2>2. CASE h \notin B
    <3>1. B = A \ {h}
      BY <1>2, <2>2
    <3> QED
      BY <1>6, <2>2, <3>1 DEF One
  <2> QED
    BY <2>1, <2>2
<1>9. CASE TopicOf[h] = t
  <2>1. (h \in A <=> jobs[h].state \in states) /\ (h \in B <=> jobs2[h].state \in states)
    BY <1>3, <1>9
  <2> QED
    BY <1>4, <1>6, <1>7, <1>8, <1>9, <2>1 DEF Less, One
<1>10. CASE TopicOf[h] # t
  <2>1. h \notin A /\ h \notin B
    BY <1>3, <1>10
  <2> QED
    BY <1>4, <1>6, <1>7, <1>8, <1>10, <2>1 DEF One
<1> QED
  BY <1>9, <1>10

\* The jobs at work are those of three states.
LEMMA WorkingAreThree ==
  ASSUME NEW jobs, NEW t
  PROVE  Recount(jobs, t, Working) =
           Recount(jobs, t, {"Pending"}) + Recount(jobs, t, {"Queued"}) + Recount(jobs, t, {"Running"})
<1> DEFINE P == Found(jobs, t, {"Pending"})
           Q == Found(jobs, t, {"Queued"})
           W == Found(jobs, t, {"Running"})
<1>1. IsFiniteSet(P) /\ IsFiniteSet(Q) /\ IsFiniteSet(W)
  BY FoundAreFinite
<1>2. Found(jobs, t, Working) = (P \cup Q) \cup W
  BY DEF Found, Working
<1>3. P \cap Q = {} /\ (P \cup Q) \cap W = {}
  BY DEF Found
<1> HIDE DEF P, Q, W
<1>4. /\ IsFiniteSet(P \cup Q)
      /\ Cardinality(P \cup Q) = Cardinality(P) + Cardinality(Q) - Cardinality(P \cap Q)
  BY <1>1, FS_Union
<1>5. Cardinality((P \cup Q) \cup W)
        = Cardinality(P \cup Q) + Cardinality(W) - Cardinality((P \cup Q) \cap W)
  BY <1>1, <1>4, FS_Union
<1>6. Cardinality(P) \in Nat /\ Cardinality(Q) \in Nat /\ Cardinality(W) \in Nat
  BY <1>1, FS_CardinalityType
<1>7. Cardinality((P \cup Q) \cup W) = Cardinality(P) + Cardinality(Q) + Cardinality(W)
  <2>1. Cardinality(P \cap Q) = 0 /\ Cardinality((P \cup Q) \cap W) = 0
    BY <1>3, FS_EmptySet
  <2> QED
    BY <1>4, <1>5, <1>6, <2>1
<1> QED
  BY <1>2, <1>7 DEF Recount, P, Q, W

\* A count of a set that changes, by what left it and what came in.
LEMMA CountFollows ==
  ASSUME NEW A, NEW B, IsFiniteSet(A), IsFiniteSet(B)
  PROVE  Less(Cardinality(A), Cardinality(A \ B)) + Cardinality(B \ A) = Cardinality(B)
<1>1. /\ Cardinality(A \ B) = Cardinality(A) - Cardinality(A \cap B)
      /\ Cardinality(B \ A) = Cardinality(B) - Cardinality(B \cap A)
  BY FS_Difference
<1>2. /\ Cardinality(A) \in Nat /\ Cardinality(B) \in Nat
      /\ Cardinality(A \cap B) \in Nat /\ Cardinality(A \cap B) <= Cardinality(A)
  BY FS_Intersection, FS_CardinalityType
<1>3. B \cap A = A \cap B
  OBVIOUS
<1>4. \A a, b, c \in Nat : c <= a => Less(a, a - c) + (b - c) = b
  BY DEF Less
<1>5. Less(Cardinality(A), Cardinality(A) - Cardinality(A \cap B))
        + (Cardinality(B) - Cardinality(A \cap B)) = Cardinality(B)
  BY <1>2, <1>4
<1> QED
  BY <1>1, <1>3, <1>5

LEMMA LockedAreFinite ==
  ASSUME NEW locks, NEW t
  PROVE  IsFiniteSet(LockedFor(locks, t)) /\ Cardinality(LockedFor(locks, t)) \in Nat
BY ServiceMetricsAssumption, FS_Subset, FS_CardinalityType DEF LockedFor

-----------------------------------------------------------------------------
(* The jobs and their locks: the steps of Recovery, and those of the admin API. *)

LEMMA NotifyIsOne ==
  ASSUME NotifyJobEvent
  PROVE  RP!Notify
BY DEF NotifyJobEvent, R!Notify, RP!Notify, R!After, RP!After

LEMMA OperationIsOne ==
  ASSUME R!Operation, UNCHANGED unlocks
  PROVE  RP!Operation
<1>1. ASSUME NEW j, NEW events, NEW newLock, NEW admit, R!Do(j, events, newLock, admit)
      PROVE  RP!Do(j, events, newLock, admit)
  BY <1>1 DEF R!Do, RP!Do, R!Idle, RP!Idle
<1>2. \A j : /\ R!Free(j) <=> RP!Free(j)
             /\ R!Lock(j) = RP!Lock(j) /\ R!Unlock(j) = RP!Unlock(j)
  BY DEF R!Free, RP!Free, R!Lock, RP!Lock, R!Unlock, RP!Unlock, R!NoJob, RP!NoJob
<1>3. ASSUME R!TryEnqueuePendingJobs PROVE RP!TryEnqueuePendingJobs
  BY <1>2, <1>3 DEF R!TryEnqueuePendingJobs, RP!TryEnqueuePendingJobs, R!InState, RP!InState,
                    R!JobIds, RP!JobIds, R!Idle, RP!Idle
<1>4. ASSUME NEW j \in R!JobIds, R!Create(j) \/ R!Start(j) \/ R!Succeed(j) \/ R!Cancel(j)
      PROVE  RP!Create(j) \/ RP!Start(j) \/ RP!Succeed(j) \/ RP!Cancel(j)
  BY <1>1, <1>2, <1>4 DEF R!Create, RP!Create, R!Start, RP!Start, R!Succeed, RP!Succeed,
                          R!Cancel, RP!Cancel
<1>5. ASSUME NEW j \in R!JobIds, R!Fail(j) \/ R!Retry(j) \/ R!Delete(j)
      PROVE  RP!Fail(j) \/ RP!Retry(j) \/ RP!Delete(j)
  BY <1>1, <1>2, <1>5 DEF R!Fail, RP!Fail, R!Retry, RP!Retry, R!Delete, RP!Delete
<1> QED
  BY <1>3, <1>4, <1>5, ConstantsFit DEF R!Operation, RP!Operation

LEMMA AdmitIsOne ==
  ASSUME R!Admit, UNCHANGED unlocks
  PROVE  RP!Admit
BY DEF R!Admit, RP!Admit, R!InState, RP!InState, R!JobIds, RP!JobIds, R!Free, RP!Free,
       R!Lock, RP!Lock, R!NoJob, RP!NoJob

LEMMA DeleteAllIsOne ==
  ASSUME R!DeleteAllJobs, UNCHANGED unlocks
  PROVE  RP!DeleteAllJobs
BY DEF R!DeleteAllJobs, RP!DeleteAllJobs, R!Idle, RP!Idle, R!JobIds, RP!JobIds, R!NoJob, RP!NoJob

LEMMA LoadsAreTheSame ==
  ASSUME NEW jobs
  PROVE  /\ \A r : R!LoadedLock(jobs, r) = RP!LoadedLock(jobs, r)
         /\ R!InOrder(R!Unscheduled(jobs)) = RP!InOrder(RP!Unscheduled(jobs))
         /\ R!Unscheduled(jobs) = RP!Unscheduled(jobs)
<1>1. /\ \A r : R!LoadedLock(jobs, r) = RP!LoadedLock(jobs, r)
      /\ R!Unscheduled(jobs) = RP!Unscheduled(jobs)
  BY DEF R!LoadedLock, RP!LoadedLock, R!Unscheduled, RP!Unscheduled, R!JobIds, RP!JobIds,
         R!NoJob, RP!NoJob
<1>2. \A S : R!InOrder(S) = RP!InOrder(S)
  BY DEF R!InOrder, RP!InOrder, R!Rank, RP!Rank, R!Cardinality, RP!Cardinality
<1> QED
  BY <1>1, <1>2

LEMMA CrashIsOne ==
  ASSUME R!CrashAndLoadJobs, UNCHANGED unlocks
  PROVE  RP!CrashAndLoadJobs
<1> DEFINE copies(S) == [j \in R!JobIds |-> IF j \in S THEN job[j] ELSE saved[j]]
           loaded(S) == [j \in R!JobIds |->
                           IF copies(S)[j].state = "NoState" /\ job[j].state # "NoState"
                             THEN [R!NewJob EXCEPT !.state = "Deleted"] ELSE copies(S)[j]]
<1>1. PICK S \in SUBSET R!JobIds :
        /\ saved' = copies(S) /\ job' = loaded(S)
        /\ mixed' = (mixed \/ copies(S) \notin {saved, job})
        /\ lock' = [r \in Resources |-> R!LoadedLock(loaded(S), r)]
        /\ todo' = R!InOrder(R!Unscheduled(loaded(S)))
        /\ admitting' = (R!Unscheduled(loaded(S)) # {})
  BY DEF R!CrashAndLoadJobs
<1>2. S \in SUBSET RP!JobIds /\ R!NewJob = RP!NewJob /\ R!JobIds = RP!JobIds
  BY ConstantsFit DEF R!NewJob, RP!NewJob
<1>3. (mixed \/ unlocks > 0)' = ((mixed \/ unlocks > 0) \/ copies(S) \notin {saved, job})
  BY <1>1
<1>4. /\ [r \in Resources |-> R!LoadedLock(loaded(S), r)]
           = [r \in Resources |-> RP!LoadedLock(loaded(S), r)]
      /\ R!InOrder(R!Unscheduled(loaded(S))) = RP!InOrder(RP!Unscheduled(loaded(S)))
      /\ R!Unscheduled(loaded(S)) = RP!Unscheduled(loaded(S))
  BY LoadsAreTheSame
<1>5. crashes < MaxCrashes /\ crashes' = crashes + 1
  BY DEF R!CrashAndLoadJobs
<1> QED
  BY <1>1, <1>2, <1>3, <1>4, <1>5, ZenonT(60) DEF RP!CrashAndLoadJobs

\* The admin API takes locks away and leaves the jobs alone.
LEMMA UnlocksKeepJobs ==
  ASSUME RP!IInv, unlocks \in Nat, mixed \in BOOLEAN, unlocks' = unlocks + 1,
         todo = <<>>, lock' = [r \in Resources |-> lock'[r]], admitting' = TRUE,
         UNCHANGED <<job, todo, saved, crashes, mixed>>
  PROVE  RP!IInv'
<1>1. (mixed \/ unlocks > 0)' = TRUE
  OBVIOUS
<1>2. RP!Typed'
  BY <1>1 DEF RP!IInv, RP!Typed
<1>3. RP!TodoIsLegal' /\ RP!SavedEndIsFinal' /\ RP!CreatedIsToSchedule'
  BY DEF RP!IInv, RP!TodoIsLegal, RP!Scheduling, RP!OneJob, RP!SavedEndIsFinal,
         RP!CreatedIsToSchedule
<1>4. RP!FailuresAreCounted'
  BY DEF RP!IInv, RP!FailuresAreCounted, RP!Terminating
<1> QED
  BY <1>1, <1>2, <1>3, <1>4 DEF RP!IInv

LEMMA JobsAreKept ==
  ASSUME IInv, [Next]_vars
  PROVE  RP!IInv'
<1>1. CASE NotifyJobEvent
  BY <1>1, NotifyIsOne, RP!NotifyKeeps, ConstantsFit DEF IInv
<1>2. CASE LockStep
  BY <1>2, OperationIsOne, AdmitIsOne, RP!OperationKeeps, RP!AdmitKeeps, ConstantsFit
     DEF IInv, LockStep
<1>3. CASE SaveStep
  <2>1. RP!Save
    BY <1>3 DEF SaveStep, R!Save, RP!Save
  <2> QED
    BY <2>1, RP!SaveKeeps, ConstantsFit DEF IInv
<1>4. ASSUME NEW r \in Resources, UnlockResource(r)
      PROVE  RP!IInv'
  BY <1>4, UnlocksKeepJobs DEF IInv, Typed, RP!IInv, RP!Typed, UnlockResource, R!Idle
<1>5. CASE UnlockAllResources
  BY <1>5, UnlocksKeepJobs DEF IInv, Typed, UnlockAllResources, R!Idle
<1>6. CASE OnDeleteAllJobs
  BY <1>6, DeleteAllIsOne, RP!DeleteAllKeeps, ConstantsFit DEF IInv, OnDeleteAllJobs
<1>7. CASE UpdateMetricsFromJobHistory
  BY <1>7, CrashIsOne, RP!CrashKeeps, ConstantsFit DEF IInv, UpdateMetricsFromJobHistory
<1>8. CASE UNCHANGED vars
  <2>1. UNCHANGED RP!vars
    BY <1>8 DEF vars, serviceVars, RP!vars
  <2> QED
    BY <2>1, RP!NextKeeps, ConstantsFit DEF IInv
<1> QED
  BY <1>1, <1>2, <1>3, <1>4, <1>5, <1>6, <1>7, <1>8 DEF Next

-----------------------------------------------------------------------------
(* An event of a job.                                                      *)

Mover == todo[1][1]
Old == job[Mover].state
New == NewState(todo[1][2])

LEMMA EventFits ==
  ASSUME IInv, NotifyJobEvent
  PROVE  /\ Mover \in R!JobIds /\ TopicOf[Mover] \in Topics
         /\ job'[Mover].state = New
         /\ \A j \in R!JobIds : j # Mover => job'[j].state = job[j].state
         /\ \/ Old = "NoState" /\ New = "Created"
            \/ Old = "Created" /\ New = "Pending"
            \/ Old \in Counted /\ New \in Counted \ {"Created", "Pending"}
            \/ Old \in Counted /\ New = "Deleted"
<1>1. RP!IInv /\ RP!Notify
  BY NotifyIsOne DEF IInv
<1>2. /\ Mover \in RP!JobIds /\ todo[1][2] \in RP!Events
      /\ Old \in RP!Before(todo[1][2])
  BY <1>1, RP!NotifyFits, ConstantsFit DEF Mover, Old
<1>3. /\ job'[Mover].state = RP!After(todo[1][2])
      /\ \A j \in RP!JobIds : j # Mover => job'[j] = job[j]
  BY <1>1, RP!NotifyStep, ConstantsFit DEF Mover
<1>4. New = RP!After(todo[1][2])
  BY DEF New, NewState, R!After, RP!After
<1>5. TopicOf[Mover] \in Topics
  BY <1>2, ConstantsFit, ServiceMetricsAssumption
<1>6. \/ Old = "NoState" /\ New = "Created"
      \/ Old = "Created" /\ New = "Pending"
      \/ Old \in Counted /\ New \in Counted \ {"Created", "Pending"}
      \/ Old \in Counted /\ New = "Deleted"
  BY <1>2, <1>4 DEF RP!Before, RP!Events, RP!After, Counted, R!States, RP!States
<1> QED
  BY <1>2, <1>3, <1>4, <1>5, <1>6, ConstantsFit

LEMMA EventKeepsMetered ==
  ASSUME IInv, NotifyJobEvent
  PROVE  Metered'
<1> DEFINE h == Mover
<1>1. /\ count' = [count EXCEPT ![TopicOf[h]] =
           [s \in Counted |-> IF Old = New THEN count[TopicOf[h]][s]
                              ELSE Less(count[TopicOf[h]][s], One(s = Old)) + One(s = New)]]
      /\ existing' = [existing EXCEPT ![TopicOf[h]] =
           IF New = "Deleted" THEN Less(@, 1) ELSE @ + One(New = "Created")]
      /\ total' = [total EXCEPT ![TopicOf[h]] =
           IF New = "Deleted" THEN Less(@, 1) ELSE @ + One(New = "Created")]
      /\ active' = [active EXCEPT ![TopicOf[h]] =
           Less(@, One(Old \in Working)) + One(New \in Working)]
  BY DEF NotifyJobEvent, OnJobStateChange, UpdateTopicMetrics, Mover, Old, New
<1>2. /\ h \in R!JobIds /\ TopicOf[h] \in Topics /\ job'[h].state = New /\ job[h].state = Old
      /\ \A j \in R!JobIds : j # h => job'[j].state = job[j].state
  BY EventFits DEF Old
<1>3. \A t, states :
        /\ Recount(job', t, states) =
             IF TopicOf[h] = t
               THEN Less(Recount(job, t, states), One(Old \in states)) + One(New \in states)
               ELSE Recount(job, t, states)
        /\ TopicOf[h] = t /\ Old \in states => Recount(job, t, states) >= 1
        /\ Recount(job, t, states) \in Nat
  <2> TAKE t, states
  <2>1. /\ Recount(job', t, states) =
             IF TopicOf[h] = t
               THEN Less(Recount(job, t, states), One(job[h].state \in states))
                      + One(job'[h].state \in states)
               ELSE Recount(job, t, states)
        /\ TopicOf[h] = t /\ job[h].state \in states => Recount(job, t, states) >= 1
    BY <1>2, RecountFollows
  <2>2. Recount(job, t, states) \in Nat
    BY FoundAreFinite
  <2> QED
    BY <1>2, <2>1, <2>2 DEF One
<1> HIDE DEF h
<1>4. ASSUME NEW t \in Topics, t # TopicOf[h]
      PROVE  /\ existing'[t] = Recount(job', t, Counted) /\ total'[t] = Recount(job', t, Counted)
             /\ active'[t] = Recount(job', t, Working)
             /\ \A s \in Counted : count'[t][s] = Recount(job', t, {s})
  <2>1. /\ existing'[t] = existing[t] /\ total'[t] = total[t] /\ active'[t] = active[t]
        /\ count'[t] = count[t]
    BY <1>1, <1>4 DEF IInv, Typed
  <2> QED
    BY <1>3, <1>4, <2>1 DEF IInv, Metered
<1>5. ASSUME NEW t \in Topics, t = TopicOf[h]
      PROVE  /\ existing'[t] = Recount(job', t, Counted) /\ total'[t] = Recount(job', t, Counted)
             /\ active'[t] = Recount(job', t, Working)
             /\ \A s \in Counted : count'[t][s] = Recount(job', t, {s})
  <2>1. /\ existing'[t] = IF New = "Deleted" THEN Less(existing[t], 1)
                          ELSE existing[t] + One(New = "Created")
        /\ total'[t] = IF New = "Deleted" THEN Less(total[t], 1)
                       ELSE total[t] + One(New = "Created")
        /\ active'[t] = Less(active[t], One(Old \in Working)) + One(New \in Working)
        /\ \A s \in Counted :
             count'[t][s] = IF Old = New THEN count[t][s]
                            ELSE Less(count[t][s], One(s = Old)) + One(s = New)
    BY <1>1, <1>5 DEF IInv, Typed
  <2>2. /\ existing[t] = Recount(job, t, Counted) /\ total[t] = Recount(job, t, Counted)
        /\ active[t] = Recount(job, t, Working)
        /\ \A s \in Counted : count[t][s] = Recount(job, t, {s})
    BY DEF IInv, Metered
  <2>3. Recount(job', t, Counted) =
          IF New = "Deleted" THEN Less(Recount(job, t, Counted), 1)
          ELSE Recount(job, t, Counted) + One(New = "Created")
    <3>1. /\ Recount(job', t, Counted) =
               Less(Recount(job, t, Counted), One(Old \in Counted)) + One(New \in Counted)
          /\ Old \in Counted => Recount(job, t, Counted) >= 1
          /\ Recount(job, t, Counted) \in Nat
      BY <1>3, <1>5
    <3>2. /\ "Deleted" \notin Counted /\ "NoState" \notin Counted
          /\ "Created" \in Counted /\ "Pending" \in Counted
      BY DEF Counted, R!States
    <3>3. CASE Old \in Counted /\ New \in Counted \ {"Created"}
      BY <3>1, <3>2, <3>3 DEF Less, One
    <3>4. CASE Old = "NoState" /\ New = "Created"
      BY <3>1, <3>2, <3>4 DEF Less, One
    <3>5. CASE Old \in Counted /\ New = "Deleted"
      BY <3>1, <3>2, <3>5 DEF Less, One
    <3> QED
      BY <3>2, <3>3, <3>4, <3>5, EventFits
  <2>4. ASSUME NEW s \in Counted
        PROVE  count'[t][s] = Recount(job', t, {s})
    <3>1. /\ Recount(job', t, {s}) =
               Less(Recount(job, t, {s}), One(s = Old)) + One(s = New)
          /\ s = Old => Recount(job, t, {s}) >= 1
          /\ Recount(job, t, {s}) \in Nat
      <4>1. (Old \in {s} <=> s = Old) /\ (New \in {s} <=> s = New)
        OBVIOUS
      <4>2. /\ Recount(job', t, {s}) =
                 Less(Recount(job, t, {s}), One(Old \in {s})) + One(New \in {s})
            /\ Old \in {s} => Recount(job, t, {s}) >= 1
            /\ Recount(job, t, {s}) \in Nat
        BY <1>3, <1>5
      <4> QED
        BY <4>1, <4>2 DEF One
    <3>2. CASE Old = New
      BY <2>1, <2>2, <3>1, <3>2 DEF Less, One
    <3>3. CASE Old # New
      BY <2>1, <2>2, <3>1, <3>3
    <3> QED
      BY <3>2, <3>3
  <2>5. active'[t] = Recount(job', t, Working)
    BY <1>3, <1>5, <2>1, <2>2 DEF One
  <2> QED
    BY <2>1, <2>2, <2>3, <2>4, <2>5
<1> QED
  BY <1>4, <1>5 DEF Metered

\* The success rate is computed from the counters that the event has just moved.
LEMMA EventKeepsSuccess ==
  ASSUME IInv, NotifyJobEvent
  PROVE  SuccessRateAgrees'
<1> DEFINE u == TopicOf[Mover]
           rate(c) == <<c["Succeeded"], c["Succeeded"] + c["Failed"] + c["Canceled"]>>
<1>1. crashes' = crashes
  BY DEF NotifyJobEvent, R!Notify
<1>2. /\ success' = [success EXCEPT ![u] = rate(count'[u])]
      /\ \E f : count' = [count EXCEPT ![u] = f]
  BY DEF NotifyJobEvent, OnJobStateChange, UpdateTopicMetrics, Mover
<1>3. success = [t \in Topics |-> success[t]] /\ count = [t \in Topics |-> count[t]]
  BY DEF IInv, Typed
<1>4. ASSUME NEW t \in Topics, crashes = 0
      PROVE  success'[t] = rate(count'[t])
  <2>1. success[t] = rate(count[t])
    BY <1>4 DEF IInv, SuccessRateAgrees
  <2>2. CASE t = u
    BY <1>2, <1>3, <2>2
  <2>3. CASE t # u
    BY <1>2, <1>3, <2>1, <2>3
  <2> QED
    BY <2>2, <2>3
<1> QED
  BY <1>1, <1>4 DEF SuccessRateAgrees

\* An active job takes the resources it needs, which no other active job needs, and gives
\* them back when it leaves the queue.
LEMMA EventKeepsOwners ==
  ASSUME IInv, NotifyJobEvent
  PROVE  OwnersAreShown'
<1> DEFINE h == Mover
<1>1. /\ owner' = Owners(h, New) /\ UNCHANGED <<lock, mixed, unlocks>>
  BY DEF NotifyJobEvent, R!Notify, Mover, New
<1>2. /\ h \in R!JobIds /\ job'[h].state = New
      /\ \A j \in R!JobIds : j # h => job'[j].state = job[j].state
      /\ New \in {"Created", "Pending"} => Old \notin RP!Busy
      /\ New \in (Counted \ {"Created"}) \cup {"Created", "Deleted"}
  BY EventFits DEF RP!Busy, Counted, R!States
<1>3. SUFFICES ASSUME unlocks = 0, ~mixed
               PROVE  \A r \in Resources :
                        /\ owner'[r] \in R!JobIds \cup {R!NoJob} /\ lock[r] \in R!JobIds \cup {R!NoJob}
                        /\ \A j \in R!JobIds : owner'[r] = j <=> job'[j].state \in RP!Busy /\ r \in Needs[j]
  BY <1>1 DEF OwnersAreShown
<1>4. \A r \in Resources :
        /\ owner[r] \in R!JobIds \cup {R!NoJob} /\ lock[r] \in R!JobIds \cup {R!NoJob}
        /\ \A j \in R!JobIds : owner[r] = j <=> job[j].state \in RP!Busy /\ r \in Needs[j]
  BY <1>3 DEF IInv, OwnersAreShown
<1>5. \A i, k \in R!JobIds :
        /\ i # k /\ job'[i].state \in RP!Busy /\ job'[k].state \in RP!Busy
        => Needs[i] \cap Needs[k] = {}
  <2>1. RP!IInv'
    BY NotifyIsOne, RP!NotifyKeeps, ConstantsFit DEF IInv
  <2>2. (mixed \/ unlocks > 0)' = FALSE
    BY <1>1, <1>3
  <2> QED
    BY <2>1, <2>2, ConstantsFit DEF RP!IInv, RP!Exclusive
<1>6. \A j \in R!JobIds : j # R!NoJob
  BY ServiceMetricsAssumption DEF R!JobIds, R!NoJob
<1>7. \A r \in Resources :
        owner'[r] = IF New \in {"Queued", "Running"} /\ r \in Needs[h] THEN h
                    ELSE IF New \in Ended \cup {"Deleted", "Hidden"} /\ owner[r] = h THEN R!NoJob
                    ELSE owner[r]
  BY <1>1 DEF Owners
<1>8. Old = job[h].state
  BY DEF Old
<1> HIDE DEF h
<1>9. CASE New \in RP!Busy
  <2> TAKE r \in Resources
  <2>1. CASE r \in Needs[h]
    <3>1. owner'[r] = h
      BY <1>7, <1>9, <2>1 DEF RP!Busy
    <3>2. \A j \in R!JobIds : j # h => ~(job'[j].state \in RP!Busy /\ r \in Needs[j])
      BY <1>2, <1>5, <1>9, <2>1
    <3> QED
      BY <1>2, <1>4, <1>9, <2>1, <3>1, <3>2
  <2>2. CASE r \notin Needs[h]
    <3>1. owner'[r] = owner[r]
      BY <1>7, <1>9, <2>2 DEF RP!Busy, Ended
    <3> QED
      BY <1>2, <1>4, <2>2, <3>1
  <2> QED
    BY <2>1, <2>2
<1>10. CASE New \in {"Created", "Pending"}
  <2> TAKE r \in Resources
  <2>1. owner'[r] = owner[r]
    BY <1>7, <1>10 DEF Ended
  <2>2. Old \notin RP!Busy /\ New \notin RP!Busy
    BY <1>2, <1>10 DEF RP!Busy
  <2> QED
    BY <1>2, <1>4, <1>8, <2>1, <2>2
<1>11. CASE New \in Ended \cup {"Deleted", "Hidden"}
  <2> TAKE r \in Resources
  <2>1. owner'[r] = IF owner[r] = h THEN R!NoJob ELSE owner[r]
    BY <1>7, <1>11 DEF Ended
  <2>2. New \notin RP!Busy
    BY <1>11 DEF RP!Busy, Ended
  <2> QED
    BY <1>2, <1>4, <1>6, <2>1, <2>2
<1> QED
  BY <1>2, <1>9, <1>10, <1>11 DEF RP!Busy, Ended, Counted, R!States

-----------------------------------------------------------------------------
(* The locks.                                                              *)

LEMMA LockStepLocks ==
  ASSUME LockStep
  PROVE  /\ UNCHANGED <<job, crashes, mixed, stateVars, owner, unlocks>>
         /\ \A r \in Resources : lock'[r] \in {lock[r], R!NoJob} \cup R!JobIds
<1>1. UNCHANGED <<stateVars, owner, unlocks>> /\ (R!Operation \/ R!Admit)
  BY DEF LockStep
<1>2. ASSUME NEW j \in R!JobIds, NEW r \in Resources
      PROVE  /\ R!Lock(j)[r] \in {lock[r], R!NoJob} \cup R!JobIds
             /\ R!Unlock(j)[r] \in {lock[r], R!NoJob} \cup R!JobIds
  BY DEF R!Lock, R!Unlock
<1>3. ASSUME NEW j \in R!JobIds, NEW events, NEW admit,
             \/ R!Do(j, events, lock, admit) \/ R!Do(j, events, R!Lock(j), admit)
             \/ R!Do(j, events, R!Unlock(j), admit)
      PROVE  /\ UNCHANGED <<job, crashes, mixed>>
             /\ \A r \in Resources : lock'[r] \in {lock[r], R!NoJob} \cup R!JobIds
  BY <1>2, <1>3 DEF R!Do
<1>4. CASE R!Admit
  <2>1. /\ UNCHANGED <<job, crashes, mixed>>
        /\ UNCHANGED lock \/ \E j \in R!JobIds : lock' = R!Lock(j)
    BY <1>4 DEF R!Admit, R!InState
  <2> QED
    BY <1>1, <1>2, <2>1
<1>5. CASE R!TryEnqueuePendingJobs
  BY <1>1, <1>5 DEF R!TryEnqueuePendingJobs
<1>6. ASSUME NEW j \in R!JobIds, R!Create(j) \/ R!Start(j) \/ R!Succeed(j) \/ R!Cancel(j)
      PROVE  /\ UNCHANGED <<job, crashes, mixed>>
             /\ \A r \in Resources : lock'[r] \in {lock[r], R!NoJob} \cup R!JobIds
  BY <1>3, <1>6 DEF R!Create, R!Start, R!Succeed, R!Cancel
<1>7. ASSUME NEW j \in R!JobIds, R!Fail(j) \/ R!Retry(j) \/ R!Delete(j)
      PROVE  /\ UNCHANGED <<job, crashes, mixed>>
             /\ \A r \in Resources : lock'[r] \in {lock[r], R!NoJob} \cup R!JobIds
  BY <1>3, <1>7 DEF R!Fail, R!Retry, R!Delete
<1> QED
  BY <1>1, <1>4, <1>5, <1>6, <1>7 DEF R!Operation

LEMMA LocksStayCounted ==
  ASSUME IInv, [Next]_vars
  PROVE  LocksAreCounted'
<1>1. ASSUME UNCHANGED <<locked, lock>>
      PROVE  LocksAreCounted'
  BY <1>1 DEF IInv, LocksAreCounted, LockedFor
<1>2. \A t \in Topics : locked[t] = Cardinality(LockedFor(lock, t))
  BY DEF IInv, LocksAreCounted
<1>3. CASE NotifyJobEvent
  BY <1>1, <1>3 DEF NotifyJobEvent, R!Notify
<1>4. CASE SaveStep
  BY <1>1, <1>4 DEF SaveStep, R!Save, metricsVars
<1>5. CASE UNCHANGED vars
  BY <1>1, <1>5 DEF vars, serviceVars, metricsVars
<1>6. CASE LockStep
  <2>1. ASSUME NEW t \in Topics
        PROVE  locked'[t] = Cardinality(LockedFor(lock', t))
    <3>1. locked'[t] = Less(locked[t], Cardinality(LockedFor(lock, t) \ LockedFor(lock', t)))
                         + Cardinality(LockedFor(lock', t) \ LockedFor(lock, t))
      BY <1>6 DEF LockStep, UpdateResourcesLockedCountMetric
    <3>2. IsFiniteSet(LockedFor(lock, t)) /\ IsFiniteSet(LockedFor(lock', t))
      BY LockedAreFinite
    <3> QED
      BY <1>2, <3>1, <3>2, CountFollows
  <2> QED
    BY <2>1 DEF LocksAreCounted
<1>7. ASSUME NEW r \in Resources, UnlockResource(r)
      PROVE  LocksAreCounted'
  <2>1. /\ lock[r] # R!NoJob /\ lock' = [lock EXCEPT ![r] = R!NoJob]
        /\ locked' = [locked EXCEPT ![TopicOf[lock[r]]] = Less(@, 1)]
    BY <1>7 DEF UnlockResource
  <2>2. /\ lock = [q \in Resources |-> lock[q]] /\ locked = [t \in Topics |-> locked[t]]
    BY DEF IInv, Typed, RP!IInv, RP!Typed
  <2>3. ASSUME NEW t \in Topics
        PROVE  locked'[t] = Cardinality(LockedFor(lock', t))
    <3> DEFINE A == LockedFor(lock, t)
    <3>1. LockedFor(lock', t) = A \ {r} /\ (r \in A <=> TopicOf[lock[r]] = t)
      BY <2>1, <2>2 DEF LockedFor
    <3>2. locked'[t] = IF r \in A THEN Less(Cardinality(A), 1) ELSE Cardinality(A)
      BY <1>2, <2>1, <2>2, <3>1
    <3>3. IsFiniteSet(A) /\ Cardinality(A) \in Nat
      BY LockedAreFinite
    <3> HIDE DEF A
    <3>4. /\ Cardinality(A \ {r}) = IF r \in A THEN Cardinality(A) - 1 ELSE Cardinality(A)
          /\ Cardinality(A \ {r}) \in Nat
      BY <3>3, FS_RemoveElement, FS_CardinalityType
    <3> QED
      BY <3>1, <3>2, <3>3, <3>4 DEF Less
  <2> QED
    BY <2>3 DEF LocksAreCounted
<1>8. ASSUME lock' = [r \in Resources |-> R!NoJob], locked' = Zero
      PROVE  LocksAreCounted'
  <2>1. \A t : LockedFor(lock', t) = {}
    BY <1>8 DEF LockedFor
  <2> QED
    BY <1>8, <2>1, FS_EmptySet DEF LocksAreCounted, Zero
<1>9. CASE UnlockAllResources
  BY <1>8, <1>9 DEF UnlockAllResources
<1>10. CASE OnDeleteAllJobs
  BY <1>8, <1>10 DEF OnDeleteAllJobs, R!DeleteAllJobs
<1>11. CASE UpdateMetricsFromJobHistory
  BY <1>11 DEF UpdateMetricsFromJobHistory, LocksAreCounted
<1> QED
  BY <1>3, <1>4, <1>5, <1>6, <1>7, <1>9, <1>10, <1>11 DEF Next

-----------------------------------------------------------------------------
(* All the jobs at once.                                                   *)

LEMMA DeleteAllKeeps ==
  ASSUME IInv, OnDeleteAllJobs
  PROVE  Metered' /\ SuccessRateAgrees' /\ OwnersAreShown'
<1>1. /\ job' = [j \in R!JobIds |-> IF job[j].state = "NoState" THEN job[j]
                                    ELSE [job[j] EXCEPT !.state = "Deleted"]]
      /\ lock' = [r \in Resources |-> R!NoJob] /\ owner' = [r \in Resources |-> R!NoJob]
  BY DEF OnDeleteAllJobs, R!DeleteAllJobs
<1>2. \A j \in R!JobIds : job'[j].state \in {"NoState", "Deleted"}
  <2>1. job \in [RP!JobIds -> RP!JobStates]
    BY DEF IInv, RP!IInv, RP!Typed
  <2> QED
    BY <1>1, <2>1, ConstantsFit DEF RP!JobStates
<1>3. ASSUME NEW t, NEW states, "NoState" \notin states, "Deleted" \notin states
      PROVE  Recount(job', t, states) = 0
  <2>1. Found(job', t, states) = {}
    BY <1>2, <1>3 DEF Found, InTopic
  <2> QED
    BY <2>1, FS_EmptySet DEF Recount
<1>4. \A t : /\ Recount(job', t, Counted) = 0 /\ Recount(job', t, Working) = 0
             /\ \A s \in Counted : Recount(job', t, {s}) = 0
  BY <1>3 DEF Counted, Working
<1>5. Metered'
  BY <1>4 DEF OnDeleteAllJobs, Metered, Zero
<1>6. SuccessRateAgrees'
  <2>1. {"Succeeded", "Failed", "Canceled"} \in SUBSET Counted
    BY DEF Counted, R!States
  <2>2. \A t \in Topics : success'[t] = <<0, 0>> /\ \A s \in Counted : count'[t][s] = 0
    BY DEF OnDeleteAllJobs
  <2> QED
    BY <2>1, <2>2 DEF SuccessRateAgrees
<1>7. OwnersAreShown'
  <2>1. \A j \in R!JobIds : j # R!NoJob
    BY ServiceMetricsAssumption DEF R!JobIds, R!NoJob
  <2> QED
    BY <1>1, <1>2, <2>1 DEF OwnersAreShown, RP!Busy
<1> QED
  BY <1>5, <1>6, <1>7

\* A start recounts, but for the success rates.
LEMMA StartKeeps ==
  ASSUME IInv, UpdateMetricsFromJobHistory
  PROVE  Metered' /\ SuccessRateAgrees' /\ OwnersAreShown'
<1>1. R!CrashAndLoadJobs /\ UNCHANGED unlocks
  BY DEF UpdateMetricsFromJobHistory
<1>2. \A t, states : Loaded(t, states) = Recount(job', t, states)
  BY DEF Loaded, Recount, Found
<1>3. Metered'
  BY <1>2 DEF UpdateMetricsFromJobHistory, Metered
<1>4. SuccessRateAgrees'
  <2>1. crashes' = crashes + 1 /\ crashes \in Nat
    BY <1>1 DEF R!CrashAndLoadJobs, IInv, RP!IInv, RP!Typed
  <2>2. crashes' # 0
    BY <2>1
  <2> QED
    BY <2>2 DEF SuccessRateAgrees
<1>5. OwnersAreShown'
  <2> SUFFICES ASSUME unlocks' = 0, ~mixed', NEW r \in Resources
               PROVE  /\ owner'[r] \in R!JobIds \cup {R!NoJob} /\ lock'[r] \in R!JobIds \cup {R!NoJob}
                      /\ \A j \in R!JobIds :
                           owner'[r] = j <=> job'[j].state \in RP!Busy /\ r \in Needs[j]
    BY DEF OwnersAreShown
  <2>1. RP!Exclusive(job)'
    <3>1. RP!IInv'
      BY <1>1, CrashIsOne, RP!CrashKeeps, ConstantsFit DEF IInv
    <3>2. (mixed \/ unlocks > 0)' = FALSE
      BY <1>1
    <3> QED
      BY <3>1, <3>2 DEF RP!IInv
  <2>2. RP!Exclusive(job')
    BY <2>1 DEF RP!Exclusive
  <2>3. /\ RP!LoadedLock(job', r) \in RP!JobIds \cup {RP!NoJob}
        /\ \A j \in RP!JobIds :
             RP!LoadedLock(job', r) = j <=> job'[j].state \in RP!Busy /\ r \in Needs[j]
    BY <2>2, RP!LoadedLockIsRight, ConstantsFit
  <2>4. owner'[r] = RP!LoadedLock(job', r) /\ lock'[r] = RP!LoadedLock(job', r)
    <3>1. R!LoadedLock(job', r) = RP!LoadedLock(job', r)
      BY LoadsAreTheSame
    <3>2. owner' = [q \in Resources |-> R!LoadedLock(job', q)]
      BY DEF UpdateMetricsFromJobHistory
    <3>3. lock' = [q \in Resources |-> R!LoadedLock(job', q)]
      BY <1>1 DEF R!CrashAndLoadJobs
    <3> QED
      BY <3>1, <3>2, <3>3
  <2> QED
    BY <2>3, <2>4, ConstantsFit
<1> QED
  BY <1>3, <1>4, <1>5

-----------------------------------------------------------------------------
LEMMA TypesAreKept ==
  ASSUME IInv, [Next]_vars
  PROVE  Typed'
<1>1. Typed
  BY DEF IInv
<1>2. \A f, i, v : f = [t \in Topics |-> f[t]] =>
        [f EXCEPT ![i] = v] = [t \in Topics |-> [f EXCEPT ![i] = v][t]]
  OBVIOUS
<1>3. CASE NotifyJobEvent
  <2>1. \E t, c, e, d, n, a, s :
          /\ count' = [count EXCEPT ![t] = c] /\ existing' = [existing EXCEPT ![t] = e]
          /\ total' = [total EXCEPT ![t] = n] /\ active' = [active EXCEPT ![t] = a]
          /\ success' = [success EXCEPT ![t] = s]
    BY <1>3 DEF NotifyJobEvent, OnJobStateChange, UpdateTopicMetrics
  <2>2. /\ count' = [t \in Topics |-> count'[t]] /\ existing' = [t \in Topics |-> existing'[t]]
        /\ total' = [t \in Topics |-> total'[t]] /\ active' = [t \in Topics |-> active'[t]]
        /\ success' = [t \in Topics |-> success'[t]]
    BY <1>1, <1>2, <2>1 DEF Typed
  <2>3. owner' = [r \in Resources |-> owner'[r]] /\ UNCHANGED <<locked, unlocks, mixed>>
    BY <1>3 DEF NotifyJobEvent, Owners, R!Notify
  <2> QED
    BY <1>1, <2>2, <2>3 DEF Typed
<1>4. CASE LockStep
  <2>1. locked' = [t \in Topics |-> locked'[t]]
    BY <1>4 DEF LockStep, UpdateResourcesLockedCountMetric
  <2> QED
    BY <1>1, <1>4, <2>1, LockStepLocks DEF Typed, stateVars
<1>5. CASE SaveStep
  BY <1>1, <1>5 DEF SaveStep, R!Save, metricsVars, stateVars, Typed
<1>6. ASSUME NEW r \in Resources, UnlockResource(r)
      PROVE  Typed'
  BY <1>1, <1>6 DEF UnlockResource, stateVars, Typed
<1>7. CASE UnlockAllResources
  BY <1>1, <1>7 DEF UnlockAllResources, stateVars, Typed, Zero
<1>8. CASE OnDeleteAllJobs
  BY <1>1, <1>8 DEF OnDeleteAllJobs, R!DeleteAllJobs, Typed, Zero
<1>9. CASE UpdateMetricsFromJobHistory
  <2>1. mixed' \in BOOLEAN
    <3>1. \E b : mixed' = (mixed \/ b)
      BY <1>9 DEF UpdateMetricsFromJobHistory, R!CrashAndLoadJobs
    <3> QED
      BY <3>1, Zenon
  <2> QED
    BY <1>1, <1>9, <2>1 DEF UpdateMetricsFromJobHistory, Typed
<1>10. CASE UNCHANGED vars
  BY <1>1, <1>10 DEF vars, serviceVars, metricsVars, stateVars, Typed
<1> QED
  BY <1>3, <1>4, <1>5, <1>6, <1>7, <1>8, <1>9, <1>10 DEF Next

LEMMA CountersStay ==
  ASSUME IInv, UNCHANGED <<job, crashes, stateVars>>
  PROVE  Metered' /\ SuccessRateAgrees'
<1>1. /\ job' = job /\ crashes' = crashes
      /\ count' = count /\ existing' = existing /\ total' = total /\ active' = active
      /\ success' = success
  BY DEF stateVars
<1>2. \A t, states : Recount(job', t, states) = Recount(job, t, states)
  BY <1>1
<1>3. Metered'
  BY <1>1, <1>2 DEF IInv, Metered
<1>4. SuccessRateAgrees'
  BY <1>1 DEF IInv, SuccessRateAgrees
<1> QED
  BY <1>3, <1>4

LEMMA NextKeeps ==
  ASSUME IInv, [Next]_vars
  PROVE  IInv'
<1>1. RP!IInv' /\ Typed' /\ LocksAreCounted'
  BY JobsAreKept, TypesAreKept, LocksStayCounted
<1>2. ASSUME UNCHANGED <<job, crashes, mixed, stateVars, owner, unlocks>>,
             \A r \in Resources : lock'[r] \in {lock[r], R!NoJob} \cup R!JobIds
      PROVE  IInv'
  <2>1. OwnersAreShown'
    BY <1>2 DEF IInv, OwnersAreShown
  <2> QED
    BY <1>1, <1>2, <2>1, CountersStay DEF IInv
<1>3. ASSUME UNCHANGED <<job, crashes, stateVars>>, unlocks' = unlocks + 1
      PROVE  IInv'
  <2>1. unlocks' # 0
    BY <1>3 DEF IInv, Typed
  <2> QED
    BY <1>1, <1>3, <2>1, CountersStay DEF IInv, OwnersAreShown
<1>4. CASE NotifyJobEvent
  BY <1>1, <1>4, EventKeepsMetered, EventKeepsSuccess, EventKeepsOwners DEF IInv
<1>5. CASE LockStep
  BY <1>2, <1>5, LockStepLocks
<1>6. CASE SaveStep
  BY <1>2, <1>6 DEF SaveStep, R!Save, metricsVars
<1>7. ASSUME NEW r \in Resources, UnlockResource(r)
      PROVE  IInv'
  BY <1>3, <1>7 DEF UnlockResource
<1>8. CASE UnlockAllResources
  BY <1>3, <1>8 DEF UnlockAllResources
<1>9. CASE OnDeleteAllJobs
  BY <1>1, <1>9, DeleteAllKeeps DEF IInv
<1>10. CASE UpdateMetricsFromJobHistory
  BY <1>1, <1>10, StartKeeps DEF IInv
<1>11. CASE UNCHANGED vars
  BY <1>2, <1>11 DEF vars, serviceVars, metricsVars
<1> QED
  BY <1>4, <1>5, <1>6, <1>7, <1>8, <1>9, <1>10, <1>11 DEF Next

LEMMA InitIInv == Init => IInv
<1> SUFFICES ASSUME Init PROVE IInv
  OBVIOUS
<1>1. RP!IInv
  <2>1. (mixed \/ unlocks > 0) = FALSE
    BY DEF Init, R!Init
  <2>2. RP!Init
    BY <2>1 DEF Init, R!Init, RP!Init, R!JobIds, RP!JobIds, R!NewJob, RP!NewJob, R!NoJob, RP!NoJob
  <2> QED
    BY <2>2, RP!InitIInv, ConstantsFit
<1>2. Typed
  <2>1. mixed \in BOOLEAN
    BY DEF Init, R!Init
  <2> QED
    BY <2>1 DEF Init, Typed, Zero
<1>3. \A j \in R!JobIds : job[j].state = "NoState"
  BY DEF Init, R!Init, R!NewJob
<1>4. Metered
  <2>1. ASSUME NEW t, NEW states, "NoState" \notin states
        PROVE  Recount(job, t, states) = 0
    <3>1. Found(job, t, states) = {}
      BY <1>3, <2>1 DEF Found, InTopic
    <3> QED
      BY <3>1, FS_EmptySet DEF Recount
  <2>2. \A t : /\ Recount(job, t, Counted) = 0 /\ Recount(job, t, Working) = 0
               /\ \A s \in Counted : Recount(job, t, {s}) = 0
    BY <2>1 DEF Counted, Working
  <2> QED
    BY <2>2 DEF Init, Metered, Zero
<1>5. SuccessRateAgrees
  <2>1. {"Succeeded", "Failed", "Canceled"} \in SUBSET Counted
    BY DEF Counted, R!States
  <2> QED
    BY <2>1 DEF Init, SuccessRateAgrees
<1>6. LocksAreCounted
  <2>1. \A t : LockedFor(lock, t) = {}
    BY DEF Init, R!Init, LockedFor
  <2> QED
    BY <2>1, FS_EmptySet DEF Init, LocksAreCounted, Zero
<1>7. OwnersAreShown
  <2>1. \A j \in R!JobIds : j # R!NoJob
    BY ServiceMetricsAssumption DEF R!JobIds, R!NoJob
  <2> QED
    BY <1>3, <2>1 DEF Init, R!Init, OwnersAreShown, RP!Busy
<1> QED
  BY <1>1, <1>2, <1>4, <1>5, <1>6, <1>7 DEF IInv

LEMMA Invariance == Spec => []IInv
<1>1. IInv /\ [Next]_vars => IInv'
  BY NextKeeps
<1> QED
  BY <1>1, InitIInv, PTL DEF Spec

-----------------------------------------------------------------------------
\* OnJobStateChange and UpdateTopicMetrics never look at the jobs: each event only moves one
\* job from one counter to another.  For any number of jobs, topics, events, crashes and calls
\* of the admin API, the counters, the totals and the active jobs are those a recount finds,
\* and the success rates those of the counters until the first restart, which forgets them.
THEOREM CountsAreKept == Spec => []CountsAreRight
<1>1. ASSUME IInv
      PROVE  CountsAreRight
  <2>1. StatesAreCounted
    <3>1. \A t : LiveIn(t) = Found(job, t, Counted)
      BY DEF LiveIn, Found
    <3>2. \A t, s : {j \in InTopic(t) : job[j].state = s} = Found(job, t, {s})
      BY DEF Found
    <3>3. \A t \in Topics :
            /\ existing[t] = Cardinality(Found(job, t, Counted))
            /\ \A s \in Counted : count[t][s] = Cardinality(Found(job, t, {s}))
      BY <1>1 DEF IInv, Metered, Recount
    <3>4. ASSUME NEW t \in Topics
          PROVE  existing[t] = Cardinality(LiveIn(t))
      BY <3>1, <3>3
    <3>5. ASSUME NEW t \in Topics, NEW s \in Counted
          PROVE  count[t][s] = Cardinality({j \in InTopic(t) : job[j].state = s})
      <4>1. {j \in InTopic(t) : job[j].state = s} = Found(job, t, {s})
        BY <3>2
      <4>2. count[t][s] = Cardinality(Found(job, t, {s}))
        BY <3>3
      <4> QED
        BY <4>1, <4>2
    <3> QED
      BY <3>4, <3>5 DEF StatesAreCounted
  <2>2. TotalsAgree
    <3>1. Working \in SUBSET Counted
      BY DEF Working, Counted, R!States
    <3> QED
      BY <1>1, <3>1, WorkingAreThree DEF IInv, Metered, TotalsAgree, Working
  <2> QED
    BY <1>1, <2>1, <2>2 DEF IInv, CountsAreRight
<1> QED
  BY <1>1, Invariance, PTL

\* UpdateResourcesLockedCountMetric adds what an operation locked and takes off what it
\* released: each topic counts the locks of its jobs, whatever operations, unlocks and
\* restarts came.  The owners of the resources follow the events and not the locks: between
\* operations they agree, unless two active jobs were let claim one resource.
THEOREM LocksAreRight == Spec => []LocksAreShown
<1>1. ASSUME IInv
      PROVE  LocksAreShown
  <2>1. ASSUME R!Idle, unlocks = 0, ~mixed
        PROVE  owner = lock
    <3>1. /\ owner = [r \in Resources |-> owner[r]] /\ lock = [r \in Resources |-> lock[r]]
      BY <1>1 DEF IInv, Typed, RP!IInv, RP!Typed
    <3>2. \A r \in Resources, j \in R!JobIds :
            lock[r] = j <=> job[j].state \in RP!Busy /\ r \in Needs[j]
      <4>1. RP!IInv /\ todo = <<>> /\ ~(mixed \/ unlocks > 0)
        BY <1>1, <2>1 DEF IInv, R!Idle
      <4> QED
        BY <4>1, RP!NothingToDo, ConstantsFit
    <3>3. \A r \in Resources :
            /\ owner[r] \in R!JobIds \cup {R!NoJob} /\ lock[r] \in R!JobIds \cup {R!NoJob}
            /\ \A j \in R!JobIds : owner[r] = j <=> job[j].state \in RP!Busy /\ r \in Needs[j]
      BY <1>1, <2>1 DEF IInv, OwnersAreShown
    <3>4. \A r \in Resources : owner[r] = lock[r]
      BY <3>2, <3>3
    <3> QED
      BY <3>1, <3>4
  <2> QED
    BY <1>1, <2>1 DEF IInv, LocksAreCounted, LocksAreShown
<1> QED
  BY <1>1, Invariance, PTL
-----------------------------------------------------------------------------
(* The load test: what its consumers count.  A consumer has a job from the *)
(* pull to the count, and the server may have given it to another one.     *)

Has(s, j) == s.pc \notin {"pull", "over"} /\ s.job = j

\* The server said that this consumer ended its job; the consumer has not counted it yet.
ToCount(s) == s.pc = "succeeded" \/ (s.pc \in {"load", "store"} /\ s.reached)

Silent(s) == s.pc \in {"load", "store"} /\ s.action = "timeout"

Nobodys(j) == \A c \in LT!Workers : ~Has(consumer[c], j)

Where == {"pull", "pulled", "succeeded", "load", "store", "over"}
ConsumerStates ==
  [pc : Where, job : Jobs \cup {LT!NoJob},
   action : {"none", "success", "cancel", "failure", "timeout"}, reached : BOOLEAN, value : Nat]

Sensible(s) ==
  /\ s.pc \notin {"pull", "over"} => s.job \in Jobs
  /\ s.pc = "pulled" => s.action # "timeout"
  /\ s.pc \in {"load", "store"} => s.action \in {"failure", "timeout"}

TestTyped ==
  /\ phase = [j \in Jobs |-> phase[j]]
  /\ fails \in [Jobs -> Nat] /\ jobsFailures \in [Jobs -> Nat] /\ counted \in [Jobs -> Nat]
  /\ consumer \in [LT!Workers -> ConsumerStates] /\ \A c \in LT!Workers : Sensible(consumer[c])

NothingCounted ==
  main = "start" =>
    /\ \A c \in LT!Workers : consumer[c].pc = "pull"
    /\ \A j \in Jobs : counted[j] = 0 /\ jobsFailures[j] = 0

\* A consumer that will not answer is alone, and its job still runs.
SilentRuns ==
  \A c \in LT!Workers : Silent(consumer[c]) =>
    ~consumer[c].reached /\ phase[consumer[c].job] = "leased" /\ settings.workers = 1

\* What is to be counted has ended for good, was not counted, and is counted by nobody else.
CountsAreOwed ==
  \A c \in LT!Workers : ToCount(consumer[c]) =>
    /\ phase[consumer[c].job] = "done" /\ counted[consumer[c].job] = 0
    /\ \A d \in LT!Workers : ToCount(consumer[d]) /\ d # c => consumer[d].job # consumer[c].job

\* What was counted has ended for good, or is a last run that nobody will answer.
CountedIsOver ==
  \A j \in Jobs : counted[j] <= 1 /\ (counted[j] = 1 =>
    phase[j] = "done" \/ (phase[j] = "leased" /\ LT!ReachesMaxRetry(j) /\ Nobodys(j)))

\* Alone, a consumer counts no more failures than the server, but for the run it leaves to
\* its timeout.
CountIsBehind ==
  settings.workers = 1 =>
    /\ \A j \in Jobs :
         jobsFailures[j] <= fails[j] + IF phase[j] = "leased" /\ Nobodys(j) THEN 1 ELSE 0
    /\ \A c \in LT!Workers : LET s == consumer[c] IN
         /\ s.pc = "load" /\ s.action = "failure" => jobsFailures[s.job] + 1 <= fails[s.job]
         /\ s.pc = "store" => s.value + (IF s.action = "failure" THEN 1 ELSE 0) <= fails[s.job]

Counting == NothingCounted /\ SilentRuns /\ CountsAreOwed /\ CountedIsOver /\ CountIsBehind

TestInv == TestTyped /\ (LT!CountIsReliable => Counting)

-----------------------------------------------------------------------------
(* What the requests do to a job.                                          *)

Same(j) ==
  /\ phase'[j] = "leased" <=> phase[j] = "leased"
  /\ phase'[j] = "done" <=> phase[j] = "done"

LEMMA SuccessEnds ==
  ASSUME TestTyped, NEW j \in Jobs, LT!SetJobAsSuccessful(j)
  PROVE  /\ phase' = [i \in Jobs |-> phase'[i]] /\ fails' = fails
         /\ phase[j] = "leased" /\ phase'[j] = "done"
         /\ \A i \in Jobs \ {j} : Same(i)
BY DEF TestTyped, LT!SetJobAsSuccessful, LT!Finish, LT!Offer, Same

LEMMA CancelFrees ==
  ASSUME TestTyped, NEW j \in Jobs, LT!CancelJob(j)
  PROVE  /\ phase' = [i \in Jobs |-> phase'[i]] /\ fails' = fails
         /\ phase[j] = "leased" /\ phase'[j] \notin {"leased", "done"}
         /\ \A i \in Jobs \ {j} : Same(i)
BY DEF TestTyped, LT!CancelJob, LT!GiveBack, LT!Offer, Same

LEMMA FailureEnds ==
  ASSUME TestTyped, NEW j \in Jobs, LT!FailJob(j)
  PROVE  /\ phase' = [i \in Jobs |-> phase'[i]]
         /\ fails' \in [Jobs -> Nat] /\ fails'[j] = fails[j] + 1
         /\ \A i \in Jobs \ {j} : Same(i) /\ fails'[i] = fails[i]
         /\ phase[j] = "leased" /\ phase'[j] # "leased"
         /\ phase'[j] = "done" <=> LT!ReachesMaxRetry(j)
<1>1. /\ fails' \in [Jobs -> Nat] /\ fails'[j] = fails[j] + 1
      /\ \A i \in Jobs \ {j} : fails'[i] = fails[i]
  BY DEF TestTyped, LT!FailJob
<1>2. CASE LT!ReachesMaxRetry(j)
  BY <1>1, <1>2 DEF TestTyped, LT!FailJob, LT!Finish, LT!Offer, Same
<1>3. CASE ~LT!ReachesMaxRetry(j)
  BY <1>1, <1>3 DEF TestTyped, LT!FailJob, LT!GiveBack, LT!Offer, Same
<1> QED
  BY <1>2, <1>3

LEMMA PullLeases ==
  ASSUME TestTyped, NEW j \in Jobs, LT!PullJob(j)
  PROVE  /\ phase' = [i \in Jobs |-> phase'[i]] /\ fails' = fails
         /\ phase[j] = "ready" /\ phase'[j] = "leased"
         /\ \A i \in Jobs \ {j} : Same(i)
BY DEF TestTyped, LT!PullJob, LT!Lease, Same

LEMMA OthersWait ==
  ASSUME TestTyped,
         \/ LT!Refused
         \/ \E j \in Jobs : LT!OfferJob(j) \/ \E needed : LT!CreateJob(j, needed)
  PROVE  /\ phase' = [i \in Jobs |-> phase'[i]] /\ fails' = fails
         /\ \A i \in Jobs : Same(i)
<1>1. CASE LT!Refused
  BY <1>1 DEF TestTyped, LT!Refused, LT!apiVars, LT!jqVars, Same
<1>2. ASSUME NEW j \in Jobs, LT!OfferJob(j)
      PROVE  /\ phase' = [i \in Jobs |-> phase'[i]] /\ fails' = fails
             /\ \A i \in Jobs : Same(i)
  BY <1>2 DEF TestTyped, LT!OfferJob, LT!Serve, LT!Offer, Same
<1>3. ASSUME NEW j \in Jobs, NEW needed, LT!CreateJob(j, needed)
      PROVE  /\ phase' = [i \in Jobs |-> phase'[i]] /\ fails' = fails
             /\ \A i \in Jobs : Same(i)
  BY <1>3 DEF TestTyped, LT!CreateJob, LT!Submit, LT!Offer, Same
<1> QED
  BY <1>1, <1>2, <1>3

-----------------------------------------------------------------------------
(* Where a step leaves a consumer.                                         *)

Left(s, pc, reached, value) ==
  [pc |-> pc, job |-> s.job, action |-> s.action, reached |-> reached, value |-> value]

LEMMA PlaceLeft ==
  ASSUME NEW s \in ConsumerStates, NEW pc \in Where
  PROVE  /\ [s EXCEPT !.pc = pc] = Left(s, pc, s.reached, s.value)
         /\ Left(s, pc, s.reached, s.value) \in ConsumerStates
<1>1. [s EXCEPT !.pc = pc] \in ConsumerStates
  BY DEF ConsumerStates
<1>2. [s EXCEPT !.pc = pc] = Left(s, pc, s.reached, s.value)
  BY DEF ConsumerStates, Left
<1> QED
  BY <1>1, <1>2

LEMMA ReachedLeft ==
  ASSUME NEW s \in ConsumerStates, NEW pc \in Where, NEW reached \in BOOLEAN
  PROVE  [s EXCEPT !.pc = pc, !.reached = reached] = Left(s, pc, reached, s.value)
<1>1. PICK r \in ConsumerStates : r = [s EXCEPT !.pc = pc] /\ r = Left(s, pc, s.reached, s.value)
  BY PlaceLeft
<1>2. [s EXCEPT !.pc = pc, !.reached = reached] = [r EXCEPT !.reached = reached]
  BY <1>1
<1>3. [r EXCEPT !.reached = reached]
        = [pc |-> r.pc, job |-> r.job, action |-> r.action, reached |-> reached, value |-> r.value]
  BY DEF ConsumerStates
<1>4. r.pc = pc /\ r.job = s.job /\ r.action = s.action /\ r.value = s.value
  BY <1>1 DEF Left
<1> QED
  BY <1>2, <1>3, <1>4 DEF Left

LEMMA ValueLeft ==
  ASSUME NEW s \in ConsumerStates, NEW pc \in Where, NEW value \in Nat
  PROVE  [s EXCEPT !.pc = pc, !.value = value] = Left(s, pc, s.reached, value)
<1>1. PICK r \in ConsumerStates : r = [s EXCEPT !.pc = pc] /\ r = Left(s, pc, s.reached, s.value)
  BY PlaceLeft
<1>2. [s EXCEPT !.pc = pc, !.value = value] = [r EXCEPT !.value = value]
  BY <1>1
<1>3. [r EXCEPT !.value = value]
        = [pc |-> r.pc, job |-> r.job, action |-> r.action, reached |-> r.reached, value |-> value]
  BY DEF ConsumerStates
<1>4. r.pc = pc /\ r.job = s.job /\ r.action = s.action /\ r.reached = s.reached
  BY <1>1 DEF Left
<1> QED
  BY <1>2, <1>3, <1>4 DEF Left

LEMMA PullsAreSensible ==
  /\ LT!Pulling \in ConsumerStates /\ LT!Pulling.pc = "pull"
  /\ [LT!Pulling EXCEPT !.pc = "over"] \in ConsumerStates
  /\ [LT!Pulling EXCEPT !.pc = "over"].pc = "over"
BY DEF LT!Pulling, ConsumerStates, Where

\* One consumer moves.
LEMMA OneMoves ==
  ASSUME TestTyped, settings' = settings, NEW c \in LT!Workers, NEW s \in ConsumerStates,
         Sensible(s), consumer' = [consumer EXCEPT ![c] = s],
         phase' = [j \in Jobs |-> phase'[j]], fails' \in [Jobs -> Nat],
         jobsFailures' \in [Jobs -> Nat], counted' \in [Jobs -> Nat]
  PROVE  /\ TestTyped' /\ LT!Workers' = LT!Workers
         /\ consumer'[c] = s
         /\ \A d \in LT!Workers : d # c => consumer'[d] = consumer[d]
<1>1. LT!Workers' = LT!Workers
  BY DEF LT!Workers
<1>2. consumer' \in [LT!Workers -> ConsumerStates]
  BY DEF TestTyped
<1>3. consumer'[c] = s /\ \A d \in LT!Workers : d # c => consumer'[d] = consumer[d]
  BY DEF TestTyped
<1>4. \A d \in LT!Workers : Sensible(consumer'[d])
  BY <1>3 DEF TestTyped
<1> QED
  BY <1>1, <1>2, <1>3, <1>4 DEF TestTyped

LEMMA OneWorker ==
  ASSUME settings.workers = 1
  PROVE  \A c, d \in LT!Workers : c = d
BY DEF LT!Workers

\* A late consumer is not one that will not answer, and with two consumers there are none.
LEMMA SilentIfFew ==
  ASSUME LT!CountIsReliable, "timeout" \in LT!Actions(LT!monkeyTestLevel)
  PROVE  settings.workers = 1
BY DEF LT!CountIsReliable, LT!Actions, LT!monkeyTestLevel

-----------------------------------------------------------------------------
(* The steps.                                                              *)

LEMMA TestBegins == LT!LTInit => TestInv
<1> SUFFICES ASSUME LT!LTInit PROVE TestInv
  OBVIOUS
<1>1. \A c \in LT!Workers : consumer[c] = LT!Pulling
  BY DEF LT!LTInit
<1>2. TestTyped
  <2>1. consumer \in [LT!Workers -> ConsumerStates] /\ \A c \in LT!Workers : Sensible(consumer[c])
    BY PullsAreSensible DEF LT!LTInit, Sensible
  <2> QED
    BY <2>1 DEF LT!LTInit, TestTyped
<1>3. \A j \in Jobs : counted[j] = 0 /\ jobsFailures[j] = 0 /\ fails[j] = 0 /\ phase[j] # "leased"
  BY DEF LT!LTInit
<1>4. NothingCounted /\ SilentRuns /\ CountsAreOwed /\ CountedIsOver
  BY <1>1, <1>3, PullsAreSensible
     DEF NothingCounted, SilentRuns, Silent, CountsAreOwed, ToCount, CountedIsOver
<1>5. CountIsBehind
  BY <1>1, <1>3, PullsAreSensible DEF CountIsBehind
<1> QED
  BY <1>2, <1>4, <1>5 DEF TestInv, Counting

\* The steps of main and of the producers, the answers that are lost to a consumer that has no
\* job, and what the server offers: at most a job that was ready is leased.
LEMMA QuietStep ==
  ASSUME TestInv, settings' = settings, consumer' = consumer, counted' = counted, fails' = fails,
         phase' = [j \in Jobs |-> phase'[j]],
         \A j \in Jobs : Same(j) \/ (phase[j] = "ready" /\ phase'[j] = "leased"),
         jobsFailures' \in [Jobs -> Nat],
         \A j \in Jobs : jobsFailures'[j] \in {0, jobsFailures[j]},
         main' = "start" => main = "start"
  PROVE  TestInv'
<1>1. LT!Workers' = LT!Workers /\ LT!CountIsReliable' = LT!CountIsReliable
  BY DEF LT!Workers, LT!CountIsReliable, LT!monkeyTestLevel
<1>2. TestTyped'
  BY <1>1 DEF TestInv, TestTyped
<1>3. ASSUME LT!CountIsReliable
      PROVE  Counting'
  <2>1. TestTyped /\ Counting
    BY <1>3 DEF TestInv
  <2>2. NothingCounted'
    BY <1>1, <2>1 DEF Counting, NothingCounted
  <2>3. SilentRuns'
    BY <1>1, <2>1 DEF Counting, SilentRuns, Silent, TestTyped, Sensible, Same
  <2>4. CountsAreOwed'
    BY <1>1, <2>1 DEF Counting, CountsAreOwed, ToCount, TestTyped, Sensible, Same
  <2>5. CountedIsOver'
    BY <1>1, <2>1 DEF Counting, CountedIsOver, Nobodys, LT!ReachesMaxRetry, Same
  <2>6. CountIsBehind'
    <3> SUFFICES ASSUME settings.workers = 1
                 PROVE  CountIsBehind'
      BY DEF CountIsBehind
    <3>1. ASSUME NEW j \in Jobs
          PROVE  jobsFailures'[j] <= fails'[j]
                   + IF phase'[j] = "leased" /\ Nobodys(j)' THEN 1 ELSE 0
      <4>1. jobsFailures'[j] <= jobsFailures[j] /\ jobsFailures'[j] \in Nat
            /\ jobsFailures[j] \in Nat /\ fails[j] \in Nat
        BY <2>1 DEF TestTyped
      <4>2. jobsFailures[j] <= fails[j] + IF phase[j] = "leased" /\ Nobodys(j) THEN 1 ELSE 0
        BY <2>1 DEF Counting, CountIsBehind
      <4>3. Nobodys(j)' <=> Nobodys(j)
        BY <1>1 DEF Nobodys
      <4>4. phase[j] = "leased" => phase'[j] = "leased"
        BY DEF Same
      <4> QED
        BY <4>1, <4>2, <4>3, <4>4
    <3>2. ASSUME NEW c \in LT!Workers
          PROVE  LET s == consumer[c] IN
                 /\ s.pc = "load" /\ s.action = "failure" => jobsFailures'[s.job] + 1 <= fails[s.job]
                 /\ s.pc = "store" => s.value + (IF s.action = "failure" THEN 1 ELSE 0) <= fails[s.job]
      <4>1. consumer[c].pc = "load" => consumer[c].job \in Jobs
        BY <2>1 DEF TestTyped, Sensible
      <4>2. \A j \in Jobs : jobsFailures'[j] <= jobsFailures[j] /\ jobsFailures'[j] \in Nat
                            /\ jobsFailures[j] \in Nat /\ fails[j] \in Nat
        BY <2>1 DEF TestTyped
      <4> QED
        BY <2>1, <4>1, <4>2 DEF Counting, CountIsBehind
    <3> QED
      BY <1>1, <3>1, <3>2 DEF CountIsBehind
  <2> QED
    BY <2>2, <2>3, <2>4, <2>5, <2>6 DEF Counting
<1> QED
  BY <1>1, <1>2, <1>3 DEF TestInv

\* A consumer that leaves its job: it gave it back, its request was refused, or its answer was
\* lost, and the server has the last word.
LEMMA LeavingStep ==
  ASSUME TestInv, settings' = settings, main' = main, LT!CountIsReliable => main # "start",
         NEW c \in LT!Workers, NEW s \in ConsumerStates, consumer' = [consumer EXCEPT ![c] = s],
         consumer[c].pc \in {"pull", "pulled"}, s.pc \in {"pull", "over"},
         counted' = counted, jobsFailures' = jobsFailures,
         phase' = [j \in Jobs |-> phase'[j]], fails' \in [Jobs -> Nat],
         \A j \in Jobs : fails'[j] >= fails[j],
         \A j \in Jobs : \/ Same(j) /\ (Has(consumer[c], j) => phase[j] # "leased")
                         \/ Has(consumer[c], j) /\ phase[j] = "leased" /\ phase'[j] # "leased"
  PROVE  TestInv'
<1>1. LT!Workers' = LT!Workers /\ LT!CountIsReliable' = LT!CountIsReliable
  BY DEF LT!Workers, LT!CountIsReliable, LT!monkeyTestLevel
<1>2. /\ TestTyped' /\ consumer'[c] = s
      /\ \A d \in LT!Workers : d # c => consumer'[d] = consumer[d]
  <2>1. TestTyped /\ Sensible(s) /\ jobsFailures' \in [Jobs -> Nat] /\ counted' \in [Jobs -> Nat]
    BY DEF TestInv, TestTyped, Sensible
  <2> QED
    BY <2>1, OneMoves
<1>3. ASSUME LT!CountIsReliable
      PROVE  Counting'
  <2>1. TestTyped /\ Counting
    BY <1>3 DEF TestInv
  <2>2. NothingCounted'
    BY <1>3 DEF NothingCounted
  <2>3. ~Silent(s) /\ ~ToCount(s) /\ \A j : ~Has(s, j)
    BY DEF Silent, ToCount, Has
  <2>4. SilentRuns'
    <3> SUFFICES ASSUME NEW d \in LT!Workers, Silent(consumer'[d])
                 PROVE  /\ ~consumer'[d].reached /\ phase'[consumer'[d].job] = "leased"
                        /\ settings.workers = 1
      BY <1>1 DEF SilentRuns
    <3>1. d # c /\ consumer'[d] = consumer[d]
      BY <1>2, <2>3
    <3>2. settings.workers = 1
      BY <2>1, <3>1 DEF Counting, SilentRuns
    <3> QED
      BY <3>1, <3>2, OneWorker
  <2>5. CountsAreOwed'
    <3> SUFFICES ASSUME NEW d \in LT!Workers, ToCount(consumer'[d])
                 PROVE  /\ phase'[consumer'[d].job] = "done" /\ counted[consumer'[d].job] = 0
                        /\ \A e \in LT!Workers : ToCount(consumer'[e]) /\ e # d =>
                             consumer'[e].job # consumer'[d].job
      BY <1>1 DEF CountsAreOwed
    <3>1. d # c /\ consumer'[d] = consumer[d] /\ consumer[d].job \in Jobs
      BY <1>2, <2>1, <2>3 DEF TestTyped, Sensible, ToCount
    <3>2. phase[consumer[d].job] = "done" /\ counted[consumer[d].job] = 0
      BY <2>1, <3>1 DEF Counting, CountsAreOwed
    <3>3. phase'[consumer[d].job] = "done"
      BY <3>1, <3>2 DEF Same
    <3>4. ASSUME NEW e \in LT!Workers, ToCount(consumer'[e]), e # d
          PROVE  consumer'[e].job # consumer'[d].job
      <4>1. e # c /\ consumer'[e] = consumer[e]
        BY <1>2, <2>3, <3>4
      <4> QED
        BY <2>1, <3>1, <3>4, <4>1 DEF Counting, CountsAreOwed
    <3> QED
      BY <3>1, <3>2, <3>3, <3>4
  <2>6. \A j \in Jobs : /\ Nobodys(j) => Nobodys(j)'
                        /\ ~Has(consumer[c], j) => (Nobodys(j)' <=> Nobodys(j))
    BY <1>1, <1>2, <2>3 DEF Nobodys
  <2>7. CountedIsOver'
    <3> SUFFICES ASSUME NEW j \in Jobs
                 PROVE  counted[j] <= 1 /\ (counted[j] = 1 =>
                          phase'[j] = "done"
                            \/ (phase'[j] = "leased" /\ LT!ReachesMaxRetry(j)' /\ Nobodys(j)'))
      BY DEF CountedIsOver
    <3>1. counted[j] <= 1 /\ (counted[j] = 1 =>
            phase[j] = "done" \/ (phase[j] = "leased" /\ LT!ReachesMaxRetry(j) /\ Nobodys(j)))
      BY <2>1 DEF Counting, CountedIsOver
    <3>2. Nobodys(j) => ~Has(consumer[c], j)
      BY DEF Nobodys
    <3>3. LT!ReachesMaxRetry(j) => LT!ReachesMaxRetry(j)'
      <4>1. fails[j] \in Nat /\ fails'[j] \in Nat /\ MaxRetry \in Nat
        BY <2>1, ServiceMetricsAssumption DEF TestTyped
      <4> QED
        BY <4>1 DEF LT!ReachesMaxRetry
    <3> QED
      BY <2>6, <3>1, <3>2, <3>3 DEF Same
  <2>8. CountIsBehind'
    <3> SUFFICES ASSUME settings.workers = 1
                 PROVE  CountIsBehind'
      BY DEF CountIsBehind
    <3>1. ASSUME NEW j \in Jobs
          PROVE  jobsFailures[j] <= fails'[j]
                   + IF phase'[j] = "leased" /\ Nobodys(j)' THEN 1 ELSE 0
      <4>1. jobsFailures[j] \in Nat /\ fails[j] \in Nat /\ fails'[j] \in Nat /\ fails'[j] >= fails[j]
        BY <2>1 DEF TestTyped
      <4>2. jobsFailures[j] <= fails[j] + IF phase[j] = "leased" /\ Nobodys(j) THEN 1 ELSE 0
        BY <2>1 DEF Counting, CountIsBehind
      <4>3. Nobodys(j) => ~Has(consumer[c], j)
        BY DEF Nobodys
      <4> QED
        BY <2>6, <4>1, <4>2, <4>3 DEF Same
    <3>2. \A d \in LT!Workers : consumer'[d].pc \in {"pull", "over"}
      BY <1>2, OneWorker
    <3> QED
      BY <1>1, <3>1, <3>2 DEF CountIsBehind
  <2> QED
    BY <2>2, <2>4, <2>5, <2>7, <2>8 DEF Counting
<1> QED
  BY <1>1, <1>2, <1>3 DEF TestInv

\* The answer that ends the run of the consumer: the job is to be counted if it is done.
LEMMA AnswerStep ==
  ASSUME TestInv, settings' = settings, main' = main, LT!CountIsReliable => main # "start",
         NEW c \in LT!Workers, NEW j \in Jobs, NEW s \in ConsumerStates,
         consumer' = [consumer EXCEPT ![c] = s], consumer[c].pc = "pulled",
         consumer[c].job = j, s.job = j, s.pc \in {"succeeded", "load"},
         ToCount(s) => phase'[j] = "done",
         s.pc = "load" => s.action = "failure" /\ fails'[j] = fails[j] + 1,
         counted' = counted, jobsFailures' = jobsFailures,
         phase' = [i \in Jobs |-> phase'[i]], fails' \in [Jobs -> Nat],
         phase[j] = "leased", phase'[j] # "leased", fails'[j] >= fails[j],
         \A i \in Jobs \ {j} : Same(i) /\ fails'[i] = fails[i]
  PROVE  TestInv'
<1>1. LT!Workers' = LT!Workers /\ LT!CountIsReliable' = LT!CountIsReliable
  BY DEF LT!Workers, LT!CountIsReliable, LT!monkeyTestLevel
<1>2. /\ TestTyped' /\ consumer'[c] = s
      /\ \A d \in LT!Workers : d # c => consumer'[d] = consumer[d]
  <2>1. TestTyped /\ Sensible(s) /\ jobsFailures' \in [Jobs -> Nat] /\ counted' \in [Jobs -> Nat]
    BY DEF TestInv, TestTyped, Sensible
  <2> QED
    BY <2>1, OneMoves
<1>3. ASSUME LT!CountIsReliable
      PROVE  Counting'
  <2>1. TestTyped /\ Counting
    BY <1>3 DEF TestInv
  <2>2. NothingCounted'
    BY <1>3 DEF NothingCounted
  <2>3. Has(consumer[c], j) /\ ~Silent(s) /\ \A i : Has(s, i) <=> Has(consumer[c], i)
    BY DEF Silent, Has
  <2>4. SilentRuns'
    <3> SUFFICES ASSUME NEW d \in LT!Workers, Silent(consumer'[d])
                 PROVE  /\ ~consumer'[d].reached /\ phase'[consumer'[d].job] = "leased"
                        /\ settings.workers = 1
      BY <1>1 DEF SilentRuns
    <3>1. d # c /\ consumer'[d] = consumer[d]
      BY <1>2, <2>3
    <3>2. settings.workers = 1
      BY <2>1, <3>1 DEF Counting, SilentRuns
    <3> QED
      BY <3>1, <3>2, OneWorker
  <2>5. counted[j] = 0 /\ \A d \in LT!Workers : ToCount(consumer[d]) => consumer[d].job # j
    <3>1. ~Nobodys(j)
      BY <2>3 DEF Nobodys
    <3>2. counted[j] \in Nat /\ counted[j] <= 1 /\ counted[j] # 1
      BY <2>1, <3>1 DEF Counting, CountedIsOver, TestTyped
    <3> QED
      BY <2>1, <3>2 DEF Counting, CountsAreOwed
  <2>6. CountsAreOwed'
    <3> SUFFICES ASSUME NEW d \in LT!Workers, ToCount(consumer'[d])
                 PROVE  /\ phase'[consumer'[d].job] = "done" /\ counted[consumer'[d].job] = 0
                        /\ \A e \in LT!Workers : ToCount(consumer'[e]) /\ e # d =>
                             consumer'[e].job # consumer'[d].job
      BY <1>1 DEF CountsAreOwed
    <3>1. CASE d = c
      <4>1. consumer'[d] = s
        BY <1>2, <3>1
      <4>2. \A e \in LT!Workers : ToCount(consumer'[e]) /\ e # d => consumer'[e].job # j
        BY <1>2, <2>5, <3>1
      <4> QED
        BY <2>5, <4>1, <4>2
    <3>2. CASE d # c
      <4>1. consumer'[d] = consumer[d] /\ consumer[d].job \in Jobs /\ consumer[d].job # j
        BY <1>2, <2>1, <2>5, <3>2 DEF TestTyped, Sensible, ToCount
      <4>2. phase'[consumer[d].job] = "done" /\ counted[consumer[d].job] = 0
        BY <2>1, <4>1 DEF Counting, CountsAreOwed, Same
      <4>3. ASSUME NEW e \in LT!Workers, ToCount(consumer'[e]), e # d
            PROVE  consumer'[e].job # consumer'[d].job
        <5>1. CASE e = c
          BY <1>2, <4>1, <5>1
        <5>2. CASE e # c
          BY <1>2, <2>1, <4>1, <4>3, <5>2 DEF Counting, CountsAreOwed
        <5> QED
          BY <5>1, <5>2
      <4> QED
        BY <4>1, <4>2, <4>3
    <3> QED
      BY <3>1, <3>2
  <2>7. \A i \in Jobs : Nobodys(i)' <=> Nobodys(i)
    BY <1>1, <1>2, <2>3 DEF Nobodys
  <2>8. CountedIsOver'
    BY <2>1, <2>5, <2>7 DEF Counting, CountedIsOver, LT!ReachesMaxRetry, Same
  <2>9. CountIsBehind'
    <3> SUFFICES ASSUME settings.workers = 1
                 PROVE  CountIsBehind'
      BY DEF CountIsBehind
    <3>1. jobsFailures[j] \in Nat /\ fails[j] \in Nat /\ fails'[j] \in Nat
      BY <2>1 DEF TestTyped
    <3>2. jobsFailures[j] <= fails[j]
      <4>1. ~Nobodys(j)
        BY <2>3 DEF Nobodys
      <4> QED
        BY <2>1, <3>1, <4>1 DEF Counting, CountIsBehind
    <3>3. ASSUME NEW i \in Jobs
          PROVE  jobsFailures[i] <= fails'[i]
                   + IF phase'[i] = "leased" /\ Nobodys(i)' THEN 1 ELSE 0
      <4>1. CASE i = j
        BY <3>1, <3>2, <4>1
      <4>2. CASE i # j
        BY <2>1, <2>7, <4>2 DEF Counting, CountIsBehind, Same
      <4> QED
        BY <4>1, <4>2
    <3>4. \A d \in LT!Workers : consumer'[d] = s
      BY <1>2, OneWorker
    <3>5. s.pc = "load" => jobsFailures[j] + 1 <= fails'[j]
      BY <3>1, <3>2
    <3> QED
      BY <1>1, <3>3, <3>4, <3>5 DEF CountIsBehind
  <2> QED
    BY <2>2, <2>4, <2>6, <2>8, <2>9 DEF Counting
<1> QED
  BY <1>1, <1>2, <1>3 DEF TestInv

\* A consumer counts: what it owes, or the last failure of a run it did not answer.
LEMMA CountStep ==
  ASSUME TestInv, settings' = settings, main' = main, LT!CountIsReliable => main # "start",
         NEW c \in LT!Workers, NEW j \in Jobs, NEW complete \in BOOLEAN,
         consumer' = [consumer EXCEPT ![c] = LT!Pulling], consumer[c].job = j,
         \/ /\ consumer[c].pc = "succeeded" /\ complete = TRUE /\ jobsFailures' = jobsFailures
         \/ /\ consumer[c].pc = "store"
            /\ jobsFailures' = [jobsFailures EXCEPT ![j] = consumer[c].value + 1]
            /\ complete = IF consumer[c].action = "failure" THEN consumer[c].reached
                          ELSE consumer[c].value + 1 >= MaxRetry,
         counted' = [counted EXCEPT ![j] = IF complete THEN @ + 1 ELSE @],
         phase' = phase, fails' = fails
  PROVE  TestInv'
<1> DEFINE s == consumer[c]
<1>1. LT!Workers' = LT!Workers /\ LT!CountIsReliable' = LT!CountIsReliable
  BY DEF LT!Workers, LT!CountIsReliable, LT!monkeyTestLevel
<1>2. /\ TestTyped /\ s \in ConsumerStates /\ Sensible(s) /\ s.value \in Nat
      /\ jobsFailures' \in [Jobs -> Nat] /\ counted' \in [Jobs -> Nat]
  <2>1. TestTyped /\ s \in ConsumerStates /\ Sensible(s)
    BY DEF TestInv, TestTyped
  <2>2. s.value \in Nat
    BY <2>1 DEF ConsumerStates
  <2> QED
    BY <2>1, <2>2 DEF TestTyped
<1>3. /\ TestTyped' /\ consumer'[c] = LT!Pulling
      /\ \A d \in LT!Workers : d # c => consumer'[d] = consumer[d]
  <2>1. Sensible(LT!Pulling) /\ phase' = [i \in Jobs |-> phase'[i]] /\ fails' \in [Jobs -> Nat]
    BY <1>2, PullsAreSensible DEF TestTyped, Sensible
  <2> QED
    BY <1>2, <2>1, PullsAreSensible, OneMoves
<1>4. ASSUME LT!CountIsReliable
      PROVE  Counting'
  <2>1. Counting
    BY <1>4 DEF TestInv
  <2>2. NothingCounted'
    BY <1>4 DEF NothingCounted
  <2>3. ~Silent(LT!Pulling) /\ ~ToCount(LT!Pulling) /\ \A i : ~Has(LT!Pulling, i)
    BY PullsAreSensible DEF Silent, ToCount, Has
  <2>4. Has(s, j) /\ ~Nobodys(j)
    BY DEF Has, Nobodys
  <2>5. counted[j] \in Nat /\ (complete => counted[j] = 0 /\ (ToCount(s) \/ Silent(s)))
    <3>1. complete => ToCount(s) \/ Silent(s)
      BY <1>2 DEF ToCount, Silent, Sensible
    <3>2. ToCount(s) => counted[j] = 0
      BY <2>1 DEF Counting, CountsAreOwed
    <3>3. Silent(s) => counted[j] # 1
      BY <2>1, <2>4 DEF Counting, CountedIsOver, SilentRuns
    <3>4. counted[j] \in Nat /\ counted[j] <= 1
      BY <1>2, <2>1 DEF Counting, CountedIsOver, TestTyped
    <3> QED
      BY <3>1, <3>2, <3>3, <3>4
  <2>6. SilentRuns'
    BY <1>1, <1>3, <2>1, <2>3 DEF Counting, SilentRuns
  <2>7. \A i \in Jobs : i # j => counted'[i] = counted[i] /\ jobsFailures'[i] = jobsFailures[i]
    BY <1>2 DEF TestTyped
  <2>8. CountsAreOwed'
    <3> SUFFICES ASSUME NEW d \in LT!Workers, ToCount(consumer'[d])
                 PROVE  /\ phase[consumer'[d].job] = "done" /\ counted'[consumer'[d].job] = 0
                        /\ \A e \in LT!Workers : ToCount(consumer'[e]) /\ e # d =>
                             consumer'[e].job # consumer'[d].job
      BY <1>1 DEF CountsAreOwed
    <3>1. d # c /\ consumer'[d] = consumer[d] /\ consumer[d].job \in Jobs
      BY <1>2, <1>3, <2>3 DEF TestTyped, Sensible, ToCount
    <3>2. phase[consumer[d].job] = "done" /\ counted[consumer[d].job] = 0
      BY <2>1, <3>1 DEF Counting, CountsAreOwed
    <3>3. counted'[consumer[d].job] = 0
      <4>1. CASE consumer[d].job # j
        BY <2>7, <3>1, <3>2, <4>1
      <4>2. CASE consumer[d].job = j
        <5>1. ~ToCount(s)
          BY <2>1, <3>1, <4>2 DEF Counting, CountsAreOwed
        <5>2. ~Silent(s)
          BY <2>1, <3>2, <4>2 DEF Counting, SilentRuns
        <5>3. ~complete
          BY <2>5, <5>1, <5>2
        <5> QED
          BY <1>2, <3>2, <4>2, <5>3 DEF TestTyped
      <4> QED
        BY <4>1, <4>2
    <3>4. ASSUME NEW e \in LT!Workers, ToCount(consumer'[e]), e # d
          PROVE  consumer'[e].job # consumer'[d].job
      <4>1. e # c /\ consumer'[e] = consumer[e]
        BY <1>3, <2>3, <3>4
      <4> QED
        BY <2>1, <3>1, <3>4, <4>1 DEF Counting, CountsAreOwed
    <3> QED
      BY <3>1, <3>2, <3>3, <3>4
  <2>9. \A i \in Jobs : /\ Nobodys(i) => Nobodys(i)'
                        /\ i # j => (Nobodys(i)' <=> Nobodys(i))
    <3>1. \A i \in Jobs : i # j => ~Has(s, i)
      BY DEF Has
    <3> QED
      BY <1>1, <1>3, <2>3, <3>1 DEF Nobodys
  <2>10. Silent(s) => settings.workers = 1 /\ phase[j] = "leased" /\ ~s.reached /\ Nobodys(j)'
    <3>1. Silent(s) => settings.workers = 1 /\ phase[j] = "leased" /\ ~s.reached
      BY <2>1 DEF Counting, SilentRuns
    <3>2. settings.workers = 1 => Nobodys(j)'
      BY <1>1, <1>3, <2>3, OneWorker DEF Nobodys
    <3> QED
      BY <3>1, <3>2
  <2>11. settings.workers = 1 /\ s.pc = "store" =>
           s.value + (IF s.action = "failure" THEN 1 ELSE 0) <= fails[j]
    BY <2>1 DEF Counting, CountIsBehind
  <2>12. fails[j] \in Nat /\ MaxRetry \in Nat
    BY <1>2, ServiceMetricsAssumption DEF TestTyped
  <2>13. CountedIsOver'
    <3> SUFFICES ASSUME NEW i \in Jobs
                 PROVE  counted'[i] <= 1 /\ (counted'[i] = 1 =>
                          phase[i] = "done"
                            \/ (phase[i] = "leased" /\ LT!ReachesMaxRetry(i)' /\ Nobodys(i)'))
      BY DEF CountedIsOver
    <3>1. counted[i] <= 1 /\ (counted[i] = 1 =>
            phase[i] = "done" \/ (phase[i] = "leased" /\ LT!ReachesMaxRetry(i) /\ Nobodys(i)))
      BY <2>1 DEF Counting, CountedIsOver
    <3>2. LT!ReachesMaxRetry(i)' <=> LT!ReachesMaxRetry(i)
      BY DEF LT!ReachesMaxRetry
    <3>3. CASE i # j \/ ~complete
      <4>1. counted'[i] = counted[i]
        BY <1>2, <2>7, <3>3 DEF TestTyped
      <4> QED
        BY <2>9, <3>1, <3>2, <4>1
    <3>4. CASE i = j /\ complete
      <4>1. counted'[i] = 1
        BY <1>2, <2>5, <3>4 DEF TestTyped
      <4>2. ToCount(s) => phase[i] = "done"
        BY <2>1, <3>4 DEF Counting, CountsAreOwed
      <4>3. Silent(s) => LT!ReachesMaxRetry(i)
        <5> SUFFICES ASSUME Silent(s) PROVE LT!ReachesMaxRetry(i)
          OBVIOUS
        <5>1. s.pc = "store" /\ s.action = "timeout" /\ s.value + 1 >= MaxRetry
          BY <3>4 DEF Silent
        <5>2. s.value <= fails[j]
          BY <1>2, <2>10, <2>11, <5>1
        <5> QED
          BY <1>2, <2>12, <3>4, <5>1, <5>2 DEF LT!ReachesMaxRetry
      <4> QED
        BY <2>5, <2>10, <3>2, <3>4, <4>1, <4>2, <4>3
    <3> QED
      BY <3>3, <3>4
  <2>14. CountIsBehind'
    <3> SUFFICES ASSUME settings.workers = 1
                 PROVE  CountIsBehind'
      BY DEF CountIsBehind
    <3>1. jobsFailures[j] \in Nat /\ jobsFailures[j] <= fails[j]
      BY <1>2, <2>1, <2>4, <2>12 DEF Counting, CountIsBehind, TestTyped
    <3>2. jobsFailures'[j] <= fails[j] + IF phase[j] = "leased" /\ Nobodys(j)' THEN 1 ELSE 0
      <4>1. CASE s.pc = "succeeded"
        BY <2>12, <3>1, <4>1
      <4>2. CASE s.pc = "store"
        <5>1. jobsFailures'[j] = s.value + 1
          BY <1>2, <4>2 DEF TestTyped
        <5>2. CASE s.action = "failure"
          BY <1>2, <2>11, <2>12, <4>2, <5>1, <5>2
        <5>3. CASE s.action = "timeout"
          <6>1. phase[j] = "leased" /\ Nobodys(j)' /\ s.value <= fails[j]
            BY <1>2, <2>10, <2>11, <4>2, <5>3 DEF Silent
          <6> QED
            BY <1>2, <2>12, <5>1, <6>1
        <5> QED
          BY <1>2, <4>2, <5>2, <5>3 DEF Sensible
      <4> QED
        BY <4>1, <4>2
    <3>3. \A i \in Jobs : jobsFailures'[i] <= fails[i]
                            + IF phase[i] = "leased" /\ Nobodys(i)' THEN 1 ELSE 0
      BY <2>1, <2>7, <2>9, <3>2 DEF Counting, CountIsBehind
    <3>4. \A d \in LT!Workers : consumer'[d].pc = "pull"
      BY <1>3, OneWorker, PullsAreSensible
    <3> QED
      BY <1>1, <3>3, <3>4 DEF CountIsBehind
  <2> QED
    BY <2>2, <2>6, <2>8, <2>13, <2>14 DEF Counting
<1> QED
  BY <1>1, <1>3, <1>4 DEF TestInv

\* incJobFailuesCount, its load.
LEMMA LoadStep ==
  ASSUME TestInv, settings' = settings, main' = main, LT!CountIsReliable => main # "start",
         NEW c \in LT!Workers, NEW j \in Jobs, NEW s \in ConsumerStates,
         consumer' = [consumer EXCEPT ![c] = s], consumer[c].pc = "load", consumer[c].job = j,
         s.pc = "store", s.job = j, s.action = consumer[c].action,
         s.reached = consumer[c].reached, s.value = jobsFailures[j],
         UNCHANGED <<phase, fails, jobsFailures, counted>>
  PROVE  TestInv'
<1>1. LT!Workers' = LT!Workers /\ LT!CountIsReliable' = LT!CountIsReliable
  BY DEF LT!Workers, LT!CountIsReliable, LT!monkeyTestLevel
<1>2. TestTyped
  BY DEF TestInv
<1>3. /\ TestTyped' /\ consumer'[c] = s
      /\ \A d \in LT!Workers : d # c => consumer'[d] = consumer[d]
  <2>1. /\ Sensible(s) /\ phase' = [i \in Jobs |-> phase'[i]] /\ fails' \in [Jobs -> Nat]
        /\ jobsFailures' \in [Jobs -> Nat] /\ counted' \in [Jobs -> Nat]
    BY <1>2 DEF TestTyped, Sensible
  <2> QED
    BY <1>2, <2>1, OneMoves
<1>4. \A d \in LT!Workers : /\ consumer'[d].job = consumer[d].job
                            /\ ToCount(consumer'[d]) <=> ToCount(consumer[d])
                            /\ Silent(consumer'[d]) <=> Silent(consumer[d])
                            /\ consumer'[d].reached = consumer[d].reached
                            /\ \A i : Has(consumer'[d], i) <=> Has(consumer[d], i)
  BY <1>3 DEF ToCount, Silent, Has
<1>5. \A i \in Jobs : Nobodys(i)' <=> Nobodys(i)
  BY <1>1, <1>4 DEF Nobodys
<1>6. ASSUME LT!CountIsReliable
      PROVE  Counting'
  <2>1. Counting
    BY <1>6 DEF TestInv
  <2>2. NothingCounted'
    BY <1>6 DEF NothingCounted
  <2>3. SilentRuns' /\ CountsAreOwed'
    BY <1>1, <1>4, <2>1 DEF Counting, SilentRuns, CountsAreOwed
  <2>4. CountedIsOver'
    BY <1>5, <2>1 DEF Counting, CountedIsOver, LT!ReachesMaxRetry
  <2>5. CountIsBehind'
    <3> SUFFICES ASSUME settings.workers = 1
                 PROVE  CountIsBehind'
      BY DEF CountIsBehind
    <3>1. jobsFailures[j] \in Nat /\ fails[j] \in Nat /\ jobsFailures[j] <= fails[j]
      <4>1. ~Nobodys(j)
        BY DEF Nobodys, Has
      <4> QED
        BY <1>2, <2>1, <4>1 DEF Counting, CountIsBehind, TestTyped
    <3>2. s.action = "failure" => jobsFailures[j] + 1 <= fails[j]
      BY <2>1 DEF Counting, CountIsBehind
    <3>3. s.value + (IF s.action = "failure" THEN 1 ELSE 0) <= fails[j]
      BY <3>1, <3>2
    <3>4. \A d \in LT!Workers : consumer'[d] = s
      BY <1>3, OneWorker
    <3> QED
      BY <1>1, <1>5, <2>1, <3>3, <3>4 DEF Counting, CountIsBehind
  <2> QED
    BY <2>2, <2>3, <2>4, <2>5 DEF Counting
<1> QED
  BY <1>1, <1>3, <1>6 DEF TestInv

\* A consumer takes a job that nobody runs.
LEMMA PullStep ==
  ASSUME TestInv, NEW c \in LT!Workers, NEW j \in Jobs,
         NEW a \in LT!Actions(LT!monkeyTestLevel), LT!Pull(c, j, a)
  PROVE  TestInv'
<1> DEFINE s == [LT!Pulling EXCEPT !.pc = IF a = "timeout" THEN "load" ELSE "pulled",
                                   !.job = j, !.action = a]
<1>1. /\ LT!Workers' = LT!Workers /\ LT!CountIsReliable' = LT!CountIsReliable
      /\ settings' = settings /\ main' = main /\ main # "start"
      /\ jobsFailures' = jobsFailures /\ counted' = counted
      /\ consumer' = [consumer EXCEPT ![c] = s] /\ consumer[c].pc = "pull"
  BY DEF LT!Pull, LT!UntouchedByConsumers, LT!options, LT!counts, LT!Become, LT!Workers,
         LT!CountIsReliable, LT!monkeyTestLevel
<1>2. TestTyped
  BY DEF TestInv
<1>3. /\ phase' = [i \in Jobs |-> phase'[i]] /\ fails' = fails
      /\ phase[j] = "ready" /\ phase'[j] = "leased"
      /\ \A i \in Jobs \ {j} : Same(i)
  BY <1>2, PullLeases DEF LT!Pull
<1>4. /\ s \in ConsumerStates /\ s.job = j /\ s.action = a /\ s.reached = FALSE
      /\ s.pc = IF a = "timeout" THEN "load" ELSE "pulled"
  <2>1. a \in {"success", "cancel", "failure", "timeout"}
    BY DEF LT!Actions
  <2> QED
    BY <2>1 DEF LT!Pulling, ConsumerStates, Where
<1> HIDE DEF s
<1>5. /\ TestTyped' /\ consumer'[c] = s
      /\ \A d \in LT!Workers : d # c => consumer'[d] = consumer[d]
  <2>1. /\ Sensible(s) /\ fails' \in [Jobs -> Nat]
        /\ jobsFailures' \in [Jobs -> Nat] /\ counted' \in [Jobs -> Nat]
    BY <1>1, <1>2, <1>3, <1>4 DEF TestTyped, Sensible
  <2> QED
    BY <1>1, <1>2, <1>3, <1>4, <2>1, OneMoves
<1>6. ASSUME LT!CountIsReliable
      PROVE  Counting'
  <2>1. Counting
    BY <1>6 DEF TestInv
  <2>2. NothingCounted'
    BY <1>1 DEF NothingCounted
  <2>3. ~ToCount(s) /\ Has(s, j) /\ ~Has(consumer[c], j) /\ \A i : i # j => ~Has(s, i)
    BY <1>1, <1>4 DEF ToCount, Has
  <2>4. SilentRuns'
    <3> SUFFICES ASSUME NEW d \in LT!Workers, Silent(consumer'[d])
                 PROVE  /\ ~consumer'[d].reached /\ phase'[consumer'[d].job] = "leased"
                        /\ settings.workers = 1
      BY <1>1 DEF SilentRuns
    <3>1. CASE d = c
      <4>1. a = "timeout"
        BY <1>4, <1>5, <3>1 DEF Silent
      <4> QED
        BY <1>3, <1>4, <1>5, <1>6, <3>1, <4>1, SilentIfFew
    <3>2. CASE d # c
      <4>1. settings.workers = 1
        BY <1>5, <2>1, <3>2 DEF Counting, SilentRuns
      <4> QED
        BY <3>2, <4>1, OneWorker
    <3> QED
      BY <3>1, <3>2
  <2>5. CountsAreOwed'
    <3>1. \A d \in LT!Workers : ToCount(consumer'[d]) =>
            d # c /\ consumer'[d] = consumer[d] /\ consumer[d].job \in Jobs
      BY <1>2, <1>5, <2>3 DEF TestTyped, Sensible, ToCount
    <3>2. \A i \in Jobs : phase[i] = "done" => phase'[i] = "done"
      BY <1>3 DEF Same
    <3> QED
      BY <1>1, <2>1, <3>1, <3>2 DEF Counting, CountsAreOwed
  <2>6. \A i \in Jobs : i # j => (Nobodys(i)' <=> Nobodys(i))
    <3>1. \A i \in Jobs : ~Has(consumer[c], i)
      BY <1>1 DEF Has
    <3> QED
      BY <1>1, <1>5, <2>3, <3>1 DEF Nobodys
  <2>7. CountedIsOver'
    BY <1>1, <1>3, <2>1, <2>6 DEF Counting, CountedIsOver, LT!ReachesMaxRetry, Same
  <2>8. CountIsBehind'
    <3> SUFFICES ASSUME settings.workers = 1
                 PROVE  CountIsBehind'
      BY <1>1 DEF CountIsBehind
    <3>1. jobsFailures[j] \in Nat /\ fails[j] \in Nat /\ jobsFailures[j] <= fails[j]
      BY <1>2, <1>3, <2>1 DEF Counting, CountIsBehind, TestTyped
    <3>2. ASSUME NEW i \in Jobs
          PROVE  jobsFailures'[i] <= fails'[i]
                   + IF phase'[i] = "leased" /\ Nobodys(i)' THEN 1 ELSE 0
      <4>1. CASE i = j
        BY <1>1, <1>3, <3>1, <4>1
      <4>2. CASE i # j
        BY <1>1, <1>3, <2>1, <2>6, <4>2 DEF Counting, CountIsBehind, Same
      <4> QED
        BY <4>1, <4>2
    <3>3. \A d \in LT!Workers : consumer'[d] = s
      BY <1>5, OneWorker
    <3>4. ~(s.pc = "load" /\ s.action = "failure") /\ s.pc # "store"
      BY <1>4
    <3> QED
      BY <1>1, <3>2, <3>3, <3>4 DEF CountIsBehind
  <2> QED
    BY <2>2, <2>4, <2>5, <2>7, <2>8 DEF Counting
<1> QED
  BY <1>1, <1>5, <1>6 DEF TestInv

\* The server fails a run, which no consumer that will not answer still counts.
LEMMA TimeOutStep ==
  ASSUME TestInv, NEW j \in Jobs, LT!TimeOut(j)
  PROVE  TestInv'
<1>1. /\ LT!Workers' = LT!Workers /\ LT!CountIsReliable' = LT!CountIsReliable
      /\ settings' = settings /\ main' = main /\ consumer' = consumer
      /\ jobsFailures' = jobsFailures /\ counted' = counted
  BY DEF LT!TimeOut, LT!clientVars, LT!options, LT!Workers, LT!CountIsReliable, LT!monkeyTestLevel
<1>2. TestTyped
  BY DEF TestInv
<1>3. /\ phase' = [i \in Jobs |-> phase'[i]]
      /\ fails' \in [Jobs -> Nat] /\ fails'[j] = fails[j] + 1
      /\ \A i \in Jobs \ {j} : Same(i) /\ fails'[i] = fails[i]
      /\ phase[j] = "leased" /\ phase'[j] # "leased"
      /\ phase'[j] = "done" <=> LT!ReachesMaxRetry(j)
  BY <1>2, FailureEnds DEF LT!TimeOut, LT!RunTimesOut
<1>4. TestTyped'
  BY <1>1, <1>2, <1>3 DEF TestTyped
<1>5. \A c \in LT!Workers : ~(Silent(consumer[c]) /\ consumer[c].job = j)
  BY DEF LT!TimeOut, Silent
<1>6. ASSUME LT!CountIsReliable
      PROVE  Counting'
  <2>1. Counting
    BY <1>6 DEF TestInv
  <2>2. NothingCounted'
    BY <1>1, <2>1 DEF Counting, NothingCounted
  <2>3. SilentRuns'
    <3>1. \A c \in LT!Workers : Silent(consumer[c]) => consumer[c].job \in Jobs \ {j}
      BY <1>2, <1>5 DEF TestTyped, Sensible, Silent
    <3>2. \A i \in Jobs \ {j} : phase[i] = "leased" => phase'[i] = "leased"
      BY <1>3 DEF Same
    <3> QED
      BY <1>1, <2>1, <3>1, <3>2 DEF Counting, SilentRuns
  <2>4. CountsAreOwed'
    <3>1. \A c \in LT!Workers : ToCount(consumer[c]) => consumer[c].job \in Jobs \ {j}
      BY <1>2, <1>3, <2>1 DEF TestTyped, Sensible, ToCount, Counting, CountsAreOwed
    <3>2. \A i \in Jobs \ {j} : phase[i] = "done" => phase'[i] = "done"
      BY <1>3 DEF Same
    <3> QED
      BY <1>1, <2>1, <3>1, <3>2 DEF Counting, CountsAreOwed
  <2>5. \A i \in Jobs : Nobodys(i)' <=> Nobodys(i)
    BY <1>1 DEF Nobodys
  <2>6. CountedIsOver'
    BY <1>1, <1>3, <2>1, <2>5 DEF Counting, CountedIsOver, LT!ReachesMaxRetry, Same
  <2>7. CountIsBehind'
    <3> SUFFICES ASSUME settings.workers = 1
                 PROVE  CountIsBehind'
      BY <1>1 DEF CountIsBehind
    <3>1. \A i \in Jobs : jobsFailures[i] \in Nat /\ fails[i] \in Nat /\ fails'[i] \in Nat
                          /\ fails[i] <= fails'[i]
      BY <1>2, <1>3 DEF TestTyped
    <3>2. ASSUME NEW i \in Jobs
          PROVE  jobsFailures[i] <= fails'[i]
                   + IF phase'[i] = "leased" /\ Nobodys(i)' THEN 1 ELSE 0
      <4>1. jobsFailures[i] <= fails[i] + IF phase[i] = "leased" /\ Nobodys(i) THEN 1 ELSE 0
        BY <2>1 DEF Counting, CountIsBehind
      <4> QED
        BY <1>3, <2>5, <3>1, <4>1 DEF Same
    <3>3. ASSUME NEW c \in LT!Workers
          PROVE  LET s == consumer[c] IN
                 /\ s.pc = "load" /\ s.action = "failure" => jobsFailures[s.job] + 1 <= fails'[s.job]
                 /\ s.pc = "store" => s.value + (IF s.action = "failure" THEN 1 ELSE 0) <= fails'[s.job]
      <4> DEFINE s == consumer[c]
      <4>1. s.value \in Nat /\ (s.pc \in {"load", "store"} => s.job \in Jobs)
        BY <1>2 DEF TestTyped, Sensible, ConsumerStates
      <4>2. /\ s.pc = "load" /\ s.action = "failure" => jobsFailures[s.job] + 1 <= fails[s.job]
            /\ s.pc = "store" => s.value + (IF s.action = "failure" THEN 1 ELSE 0) <= fails[s.job]
        BY <2>1 DEF Counting, CountIsBehind
      <4> HIDE DEF s
      <4>3. /\ s.pc = "load" /\ s.action = "failure" => jobsFailures[s.job] + 1 <= fails'[s.job]
            /\ s.pc = "store" => s.value + (IF s.action = "failure" THEN 1 ELSE 0) <= fails'[s.job]
        BY <3>1, <4>1, <4>2
      <4> QED
        BY <4>3 DEF s
    <3> QED
      BY <1>1, <3>2, <3>3 DEF CountIsBehind
  <2> QED
    BY <2>2, <2>3, <2>4, <2>6, <2>7 DEF Counting
<1> QED
  BY <1>1, <1>4, <1>6 DEF TestInv

\* deleteAllJobsBeforeStart: nothing has been counted yet.
LEMMA StartStep ==
  ASSUME TestInv, LT!Start
  PROVE  TestInv'
<1>1. /\ LT!Workers' = LT!Workers /\ LT!CountIsReliable' = LT!CountIsReliable
      /\ settings' = settings /\ main = "start" /\ main' = "produce" /\ consumer' = consumer
      /\ jobsFailures' = jobsFailures /\ counted' = counted
  BY DEF LT!Start, LT!options, LT!Workers, LT!CountIsReliable, LT!monkeyTestLevel
<1>2. TestTyped
  BY DEF TestInv
<1>3. phase' = [i \in Jobs |-> phase'[i]] /\ fails' = fails
  BY <1>2 DEF TestTyped, LT!Start, LT!DeleteAllJobs, LT!Forget, LT!Offer,
              LT!Refused, LT!apiVars, LT!jqVars
<1>4. TestTyped'
  BY <1>1, <1>2, <1>3 DEF TestTyped
<1>5. ASSUME LT!CountIsReliable
      PROVE  Counting'
  <2>1. /\ \A c \in LT!Workers : consumer[c].pc = "pull"
        /\ \A j \in Jobs : counted[j] = 0 /\ jobsFailures[j] = 0 /\ fails[j] \in Nat
    BY <1>1, <1>2, <1>5 DEF TestInv, Counting, NothingCounted, TestTyped
  <2>2. NothingCounted' /\ SilentRuns' /\ CountsAreOwed' /\ CountedIsOver'
    BY <1>1, <2>1 DEF NothingCounted, SilentRuns, Silent, CountsAreOwed, ToCount, CountedIsOver
  <2>3. CountIsBehind'
    BY <1>1, <1>3, <2>1 DEF CountIsBehind
  <2> QED
    BY <2>2, <2>3 DEF Counting
<1> QED
  BY <1>1, <1>4, <1>5 DEF TestInv

\* What a consumer does alone, or with its job.
LEMMA ConsumersKeep ==
  ASSUME TestInv, NEW c \in LT!Workers, LT!ConsumerStep(c) \/ LT!AnswerLost(c)
  PROVE  TestInv'
<1> DEFINE s == consumer[c]
           j == consumer[c].job
<1>1. /\ TestTyped /\ s \in ConsumerStates /\ Sensible(s) /\ jobsFailures \in [Jobs -> Nat]
      /\ fails \in [Jobs -> Nat]
  BY DEF TestInv, TestTyped
<1>2. settings' = settings /\ main' = main
  BY DEF LT!ConsumerStep, LT!AnswerLost, LT!Succeed, LT!CountSuccess, LT!Cancel, LT!Fail,
         LT!RequestRefused, LT!LoadFailures, LT!StoreFailures, LT!StoreAnd, LT!Leave,
         LT!UntouchedByConsumers, LT!options
<1>3. LT!CountIsReliable => main # "start"
  BY DEF TestInv, Counting, NothingCounted, LT!ConsumerStep, LT!AnswerLost, LT!Succeed,
         LT!CountSuccess, LT!Cancel, LT!Fail, LT!Answer,
         LT!RequestRefused, LT!LoadFailures, LT!StoreFailures, LT!StoreAnd, LT!Leave, LT!MoreToDo
<1>4. /\ s.pc \in {"pulled", "succeeded", "load", "store"} => j \in Jobs
      /\ s.job = j /\ (Has(s, j) <=> s.pc \notin {"pull", "over"}) /\ \A i : Has(s, i) => i = j
  BY <1>1 DEF Sensible, Has
<1> HIDE DEF s, j
<1>5. CASE LT!Succeed(c)
  <2>1. /\ s.pc = "pulled" /\ s.action = "success" /\ LT!SetJobAsSuccessful(j)
        /\ consumer' = [consumer EXCEPT ![c] = [s EXCEPT !.pc = "succeeded"]]
        /\ jobsFailures' = jobsFailures /\ counted' = counted
    BY <1>5 DEF LT!Succeed, LT!Answer, LT!Become, LT!counts, s, j
  <2> DEFINE q == [s EXCEPT !.pc = "succeeded"]
  <2>2. q \in ConsumerStates /\ q.pc = "succeeded" /\ q.job = j
    BY <1>1, <1>4 DEF ConsumerStates, Where
  <2>3. /\ phase' = [i \in Jobs |-> phase'[i]] /\ fails' = fails
        /\ phase[j] = "leased" /\ phase'[j] = "done"
        /\ \A i \in Jobs \ {j} : Same(i)
    BY <1>1, <1>4, <2>1, SuccessEnds
  <2>4. fails' \in [Jobs -> Nat] /\ \A i \in Jobs : fails'[i] = fails[i] /\ fails'[i] >= fails[i]
    BY <1>1, <2>3
  <2> HIDE DEF q
  <2>5. consumer' = [consumer EXCEPT ![c] = q] /\ j \in Jobs
    BY <1>4, <2>1 DEF q
  <2>6. consumer[c].pc = "pulled" /\ consumer[c].job = j
    BY <1>4, <2>1 DEF s
  <2> QED
    BY <1>2, <1>3, <2>1, <2>2, <2>3, <2>4, <2>5, <2>6, AnswerStep
<1>6. CASE LT!Fail(c)
  <2> DEFINE q == [s EXCEPT !.pc = "load", !.reached = LT!ReachesMaxRetry(j)]
  <2>1. /\ s.pc = "pulled" /\ s.action = "failure" /\ LT!FailJob(j)
        /\ consumer' = [consumer EXCEPT ![c] = q]
        /\ jobsFailures' = jobsFailures /\ counted' = counted
    BY <1>6 DEF LT!Fail, LT!Answer, LT!Become, LT!counts, s, j
  <2>2. /\ q \in ConsumerStates /\ q.pc = "load" /\ q.job = j /\ q.action = "failure"
        /\ q.reached = LT!ReachesMaxRetry(j)
    <3>1. LT!ReachesMaxRetry(j) \in BOOLEAN
      BY DEF LT!ReachesMaxRetry
    <3>2. q = [pc |-> "load", job |-> s.job, action |-> s.action,
               reached |-> LT!ReachesMaxRetry(j), value |-> s.value]
      <4>1. PICK pc \in Where, r \in BOOLEAN : pc = "load" /\ r = LT!ReachesMaxRetry(j)
        BY <3>1 DEF Where
      <4>2. PICK t \in ConsumerStates : t = s
        BY <1>1
      <4>3. [t EXCEPT !.pc = pc, !.reached = r] = Left(t, pc, r, t.value)
        BY ReachedLeft
      <4> QED
        BY <4>1, <4>2, <4>3 DEF Left
    <3> QED
      BY <1>1, <1>4, <2>1, <3>1, <3>2 DEF ConsumerStates, Where
  <2> HIDE DEF q
  <2>3. /\ phase' = [i \in Jobs |-> phase'[i]]
        /\ fails' \in [Jobs -> Nat] /\ fails'[j] = fails[j] + 1
        /\ \A i \in Jobs \ {j} : Same(i) /\ fails'[i] = fails[i]
        /\ phase[j] = "leased" /\ phase'[j] # "leased"
        /\ phase'[j] = "done" <=> LT!ReachesMaxRetry(j)
    BY <1>1, <1>4, <2>1, FailureEnds
  <2>4. fails'[j] >= fails[j] /\ (ToCount(q) => phase'[j] = "done") /\ j \in Jobs
    BY <1>1, <1>4, <2>1, <2>2, <2>3 DEF ToCount
  <2>5. consumer[c].pc = "pulled" /\ consumer[c].job = j
    BY <1>4, <2>1 DEF s
  <2> QED
    BY <1>2, <1>3, <2>1, <2>2, <2>3, <2>4, <2>5, AnswerStep
<1>7. CASE LT!CountSuccess(c)
  <2>1. /\ s.pc = "succeeded" /\ jobsFailures' = jobsFailures /\ phase' = phase /\ fails' = fails
        /\ counted' = [counted EXCEPT ![j] = @ + 1]
        /\ consumer' = [consumer EXCEPT ![c] = LT!Pulling]
        /\ consumer[c].pc = "succeeded" /\ consumer[c].job = j
    BY <1>7 DEF LT!CountSuccess, LT!Become, LT!apiVars, LT!jqVars, s, j
  <2>2. PICK b \in BOOLEAN : b = TRUE
    OBVIOUS
  <2>3. counted' = [counted EXCEPT ![j] = IF b THEN @ + 1 ELSE @]
    BY <2>1, <2>2
  <2>4. j \in Jobs
    BY <1>4, <2>1
  <2> QED
    BY <1>2, <1>3, <2>1, <2>2, <2>3, <2>4, CountStep
<1>8. CASE LT!StoreFailures(c)
  <2> DEFINE complete == IF s.action = "failure" THEN s.reached ELSE s.value + 1 >= MaxRetry
  <2>1. /\ s.pc = "store" /\ phase' = phase /\ fails' = fails
        /\ jobsFailures' = [jobsFailures EXCEPT ![j] = s.value + 1]
        /\ counted' = [counted EXCEPT ![j] = IF complete THEN @ + 1 ELSE @]
        /\ consumer' = [consumer EXCEPT ![c] = LT!Pulling]
    BY <1>8 DEF LT!StoreFailures, LT!StoreAnd, LT!JobMaxFailures, LT!Become, LT!apiVars,
                LT!jqVars, s, j
  <2>2. complete \in BOOLEAN
    <3>1. s.reached \in BOOLEAN
      BY <1>1 DEF ConsumerStates
    <3>2. (s.value + 1 >= MaxRetry) \in BOOLEAN
      OBVIOUS
    <3>3. CASE s.action = "failure"
      BY <3>1, <3>3, Zenon
    <3>4. CASE s.action # "failure"
      BY <3>2, <3>4, Zenon
    <3> QED
      BY <3>3, <3>4
  <2>3. consumer[c] = s /\ consumer[c].job = j /\ j \in Jobs
    BY <1>4, <2>1 DEF s
  <2>4. PICK b \in BOOLEAN : b = complete
    BY <2>2
  <2>5. /\ b = IF consumer[c].action = "failure" THEN consumer[c].reached
               ELSE consumer[c].value + 1 >= MaxRetry
        /\ jobsFailures' = [jobsFailures EXCEPT ![j] = consumer[c].value + 1]
        /\ consumer[c].pc = "store"
    BY <2>1, <2>3, <2>4
  <2>6. counted' = [counted EXCEPT ![j] = IF b THEN @ + 1 ELSE @]
    BY <2>1, <2>4
  <2> QED
    BY <1>2, <1>3, <2>1, <2>3, <2>5, <2>6, CountStep
<1>9. CASE LT!LoadFailures(c)
  <2> DEFINE q == [s EXCEPT !.pc = "store", !.value = jobsFailures[j]]
  <2>1. /\ s.pc = "load" /\ UNCHANGED <<phase, fails, jobsFailures, counted>>
        /\ consumer' = [consumer EXCEPT ![c] = q]
    BY <1>9 DEF LT!LoadFailures, LT!Become, LT!apiVars, LT!jqVars, LT!counts, s, j
  <2>2. /\ q \in ConsumerStates /\ q.pc = "store" /\ q.job = j /\ q.action = s.action
        /\ q.reached = s.reached /\ q.value = jobsFailures[j]
    <3>1. jobsFailures[j] \in Nat
      BY <1>1, <1>4, <2>1
    <3>2. q = [pc |-> "store", job |-> s.job, action |-> s.action,
               reached |-> s.reached, value |-> jobsFailures[j]]
      <4>1. PICK pc \in Where, r \in Nat : pc = "store" /\ r = jobsFailures[j]
        BY <3>1 DEF Where
      <4>2. PICK t \in ConsumerStates : t = s
        BY <1>1
      <4>3. [t EXCEPT !.pc = pc, !.value = r] = Left(t, pc, t.reached, r)
        BY ValueLeft
      <4> QED
        BY <4>1, <4>2, <4>3 DEF Left
    <3> QED
      BY <1>1, <1>4, <2>1, <3>1, <3>2 DEF ConsumerStates, Where
  <2> HIDE DEF q
  <2>3. /\ consumer[c].pc = "load" /\ consumer[c].job = j /\ j \in Jobs
        /\ q.action = consumer[c].action /\ q.reached = consumer[c].reached
    BY <1>4, <2>1, <2>2 DEF s
  <2> QED
    BY <1>2, <1>3, <2>1, <2>2, <2>3, LoadStep
<1>10. CASE \/ LT!Cancel(c) \/ LT!RequestRefused(c) \/ LT!AnswerLost(c) \/ LT!Leave(c)
  <2>1. PICK q \in ConsumerStates : q.pc \in {"pull", "over"} /\ consumer' = [consumer EXCEPT ![c] = q]
    BY <1>10, PullsAreSensible
       DEF LT!Cancel, LT!RequestRefused, LT!AnswerLost, LT!Leave, LT!Become
  <2>2. consumer[c].pc \in {"pull", "pulled"} /\ counted' = counted /\ jobsFailures' = jobsFailures
    BY <1>10 DEF LT!Cancel, LT!RequestRefused, LT!AnswerLost, LT!Leave, LT!Answer, LT!counts
  <2>3. /\ phase' = [i \in Jobs |-> phase'[i]] /\ fails' \in [Jobs -> Nat]
        /\ \A i \in Jobs : fails'[i] >= fails[i]
        /\ \A i \in Jobs : \/ Same(i) /\ (Has(s, i) => phase[i] # "leased")
                           \/ Has(s, i) /\ phase[i] = "leased" /\ phase'[i] # "leased"
    <3>1. CASE LT!Cancel(c)
      <4>1. s.pc = "pulled" /\ LT!CancelJob(j)
        BY <3>1 DEF LT!Cancel, LT!Answer, s, j
      <4>2. /\ phase' = [i \in Jobs |-> phase'[i]] /\ fails' = fails
            /\ phase[j] = "leased" /\ phase'[j] \notin {"leased", "done"}
            /\ \A i \in Jobs \ {j} : Same(i)
        BY <1>1, <1>4, <4>1, CancelFrees
      <4> QED
        BY <1>1, <1>4, <4>1, <4>2
    <3>2. CASE LT!RequestRefused(c)
      <4>1. s.pc = "pulled" /\ phase[j] # "leased" /\ phase' = phase /\ fails' = fails
        BY <3>2 DEF LT!RequestRefused, LT!Refused, LT!apiVars, LT!jqVars, s, j
      <4> QED
        BY <1>1, <1>4, <4>1 DEF TestTyped, Same
    <3>3. CASE LT!AnswerLost(c)
      <4>1. s.pc = "pulled" /\ (LT!SetJobAsSuccessful(j) \/ LT!FailJob(j))
        BY <3>3 DEF LT!AnswerLost, LT!Answer, s, j
      <4>2. CASE LT!SetJobAsSuccessful(j)
        <5>1. /\ phase' = [i \in Jobs |-> phase'[i]] /\ fails' = fails
              /\ phase[j] = "leased" /\ phase'[j] = "done"
              /\ \A i \in Jobs \ {j} : Same(i)
          BY <1>1, <1>4, <4>1, <4>2, SuccessEnds
        <5> QED
          BY <1>1, <1>4, <4>1, <5>1
      <4>3. CASE LT!FailJob(j)
        <5>1. /\ phase' = [i \in Jobs |-> phase'[i]]
              /\ fails' \in [Jobs -> Nat] /\ fails'[j] = fails[j] + 1
              /\ \A i \in Jobs \ {j} : Same(i) /\ fails'[i] = fails[i]
              /\ phase[j] = "leased" /\ phase'[j] # "leased"
          BY <1>1, <1>4, <4>1, <4>3, FailureEnds
        <5> QED
          BY <1>1, <1>4, <4>1, <5>1
      <4> QED
        BY <4>1, <4>2, <4>3
    <3>4. CASE LT!Leave(c)
      <4>1. s.pc = "pull" /\ phase' = phase /\ fails' = fails
        BY <3>4 DEF LT!Leave, LT!apiVars, LT!jqVars, s
      <4> QED
        BY <1>1, <1>4, <4>1 DEF TestTyped, Same, Has
    <3> QED
      BY <1>10, <3>1, <3>2, <3>3, <3>4
  <2>4. \A i \in Jobs : \/ Same(i) /\ (Has(consumer[c], i) => phase[i] # "leased")
                        \/ Has(consumer[c], i) /\ phase[i] = "leased" /\ phase'[i] # "leased"
    BY <2>3 DEF s
  <2> QED
    BY <1>2, <1>3, <2>1, <2>2, <2>3, <2>4, LeavingStep
<1> QED
  BY <1>5, <1>6, <1>7, <1>8, <1>9, <1>10 DEF LT!ConsumerStep

LEMMA TestKeeps == TestInv /\ [LT!LTNext]_LT!ltVars => TestInv'
<1> SUFFICES ASSUME TestInv, [LT!LTNext]_LT!ltVars PROVE TestInv'
  OBVIOUS
<1>1. TestTyped /\ jobsFailures \in [Jobs -> Nat]
  BY DEF TestInv, TestTyped
<1>2. CASE LT!Start
  BY <1>2, StartStep
<1>3. CASE \/ LT!ProducersDone \/ LT!End \/ UNCHANGED LT!ltVars
           \/ \E p \in LT!Workers : LT!Create(p) \/ LT!CreateFails(p) \/ LT!Note(p)
           \/ \E j \in Jobs : LT!OfferJob(j) /\ UNCHANGED LT!clientVars
  <2>1. /\ settings' = settings /\ consumer' = consumer /\ counted' = counted
        /\ main' = "start" => main = "start"
    BY <1>3 DEF LT!ProducersDone, LT!End, LT!Create, LT!CreateFails, LT!Note, LT!clientVars,
                LT!ltVars, LT!UntouchedByProducers, LT!options
  <2>2. \/ LT!Refused
        \/ \E j \in Jobs : LT!OfferJob(j) \/ \E needed : LT!CreateJob(j, needed)
    BY <1>3 DEF LT!ProducersDone, LT!End, LT!Create, LT!CreateFails, LT!Note, LT!clientVars,
                LT!ltVars, LT!Refused, LT!NewJobs
  <2>3. /\ phase' = [i \in Jobs |-> phase'[i]] /\ fails' = fails
        /\ \A i \in Jobs : Same(i)
    BY <1>1, <2>2, OthersWait
  <2>4. \/ jobsFailures' = jobsFailures
        \/ \E p : jobsFailures' = [jobsFailures EXCEPT ![producer[p]] = 0]
    BY <1>3 DEF LT!ProducersDone, LT!End, LT!Create, LT!CreateFails, LT!Note, LT!clientVars,
                LT!ltVars
  <2>5. jobsFailures' \in [Jobs -> Nat] /\ \A j \in Jobs : jobsFailures'[j] \in {0, jobsFailures[j]}
    BY <1>1, <2>4
  <2> QED
    BY <2>1, <2>3, <2>5, QuietStep
<1>4. CASE \E c \in LT!Workers : LT!ConsumerStep(c) \/ LT!AnswerLost(c)
  BY <1>4, ConsumersKeep
<1>5. ASSUME NEW c \in LT!Workers, LT!PullLost(c)
      PROVE  TestInv'
  <2>1. PICK j \in Jobs : LT!PullJob(j)
    BY <1>5 DEF LT!PullLost
  <2>2. /\ settings' = settings /\ consumer' = consumer /\ counted' = counted
        /\ main' = main /\ jobsFailures' = jobsFailures
    BY <1>5 DEF LT!PullLost, LT!UntouchedByConsumers, LT!options, LT!counts
  <2>3. /\ phase' = [i \in Jobs |-> phase'[i]] /\ fails' = fails
        /\ phase[j] = "ready" /\ phase'[j] = "leased"
        /\ \A i \in Jobs \ {j} : Same(i)
    BY <1>1, <2>1, PullLeases
  <2> QED
    BY <1>1, <2>2, <2>3, QuietStep
<1>6. CASE \E c \in LT!Workers, j \in Jobs, a \in LT!Actions(LT!monkeyTestLevel) : LT!Pull(c, j, a)
  BY <1>6, PullStep
<1>7. CASE \E j \in Jobs : LT!TimeOut(j)
  BY <1>7, TimeOutStep
<1> QED
  BY <1>2, <1>3, <1>4, <1>5, <1>6, <1>7 DEF LT!LTNext, LT!ServerStep

\* "The server will not retry this job" (loadtest.go:740): for any jobs, producers and consumers,
\* however late the answers, a job is counted as completed once at most, and then the server has
\* ended it or runs it for the last time.  The consumers that do not answer know it by their own
\* count, which is never ahead of the server's by more than the run they leave: if there is one.
THEOREM EndsAreCountedOnce == LT!LTSpec => []EachEndCountsOnce
<1>1. ASSUME TestInv
      PROVE  EachEndCountsOnce
  BY <1>1 DEF TestInv, Counting, CountedIsOver, EachEndCountsOnce, LT!EachEndCountsOnce
<1> QED
  BY <1>1, TestBegins, TestKeeps, PTL DEF LT!LTSpec
=============================================================================
