--------------------------- MODULE RecoveryProofs ---------------------------
(***************************************************************************)
(* Theorems about Recovery, for every value of its constants: any number   *)
(* of jobs, of resources, of failures and of crashes.                      *)
(***************************************************************************)
EXTENDS Recovery, FiniteSetTheorems, SequenceTheorems, WellFoundedInduction, TLAPS

Events == {"CREATE", "PENDING", "ENQUEUE", "START", "FAIL", "HIDE", "SUCCESS", "TERMINATE",
           "CANCEL", "DELETE"}
Ends == {"Succeeded", "Failed", "Deleted"}
Busy == {"Queued", "Running"}
JobStates == [state : States, fails : Nat]

Typed ==
  /\ job \in [JobIds -> JobStates] /\ saved \in [JobIds -> JobStates]
  /\ lock = [r \in Resources |-> lock[r]]
  /\ todo \in Seq(JobIds \X Events)
  /\ admitting \in BOOLEAN /\ crashes \in Nat /\ mixed \in BOOLEAN

\* The states an event comes in, and the events that come together.
Before(e) ==
  CASE e = "CREATE" -> {"NoState"}
    [] e = "PENDING" -> {"Created"}
    [] e = "ENQUEUE" -> {"Canceled", "Running", "Hidden", "Pending"}
    [] e = "START" -> {"Queued"}
    [] e = "DELETE" -> States \ {"NoState", "Deleted"}
    [] OTHER -> {"Running"}

LastEvents == Events \ {"CREATE", "FAIL", "CANCEL"}
Couples == {<<"CREATE", "PENDING">>, <<"CANCEL", "ENQUEUE">>,
            <<"FAIL", "TERMINATE">>, <<"FAIL", "HIDE">>, <<"FAIL", "ENQUEUE">>}

\* What is left to do is the end of one operation on one job, or the first scheduling of the
\* jobs that a recovery found just created.
OneJob ==
  /\ job[todo[1][1]].state \in Before(todo[1][2])
  /\ \/ Len(todo) = 1 /\ todo[1][2] \in LastEvents
     \/ /\ Len(todo) = 2 /\ todo[2][1] = todo[1][1]
        /\ <<todo[1][2], todo[2][2]>> \in Couples

Scheduling ==
  /\ \A i \in DOMAIN todo : todo[i][2] = "PENDING" /\ job[todo[i][1]].state = "Created"
  /\ \A i, k \in DOMAIN todo : todo[i][1] = todo[k][1] => i = k

TodoIsLegal == Scheduling \/ OneJob

\* The state of a job when the operation that holds the mutex is over.
FinalState(j) ==
  IF \E i \in DOMAIN todo : todo[i][1] = j THEN After(todo[Len(todo)][2]) ELSE job[j].state

\* The locks are those of the jobs that the operation leaves active.
LocksFollow ==
  \A r \in Resources, j \in JobIds :
    lock[r] = j <=> FinalState(j) \in Busy /\ r \in Needs[j]

Exclusive(jobs) ==
  \A i, k \in JobIds :
    i # k /\ jobs[i].state \in Busy /\ jobs[k].state \in Busy => Needs[i] \cap Needs[k] = {}

CreatedIsToSchedule ==
  \A j \in JobIds : job[j].state = "Created" => \E i \in DOMAIN todo : todo[i] = <<j, "PENDING">>

\* A job at its last failure is about to be terminated, unless a crash came before that.
Terminating(j) == todo # <<>> /\ todo[1] = <<j, "TERMINATE">>

FailuresAreCounted ==
  /\ \A j \in JobIds :
       /\ job[j].fails <= MaxRetry + crashes /\ saved[j].fails <= MaxRetry + crashes
       /\ job[j].state \notin Ends /\ ~Terminating(j) => job[j].fails < MaxRetry + crashes
  /\ Len(todo) = 2 /\ todo[1][2] = "FAIL" /\ todo[2][2] # "TERMINATE"
       => job[todo[1][1]].fails + 1 < MaxRetry

IInv ==
  /\ Typed /\ TodoIsLegal
  /\ SavedEndIsFinal /\ FailuresAreCounted /\ CreatedIsToSchedule
  /\ mixed \/ (Exclusive(job) /\ Exclusive(saved) /\ LocksFollow)

-----------------------------------------------------------------------------
(* The order of the jobs that a recovery schedules.                        *)

\* A set of numbers has a least one: the induction that the lemmas below need.
LEMMA LeastNumber ==
  ASSUME NEW T \in SUBSET Nat, T # {}
  PROVE  \E m \in T : \A k \in T : m <= k
<1> DEFINE R == OpToRel(<, Nat)
<1>1. \A x, y \in Nat : x < y => <<x, y>> \in R
  BY DEF OpToRel
<1>2. IsWellFoundedOn(R, Nat)
  BY NatLessThanWellFounded
<1> HIDE DEF R
<1>3. PICK m \in T : \A k \in T : ~(<<k, m>> \in R)
  BY <1>2, WFMin
<1>4. ASSUME NEW k \in T PROVE m <= k
  <2>1. ~(<<k, m>> \in R)
    BY <1>3
  <2>2. ~(k < m)
    BY <1>1, <2>1
  <2> QED
    BY <2>2
<1> QED
  BY <1>4

\* The rank of a number counts the members up to it: it grows at each member, by one.
LEMMA RankGrows ==
  ASSUME NEW S \in SUBSET JobIds
  PROVE  /\ IsFiniteSet(S) /\ Cardinality(S) \in Nat
         /\ Rank(S, 0) = 0 /\ Rank(S, MaxJobId) = Cardinality(S)
         /\ \A j \in Nat : /\ Rank(S, j) \in Nat /\ Rank(S, j) <= Cardinality(S)
                           /\ Rank(S, j + 1) = IF j + 1 \in S THEN Rank(S, j) + 1 ELSE Rank(S, j)
                           /\ \A i \in Nat : i <= j => Rank(S, i) <= Rank(S, j)
<1> DEFINE Upto(j) == {i \in S : i <= j}
<1>1. IsFiniteSet(S) /\ Cardinality(S) \in Nat
  <2>1. IsFiniteSet(JobIds)
    BY RecoveryAssumption, FS_Interval DEF JobIds
  <2> QED
    BY <2>1, FS_Subset, FS_CardinalityType
<1>0. \A i \in S : i \in Nat /\ 1 <= i /\ i <= MaxJobId
  BY RecoveryAssumption DEF JobIds
<1>2. \A j \in Nat : IsFiniteSet(Upto(j)) /\ Cardinality(Upto(j)) <= Cardinality(S)
  BY <1>1, FS_Subset
<1>3. \A j \in Nat : Cardinality(Upto(j)) \in Nat
  BY <1>2, FS_CardinalityType
<1>4. Upto(0) = {} /\ Upto(MaxJobId) = S
  BY <1>0
<1>5. ASSUME NEW j \in Nat
      PROVE  Rank(S, j + 1) = IF j + 1 \in S THEN Rank(S, j) + 1 ELSE Rank(S, j)
  <2>1. CASE j + 1 \in S
    <3>1. Upto(j + 1) = Upto(j) \cup {j + 1} /\ j + 1 \notin Upto(j)
      BY <1>0, <2>1
    <3> QED
      BY <1>2, <2>1, <3>1, FS_AddElement DEF Rank
  <2>2. CASE j + 1 \notin S
    <3>1. Upto(j + 1) = Upto(j)
      BY <1>0, <2>2
    <3> QED
      BY <2>2, <3>1 DEF Rank
  <2> QED
    BY <2>1, <2>2
<1>6. ASSUME NEW j \in Nat, NEW i \in Nat, i <= j
      PROVE  Rank(S, i) <= Rank(S, j)
  <2>1. Upto(i) \in SUBSET Upto(j)
    BY <1>0, <1>6
  <2> QED
    BY <1>2, <2>1, FS_Subset DEF Rank
<1> QED
  BY <1>1, <1>2, <1>3, <1>4, <1>5, <1>6, FS_EmptySet DEF Rank

\* So every number up to the cardinality is the rank of one member, and of one only.
LEMMA RanksAreAll ==
  ASSUME NEW S \in SUBSET JobIds
  PROVE  /\ \A j \in S : Rank(S, j) \in 1 .. Cardinality(S)
         /\ \A n \in 1 .. Cardinality(S) : \E j \in S : Rank(S, j) = n
         /\ \A i, j \in S : Rank(S, i) = Rank(S, j) => i = j
<1>1. \A j \in S : j \in Nat /\ j - 1 \in Nat /\ j = (j - 1) + 1
  BY RecoveryAssumption DEF JobIds
<1>2. \A j \in S : Rank(S, j) = Rank(S, j - 1) + 1
  <2> TAKE j \in S
  <2>1. Rank(S, (j - 1) + 1) = IF (j - 1) + 1 \in S THEN Rank(S, j - 1) + 1 ELSE Rank(S, j - 1)
    <3>1. PICK n \in Nat : n = j - 1
      BY <1>1
    <3>2. Rank(S, n + 1) = IF n + 1 \in S THEN Rank(S, n) + 1 ELSE Rank(S, n)
      BY RankGrows
    <3> QED
      BY <3>1, <3>2
  <2> QED
    BY <1>1, <2>1
<1>3. \A j \in S : Rank(S, j) \in 1 .. Cardinality(S)
  <2> TAKE j \in S
  <2>1. Rank(S, j - 1) \in Nat /\ Rank(S, j) <= Cardinality(S) /\ Cardinality(S) \in Nat
    BY <1>1, RankGrows
  <2> QED
    BY <1>2, <2>1
<1>4. ASSUME NEW n \in 1 .. Cardinality(S)
      PROVE  \E j \in S : Rank(S, j) = n
  <2> DEFINE T == {m \in Nat : n <= Rank(S, m)}
  <2>1. MaxJobId \in T /\ Cardinality(S) \in Nat
    BY RankGrows, RecoveryAssumption
  <2>2. PICK m \in T : \A k \in T : m <= k
    BY <2>1, LeastNumber
  <2>3. m # 0
    BY <2>2, RankGrows
  <2>4. m - 1 \in Nat /\ m = (m - 1) + 1 /\ m - 1 \notin T
    BY <2>2, <2>3
  <2>5. /\ Rank(S, m - 1) \in Nat /\ Rank(S, m - 1) < n /\ n <= Rank(S, m)
        /\ Rank(S, m) = IF m \in S THEN Rank(S, m - 1) + 1 ELSE Rank(S, m - 1)
    <3>1. Rank(S, m - 1) \in Nat
      BY <2>4, RankGrows
    <3>2. ~(n <= Rank(S, m - 1)) /\ n <= Rank(S, m)
      BY <2>4, <2>2
    <3>3. Rank(S, (m - 1) + 1) = IF (m - 1) + 1 \in S THEN Rank(S, m - 1) + 1 ELSE Rank(S, m - 1)
      BY <2>4, RankGrows
    <3> QED
      BY <2>1, <2>4, <3>1, <3>2, <3>3
  <2> QED
    BY <2>1, <2>5
<1>5. ASSUME NEW i \in S, NEW j \in S, i < j
      PROVE  Rank(S, i) < Rank(S, j)
  <2>1. i \in Nat /\ j - 1 \in Nat /\ i <= j - 1
    BY <1>1, <1>5
  <2>2. Rank(S, i) <= Rank(S, j - 1) /\ Rank(S, i) \in Nat /\ Rank(S, j - 1) \in Nat
    BY <2>1, RankGrows
  <2> QED
    BY <1>2, <2>2
<1>6. ASSUME NEW i \in S, NEW j \in S, Rank(S, i) = Rank(S, j)
      PROVE  i = j
  <2>1. i \in Nat /\ j \in Nat /\ Rank(S, i) \in Nat
    BY <1>1, RankGrows
  <2>2. ~(i < j) /\ ~(j < i)
    BY <1>5, <1>6, <2>1
  <2> QED
    BY <2>1, <2>2
<1> QED
  BY <1>3, <1>4, <1>6

\* The recovery schedules each of the jobs it found just created, once.
LEMMA InOrderIsComplete ==
  ASSUME NEW S \in SUBSET JobIds
  PROVE  /\ InOrder(S) \in Seq(JobIds \X Events) /\ DOMAIN InOrder(S) = 1 .. Cardinality(S)
         /\ \A i \in DOMAIN InOrder(S) : InOrder(S)[i][1] \in S /\ InOrder(S)[i][2] = "PENDING"
         /\ \A i, k \in DOMAIN InOrder(S) : InOrder(S)[i][1] = InOrder(S)[k][1] => i = k
         /\ \A j \in S : \E i \in DOMAIN InOrder(S) : InOrder(S)[i] = <<j, "PENDING">>
<1> DEFINE at(n) == CHOOSE j \in S : Rank(S, j) = n
<1>1. Cardinality(S) \in Nat
  BY RankGrows
<1>2. \A n \in 1 .. Cardinality(S) : at(n) \in S /\ Rank(S, at(n)) = n
  BY RanksAreAll
<1>3. /\ DOMAIN InOrder(S) = 1 .. Cardinality(S)
      /\ \A n \in 1 .. Cardinality(S) : InOrder(S)[n] = <<at(n), "PENDING">>
  BY DEF InOrder
<1>4. \A j \in S : Rank(S, j) \in 1 .. Cardinality(S) /\ at(Rank(S, j)) = j
  BY <1>2, RanksAreAll
<1>5. InOrder(S) = [n \in 1 .. Cardinality(S) |-> <<at(n), "PENDING">>]
  BY DEF InOrder
<1> HIDE DEF at
<1>6. \A n \in 1 .. Cardinality(S) : <<at(n), "PENDING">> \in JobIds \X Events
  BY <1>2 DEF Events
<1>7. InOrder(S) \in [1 .. Cardinality(S) -> JobIds \X Events]
  BY <1>5, <1>6
<1>8. InOrder(S) \in Seq(JobIds \X Events)
  BY <1>1, <1>7, SeqDef
<1> QED
  BY <1>2, <1>3, <1>4, <1>8

-----------------------------------------------------------------------------
(* The beginning of an operation.                                          *)

LEMMA AfterTypes ==
  /\ \A e \in Events : After(e) \in States
  /\ After("PENDING") = "Pending"
BY DEF Events, After, States

\* When no event is left, a job is in its final state.
LEMMA NothingToDo ==
  ASSUME IInv, todo = <<>>
  PROVE  /\ \A j \in JobIds : /\ FinalState(j) = job[j].state /\ job[j].state # "Created"
                              /\ ~Terminating(j)
         /\ mixed \/ \A r \in Resources, j \in JobIds :
                       lock[r] = j <=> job[j].state \in Busy /\ r \in Needs[j]
<1>1. DOMAIN todo = {}
  OBVIOUS
<1>2. \A j \in JobIds : FinalState(j) = job[j].state
  BY <1>1 DEF FinalState
<1>3. \A j \in JobIds : job[j].state # "Created" /\ ~Terminating(j)
  BY <1>1 DEF IInv, CreatedIsToSchedule, Terminating
<1> QED
  BY <1>2, <1>3 DEF IInv, LocksFollow

\* The events an operation has before it, on one job in a state they fit, with the locks
\* that will fit the state they lead to.
Begins(j, events, newLock) ==
  /\ events \in Seq(Events)
  /\ job[j].state \in Before(events[1])
  /\ \/ Len(events) = 1 /\ events[1] \in LastEvents
     \/ Len(events) = 2 /\ <<events[1], events[2]>> \in Couples
  /\ Len(events) = 2 /\ events[1] = "FAIL" /\ events[2] # "TERMINATE"
       => job[j].fails + 1 < MaxRetry
  /\ newLock = [r \in Resources |-> newLock[r]]
  /\ mixed \/ \A r \in Resources, k \in JobIds :
       newLock[r] = k <=>
         /\ (IF k = j THEN After(events[Len(events)]) ELSE job[k].state) \in Busy
         /\ r \in Needs[k]

LEMMA BeginKeeps ==
  ASSUME IInv, NEW j \in JobIds, NEW events, todo = <<>>,
         todo' = [i \in DOMAIN events |-> <<j, events[i]>>],
         Begins(j, events, lock'), admitting' \in BOOLEAN,
         UNCHANGED <<job, saved, crashes, mixed>>
  PROVE  IInv'
<1>1. /\ events \in Seq(Events) /\ Len(events) \in {1, 2} /\ DOMAIN events = 1 .. Len(events)
      /\ events \in [1 .. Len(events) -> Events]
  BY LenProperties DEF Begins
<1>2. /\ todo' \in [1 .. Len(events) -> JobIds \X Events] /\ Len(events) \in Nat
      /\ \A i \in 1 .. Len(events) : todo'[i][1] = j /\ todo'[i][2] = events[i]
  BY <1>1
<1>3. todo' \in Seq(JobIds \X Events)
  BY <1>2, SeqDef
<1>4. Len(todo') = Len(events) /\ DOMAIN todo' = 1 .. Len(events)
  BY <1>1, <1>2, <1>3, LenProperties
<1>5. Typed'
  BY <1>3 DEF IInv, Typed, Begins
<1>6. OneJob'
  <2>1. /\ todo'[1][1] = j /\ todo'[1][2] = events[1]
        /\ Len(events) = 2 => todo'[2][1] = j /\ todo'[2][2] = events[2]
    BY <1>1, <1>2
  <2>2. job'[todo'[1][1]].state \in Before(events[1])
    BY <2>1 DEF Begins
  <2>3. \/ Len(todo') = 1 /\ todo'[1][2] \in LastEvents
        \/ /\ Len(todo') = 2 /\ todo'[2][1] = todo'[1][1]
           /\ <<todo'[1][2], todo'[2][2]>> \in Couples
    BY <1>4, <2>1 DEF Begins
  <2>4. Before(todo'[1][2]) = Before(events[1])
    BY <2>1
  <2> QED
    BY <2>2, <2>3, <2>4 DEF OneJob
<1>7. \A k \in JobIds : FinalState(k)' = IF k = j THEN After(events[Len(events)]) ELSE job[k].state
  BY <1>1, <1>2, <1>4 DEF FinalState
<1>8. mixed' \/ (Exclusive(job)' /\ Exclusive(saved)' /\ LocksFollow')
  <2>1. mixed \/ LocksFollow'
    <3> SUFFICES ASSUME ~mixed, NEW r \in Resources, NEW k \in JobIds
                 PROVE  lock'[r] = k <=> FinalState(k)' \in Busy /\ r \in Needs[k]
      BY DEF LocksFollow
    <3>1. lock'[r] = k <=>
            /\ (IF k = j THEN After(events[Len(events)]) ELSE job[k].state) \in Busy
            /\ r \in Needs[k]
      BY DEF Begins
    <3> QED
      BY <1>7, <3>1
  <2> QED
    BY <2>1 DEF IInv, Exclusive
<1>9. SavedEndIsFinal' /\ CreatedIsToSchedule'
  BY NothingToDo DEF IInv, SavedEndIsFinal, CreatedIsToSchedule
<1>10. FailuresAreCounted'
  <2>1. \A k \in JobIds :
          /\ job[k].fails <= MaxRetry + crashes /\ saved[k].fails <= MaxRetry + crashes
          /\ job[k].state \notin Ends => job[k].fails < MaxRetry + crashes
    BY NothingToDo DEF IInv, FailuresAreCounted
  <2>2. Len(todo') = 2 /\ todo'[1][2] = "FAIL" /\ todo'[2][2] # "TERMINATE"
          => job[todo'[1][1]].fails + 1 < MaxRetry
    BY <1>1, <1>2, <1>4 DEF Begins
  <2> QED
    BY <2>1, <2>2 DEF FailuresAreCounted
<1> QED
  BY <1>5, <1>6, <1>8, <1>9, <1>10 DEF IInv, TodoIsLegal

\* The locks that the operations take or release fit the state they leave their job in.
LEMMA LockFits ==
  ASSUME IInv, todo = <<>>, NEW j \in JobIds, Free(j), ~mixed, NEW s \in Busy,
         NEW r \in Resources, NEW k \in JobIds
  PROVE  Lock(j)[r] = k <=> (IF k = j THEN s ELSE job[k].state) \in Busy /\ r \in Needs[k]
<1>1. /\ lock[r] = k <=> job[k].state \in Busy /\ r \in Needs[k]
      /\ lock[r] = j <=> job[j].state \in Busy /\ r \in Needs[j]
  BY NothingToDo
<1>2. Lock(j)[r] = IF r \in Needs[j] THEN j ELSE lock[r]
  BY DEF Lock
<1>3. r \in Needs[j] => lock[r] \in {NoJob, j}
  BY RecoveryAssumption DEF Free
<1>4. k # NoJob
  BY RecoveryAssumption DEF JobIds, NoJob
<1> QED
  BY <1>1, <1>2, <1>3, <1>4

LEMMA UnlockFits ==
  ASSUME IInv, todo = <<>>, NEW j \in JobIds, ~mixed, NEW s, s \notin Busy,
         NEW r \in Resources, NEW k \in JobIds
  PROVE  Unlock(j)[r] = k <=> (IF k = j THEN s ELSE job[k].state) \in Busy /\ r \in Needs[k]
<1>1. lock[r] = k <=> job[k].state \in Busy /\ r \in Needs[k]
  BY NothingToDo
<1>2. Unlock(j)[r] = IF lock[r] = j THEN NoJob ELSE lock[r]
  BY DEF Unlock
<1>3. k # NoJob
  BY RecoveryAssumption DEF JobIds, NoJob
<1> QED
  BY <1>1, <1>2, <1>3

LEMMA LockTypes ==
  ASSUME NEW j
  PROVE  /\ Lock(j) = [r \in Resources |-> Lock(j)[r]]
         /\ Unlock(j) = [r \in Resources |-> Unlock(j)[r]]
BY DEF Lock, Unlock

LEMMA OperationKeeps ==
  ASSUME IInv, Operation
  PROVE  IInv'
<1>1. ASSUME NEW j \in JobIds, NEW events, NEW newLock, NEW admit \in BOOLEAN,
             Do(j, events, newLock, admit), Begins(j, events, newLock)
      PROVE  IInv'
  BY <1>1, BeginKeeps DEF Do, Idle
<1>2. TRUE \in BOOLEAN /\ FALSE \in BOOLEAN
  OBVIOUS
<1>3. CASE TryEnqueuePendingJobs
  BY <1>3 DEF TryEnqueuePendingJobs, Idle, IInv, Typed, TodoIsLegal, Scheduling, OneJob,
              SavedEndIsFinal, FailuresAreCounted, CreatedIsToSchedule, Terminating,
              Exclusive, LocksFollow, FinalState
<1>4. SUFFICES ASSUME NEW j \in JobIds,
                      Create(j) \/ Start(j) \/ Succeed(j) \/ Cancel(j) \/ Fail(j) \/ Retry(j)
                        \/ Delete(j)
               PROVE  IInv'
  BY <1>3 DEF Operation
<1>5. todo = <<>>
  BY <1>4 DEF Create, Start, Succeed, Cancel, Fail, Retry, Delete, Do, Idle
<1>6. job[j].state \in States /\ lock = [r \in Resources |-> lock[r]] /\ job[j].fails \in Nat
  BY DEF IInv, Typed, JobStates
<1>7. \A e1 \in Events, e2 \in Events :
        /\ <<e1>> \in Seq(Events) /\ Len(<<e1>>) = 1 /\ <<e1>>[1] = e1
        /\ <<e1, e2>> \in Seq(Events) /\ Len(<<e1, e2>>) = 2
        /\ <<e1, e2>>[1] = e1 /\ <<e1, e2>>[2] = e2
  OBVIOUS
<1>8. mixed \/ \A r \in Resources, k \in JobIds :
        lock[r] = k <=> job[k].state \in Busy /\ r \in Needs[k]
  BY <1>5, NothingToDo
<1>9. ASSUME NEW s \in Busy, Free(j)
      PROVE  mixed \/ \A r \in Resources, k \in JobIds :
               Lock(j)[r] = k <=> (IF k = j THEN s ELSE job[k].state) \in Busy /\ r \in Needs[k]
  BY <1>5, <1>9, LockFits
<1>10. ASSUME NEW s, s \notin Busy
       PROVE  mixed \/ \A r \in Resources, k \in JobIds :
                Unlock(j)[r] = k <=> (IF k = j THEN s ELSE job[k].state) \in Busy /\ r \in Needs[k]
  BY <1>5, <1>10, UnlockFits
<1>11. CASE Create(j)
  <2>1. Begins(j, <<"CREATE", "PENDING">>, lock)
    BY <1>6, <1>7, <1>8, <1>11 DEF Create, Begins, Before, Couples, Events, After, Busy
  <2> QED
    BY <1>1, <1>2, <1>11, <2>1 DEF Create
<1>12. CASE Start(j)
  <2>1. Begins(j, <<"START">>, lock)
    BY <1>6, <1>7, <1>8, <1>12 DEF Start, Begins, Before, LastEvents, Events, After, Busy
  <2> QED
    BY <1>1, <1>2, <1>12, <2>1 DEF Start
<1>13. CASE Succeed(j)
  <2>1. Begins(j, <<"SUCCESS">>, Unlock(j))
    BY <1>6, <1>7, <1>10, <1>13, LockTypes
       DEF Succeed, Begins, Before, LastEvents, Events, After, Busy
  <2> QED
    BY <1>1, <1>2, <1>13, <2>1 DEF Succeed
<1>14. CASE Cancel(j)
  <2>1. Begins(j, <<"CANCEL", "ENQUEUE">>, lock)
    BY <1>6, <1>7, <1>8, <1>14 DEF Cancel, Begins, Before, Couples, Events, After, Busy
  <2> QED
    BY <1>1, <1>2, <1>14, <2>1 DEF Cancel
<1>15. CASE Fail(j)
  <2>1. job[j].state = "Running"
    BY <1>15 DEF Fail
  <2>2. CASE Do(j, <<"FAIL", "TERMINATE">>, Unlock(j), TRUE)
    <3>1. Begins(j, <<"FAIL", "TERMINATE">>, Unlock(j))
      BY <1>6, <1>7, <1>10, <2>1, LockTypes DEF Begins, Before, Couples, Events, After, Busy
    <3> QED
      BY <1>1, <1>2, <2>2, <3>1
  <2>3. CASE job[j].fails + 1 < MaxRetry /\ Do(j, <<"FAIL", "HIDE">>, Unlock(j), TRUE)
    <3>1. "Hidden" \notin Busy /\ After("HIDE") = "Hidden"
      BY DEF Busy, After
    <3>2. Begins(j, <<"FAIL", "HIDE">>, Unlock(j))
      <4> DEFINE events == <<"FAIL", "HIDE">>
      <4>1. /\ events \in Seq(Events) /\ Len(events) = 2
            /\ events[1] = "FAIL" /\ events[2] = "HIDE"
        BY <1>7 DEF Events
      <4>2. job[j].state \in Before("FAIL") /\ <<"FAIL", "HIDE">> \in Couples
        BY <2>1 DEF Before, Couples
      <4>3. Unlock(j) = [r \in Resources |-> Unlock(j)[r]]
        BY LockTypes
      <4>4. mixed \/ \A r \in Resources, k \in JobIds :
              Unlock(j)[r] = k <=> (IF k = j THEN "Hidden" ELSE job[k].state) \in Busy /\ r \in Needs[k]
        BY <1>10, <3>1
      <4> HIDE DEF events
      <4>5. Begins(j, events, Unlock(j))
        BY <2>3, <3>1, <4>1, <4>2, <4>3, <4>4 DEF Begins
      <4> QED
        BY <4>5 DEF events
    <3> QED
      BY <1>1, <1>2, <2>3, <3>2
  <2>4. CASE /\ job[j].fails + 1 < MaxRetry
             /\ Free(j) /\ Do(j, <<"FAIL", "ENQUEUE">>, Lock(j), FALSE)
    <3>1. "Queued" \in Busy /\ After("ENQUEUE") = "Queued"
      BY DEF Busy, After
    <3>2. Begins(j, <<"FAIL", "ENQUEUE">>, Lock(j))
      <4> DEFINE events == <<"FAIL", "ENQUEUE">>
      <4>1. /\ events \in Seq(Events) /\ Len(events) = 2
            /\ events[1] = "FAIL" /\ events[2] = "ENQUEUE"
        BY <1>7 DEF Events
      <4>2. job[j].state \in Before("FAIL") /\ <<"FAIL", "ENQUEUE">> \in Couples
        BY <2>1 DEF Before, Couples
      <4>3. Lock(j) = [r \in Resources |-> Lock(j)[r]]
        BY LockTypes
      <4>4. mixed \/ \A r \in Resources, k \in JobIds :
              Lock(j)[r] = k <=> (IF k = j THEN "Queued" ELSE job[k].state) \in Busy /\ r \in Needs[k]
        BY <1>9, <2>4, <3>1
      <4> HIDE DEF events
      <4>5. Begins(j, events, Lock(j))
        BY <2>4, <3>1, <4>1, <4>2, <4>3, <4>4 DEF Begins
      <4> QED
        BY <4>5 DEF events
    <3> QED
      BY <1>1, <1>2, <2>4, <3>2
  <2> QED
    BY <1>15, <2>2, <2>3, <2>4 DEF Fail
<1>16. CASE Retry(j)
  <2>1. Begins(j, <<"ENQUEUE">>, Lock(j))
    BY <1>6, <1>7, <1>9, <1>16, LockTypes
       DEF Retry, Begins, Before, LastEvents, Events, After, Busy
  <2> QED
    BY <1>1, <1>2, <1>16, <2>1 DEF Retry
<1>17. CASE Delete(j)
  <2>1. Begins(j, <<"DELETE">>, Unlock(j))
    BY <1>6, <1>7, <1>10, <1>17, LockTypes
       DEF Delete, Begins, Before, LastEvents, Events, After, Busy
  <2> QED
    BY <1>1, <1>2, <1>17, <2>1 DEF Delete
<1> QED
  BY <1>4, <1>11, <1>12, <1>13, <1>14, <1>15, <1>16, <1>17

-----------------------------------------------------------------------------
(* The events of an operation.                                             *)

\* What Notify does with the first event, and what is left after it.
LEMMA NotifyStep ==
  ASSUME IInv, Notify
  PROVE  /\ Len(todo) \in Nat \ {0} /\ DOMAIN todo = 1 .. Len(todo)
         /\ todo[1] = <<todo[1][1], todo[1][2]>>
         /\ todo[1][1] \in JobIds /\ todo[1][2] \in Events
         /\ todo' \in Seq(JobIds \X Events) /\ Len(todo') = Len(todo) - 1
         /\ DOMAIN todo' = 1 .. Len(todo) - 1
         /\ \A i \in 1 .. Len(todo) - 1 : todo'[i] = todo[i + 1]
         /\ job' \in [JobIds -> JobStates]
         /\ job'[todo[1][1]].state = After(todo[1][2])
         /\ job'[todo[1][1]].fails =
              IF todo[1][2] = "FAIL" THEN job[todo[1][1]].fails + 1 ELSE job[todo[1][1]].fails
         /\ \A k \in JobIds : k # todo[1][1] => job'[k] = job[k]
<1>1. todo \in Seq(JobIds \X Events) /\ todo # <<>> /\ job \in [JobIds -> JobStates]
  BY DEF IInv, Typed, Notify
<1>2. Len(todo) \in Nat \ {0} /\ DOMAIN todo = 1 .. Len(todo)
  BY <1>1, EmptySeq, LenProperties
<1>3. todo[1] \in JobIds \X Events
  BY <1>1, <1>2, ElementOfSeq
<1>4. /\ todo' \in Seq(JobIds \X Events) /\ Len(todo') = Len(todo) - 1
      /\ DOMAIN todo' = 1 .. Len(todo) - 1
      /\ \A i \in 1 .. Len(todo) - 1 : todo'[i] = todo[i + 1]
  <2>1. todo' = Tail(todo)
    BY DEF Notify
  <2>2. /\ Tail(todo) \in Seq(JobIds \X Events) /\ Len(Tail(todo)) = Len(todo) - 1
        /\ \A i \in 1 .. Len(Tail(todo)) : Tail(todo)[i] = todo[i + 1]
    BY <1>1, HeadTailProperties
  <2> QED
    BY <2>1, <2>2, LenProperties
<1> DEFINE h == todo[1][1]
           f == IF todo[1][2] = "FAIL" THEN job[h].fails + 1 ELSE job[h].fails
           new == [job[h] EXCEPT !.state = After(todo[1][2]), !.fails = f]
<1>5. h \in JobIds /\ todo[1][2] \in Events /\ job[h] \in JobStates
  BY <1>1, <1>3
<1>6. After(todo[1][2]) \in States /\ f \in Nat
  BY <1>5, AfterTypes DEF JobStates
<1>7. new \in JobStates /\ new.state = After(todo[1][2]) /\ new.fails = f
  BY <1>5, <1>6 DEF JobStates
<1>8. job' = [job EXCEPT ![h] = new]
  BY <1>1, <1>5 DEF Notify, JobStates
<1> HIDE DEF new, f
<1>9. job' \in [JobIds -> JobStates] /\ job'[h] = new /\ \A k \in JobIds : k # h => job'[k] = job[k]
  BY <1>1, <1>5, <1>7, <1>8
<1> QED
  BY <1>2, <1>3, <1>4, <1>5, <1>7, <1>9 DEF f

\* What is left to do: the other jobs to schedule, nothing, or the second of two events.
LEMMA NotifyCases ==
  ASSUME IInv, Notify
  PROVE  \/ Scheduling
         \/ OneJob /\ Len(todo) = 1 /\ todo[1][2] \in LastEvents
         \/ /\ OneJob /\ Len(todo) = 2 /\ todo[2] = <<todo[1][1], todo[2][2]>>
            /\ <<todo[1][2], todo[2][2]>> \in Couples
<1>1. todo \in Seq(JobIds \X Events)
  BY DEF IInv, Typed
<1>2. Len(todo) = 2 => todo[2] \in JobIds \X Events
  <2> SUFFICES ASSUME Len(todo) = 2 PROVE todo[2] \in JobIds \X Events
    OBVIOUS
  <2>1. 2 \in 1 .. Len(todo)
    OBVIOUS
  <2>2. PICK S : S = JobIds \X Events
    OBVIOUS
  <2>3. todo \in Seq(S)
    BY <1>1, <2>2
  <2>4. todo[2] \in S
    BY <2>1, <2>3, ElementOfSeq
  <2> QED
    BY <2>2, <2>4
<1>3. Len(todo) = 2 => todo[2] = <<todo[2][1], todo[2][2]>>
  BY <1>2
<1> QED
  BY <1>3 DEF IInv, TodoIsLegal, OneJob

\* An event comes in a state that it fits.
LEMMA NotifyFits ==
  ASSUME IInv, Notify
  PROVE  /\ todo[1][1] \in JobIds /\ todo[1][2] \in Events /\ job[todo[1][1]] \in JobStates
         /\ job[todo[1][1]].state \in Before(todo[1][2])
<1>1. todo[1][1] \in JobIds /\ todo[1][2] \in Events /\ 1 \in DOMAIN todo
  BY NotifyStep
<1>2. job[todo[1][1]] \in JobStates
  BY <1>1 DEF IInv, Typed
<1>3. CASE Scheduling
  BY <1>1, <1>2, <1>3 DEF Scheduling, Before
<1>4. CASE OneJob
  BY <1>1, <1>2, <1>4 DEF OneJob
<1> QED
  BY <1>1, <1>2, <1>3, <1>4 DEF IInv, TodoIsLegal

LEMMA NotifyKeepsTodo ==
  ASSUME IInv, Notify
  PROVE  /\ TodoIsLegal'
         /\ \A k \in JobIds : FinalState(k)' = FinalState(k)
         /\ CreatedIsToSchedule'
<1> DEFINE h == todo[1][1]
           e == todo[1][2]
<1>1. CASE Scheduling
  <2>1. /\ e = "PENDING" /\ \A i \in DOMAIN todo : todo[i][2] = "PENDING"
        /\ \A i \in 1 .. Len(todo) - 1 : todo'[i][1] # h
    <3>1. /\ Len(todo) \in Nat \ {0} /\ DOMAIN todo = 1 .. Len(todo)
          /\ \A i \in 1 .. Len(todo) - 1 : todo'[i] = todo[i + 1]
      BY NotifyStep
    <3>2. /\ \A i \in DOMAIN todo : todo[i][2] = "PENDING"
          /\ \A i, k \in DOMAIN todo : todo[i][1] = todo[k][1] => i = k
      BY <1>1 DEF Scheduling
    <3>3. 1 \in DOMAIN todo
      BY <3>1
    <3>4. ASSUME NEW i \in 1 .. Len(todo) - 1
          PROVE  todo'[i][1] # h
      <4>1. i + 1 \in DOMAIN todo /\ i + 1 # 1
        BY <3>1
      <4> QED
        BY <3>1, <3>2, <3>3, <4>1
    <3> QED
      BY <3>2, <3>3, <3>4
  <2>2. Scheduling'
    <3>1. \A i \in DOMAIN todo' : todo'[i][2] = "PENDING" /\ job'[todo'[i][1]].state = "Created"
      <4> TAKE i \in DOMAIN todo'
      <4>1. /\ i \in 1 .. Len(todo) - 1 /\ i + 1 \in DOMAIN todo /\ todo'[i] = todo[i + 1]
            /\ todo'[i][1] \in JobIds /\ todo'[i][1] # h
        BY <2>1, NotifyStep, ElementOfSeq
      <4> QED
        BY <1>1, <4>1, NotifyStep DEF Scheduling
    <3>2. \A i, k \in DOMAIN todo' : todo'[i][1] = todo'[k][1] => i = k
      <4> TAKE i, k \in DOMAIN todo'
      <4>1. /\ i \in 1 .. Len(todo) - 1 /\ i + 1 \in DOMAIN todo /\ todo'[i] = todo[i + 1]
            /\ k \in 1 .. Len(todo) - 1 /\ k + 1 \in DOMAIN todo /\ todo'[k] = todo[k + 1]
        BY NotifyStep
      <4>2. todo[i + 1][1] = todo[k + 1][1] => i + 1 = k + 1
        BY <1>1, <4>1 DEF Scheduling
      <4> QED
        BY <4>1, <4>2
    <3> QED
      BY <3>1, <3>2 DEF Scheduling
  <2>3. ASSUME NEW k \in JobIds PROVE FinalState(k)' = FinalState(k)
    <3>1. CASE k = h
      <4>1. ~ \E i \in DOMAIN todo' : todo'[i][1] = k
        BY <2>1, <3>1, NotifyStep
      <4>2. FinalState(k)' = After("PENDING")
        BY <2>1, <3>1, <4>1, NotifyStep DEF FinalState
      <4>3. FinalState(k) = After("PENDING")
        BY <2>1, <3>1, NotifyStep DEF FinalState
      <4> QED
        BY <4>2, <4>3
    <3>2. CASE k # h /\ \E i \in DOMAIN todo : todo[i][1] = k
      <4>1. PICK i \in DOMAIN todo : todo[i][1] = k
        BY <3>2
      <4>2. i - 1 \in DOMAIN todo' /\ todo'[i - 1] = todo[(i - 1) + 1] /\ (i - 1) + 1 = i
        BY <3>2, <4>1, NotifyStep
      <4>3. Len(todo') \in 1 .. Len(todo) - 1 /\ todo'[Len(todo')] = todo[Len(todo)]
        BY <4>2, NotifyStep
      <4>4. FinalState(k) = After(todo[Len(todo)][2])
        BY <4>1 DEF FinalState
      <4>5. FinalState(k)' = After(todo'[Len(todo')][2])
        BY <4>1, <4>2 DEF FinalState
      <4> QED
        BY <4>3, <4>4, <4>5
    <3>3. CASE k # h /\ ~ \E i \in DOMAIN todo : todo[i][1] = k
      <4>1. ASSUME NEW i \in DOMAIN todo' PROVE todo'[i][1] # k
        <5>1. i + 1 \in DOMAIN todo /\ todo'[i] = todo[i + 1]
          BY NotifyStep
        <5> QED
          BY <3>3, <5>1
      <4> QED
        BY <3>3, <4>1, NotifyStep DEF FinalState
    <3> QED
      BY <3>1, <3>2, <3>3
  <2>4. ASSUME NEW k \in JobIds, job'[k].state = "Created"
        PROVE  \E i \in DOMAIN todo' : todo'[i] = <<k, "PENDING">>
    <3>1. k # h
      BY <2>1, <2>4, NotifyStep DEF After
    <3>2. job[k].state = "Created"
      BY <2>4, <3>1, NotifyStep
    <3>3. PICK i \in DOMAIN todo : todo[i] = <<k, "PENDING">>
      BY <3>2 DEF IInv, CreatedIsToSchedule
    <3>4. i - 1 \in DOMAIN todo' /\ todo'[i - 1] = todo[(i - 1) + 1] /\ (i - 1) + 1 = i
      BY <3>1, <3>3, NotifyStep
    <3> QED
      BY <3>3, <3>4
  <2> QED
    BY <2>2, <2>3, <2>4 DEF TodoIsLegal, CreatedIsToSchedule
<1>2. CASE OneJob /\ Len(todo) = 1 /\ e \in LastEvents
  <2>1. DOMAIN todo' = {} /\ DOMAIN todo = {1}
    BY <1>2, NotifyStep
  <2>2. Scheduling'
    BY <2>1 DEF Scheduling
  <2>3. \A k \in JobIds : FinalState(k)' = job'[k].state
    BY <2>1 DEF FinalState
  <2>4. \A k \in JobIds : FinalState(k) = IF k = h THEN After(e) ELSE job[k].state
    BY <1>2, <2>1 DEF FinalState
  <2>5. \A k \in JobIds : job'[k].state # "Created"
    <3> TAKE k \in JobIds
    <3>1. CASE k = h
      BY <1>2, <3>1, NotifyStep DEF LastEvents, Events, After
    <3>2. CASE k # h
      <4>1. \A i \in DOMAIN todo : todo[i] # <<k, "PENDING">>
        BY <2>1, <3>2
      <4> QED
        BY <3>2, <4>1, NotifyStep DEF IInv, CreatedIsToSchedule
    <3> QED
      BY <3>1, <3>2
  <2> QED
    BY <2>2, <2>3, <2>4, <2>5, NotifyStep DEF TodoIsLegal, CreatedIsToSchedule
<1>3. CASE /\ OneJob /\ Len(todo) = 2 /\ todo[2] = <<h, todo[2][2]>>
           /\ <<e, todo[2][2]>> \in Couples
  <2>1. /\ DOMAIN todo' = {1} /\ DOMAIN todo = {1, 2} /\ Len(todo') = 1
        /\ todo'[1] = todo[2] /\ todo[2][1] = h
    BY <1>3, NotifyStep
  <2>2. todo[2][2] \in LastEvents /\ After(e) \in Before(todo[2][2])
    BY <1>3 DEF Couples, LastEvents, Events, After, Before
  <2>3. OneJob'
    <3>1. job'[todo'[1][1]].state \in Before(todo'[1][2])
      BY <2>1, <2>2, NotifyStep
    <3> QED
      BY <2>1, <2>2, <3>1 DEF OneJob
  <2>4. \A k \in JobIds : FinalState(k) = IF k = h THEN After(todo[2][2]) ELSE job[k].state
    BY <1>3, <2>1 DEF FinalState
  <2>5. \A k \in JobIds : FinalState(k)' = IF k = h THEN After(todo[2][2]) ELSE job'[k].state
    BY <2>1 DEF FinalState
  <2>6. ASSUME NEW k \in JobIds, job'[k].state = "Created"
        PROVE  todo'[1] = <<k, "PENDING">>
    <3>1. CASE k = h
      <4>1. After(e) = "Created"
        BY <2>6, <3>1, NotifyStep
      <4>2. e = "CREATE"
        BY <4>1, NotifyStep DEF After, Events
      <4>3. todo[2][2] = "PENDING"
        BY <1>3, <4>2 DEF Couples
      <4> QED
        BY <1>3, <2>1, <3>1, <4>3
    <3>2. CASE k # h
      <4>1. PICK i \in DOMAIN todo : todo[i] = <<k, "PENDING">>
        BY <2>6, <3>2, NotifyStep DEF IInv, CreatedIsToSchedule
      <4> QED
        BY <2>1, <3>2, <4>1
    <3> QED
      BY <3>1, <3>2
  <2> QED
    BY <2>1, <2>3, <2>4, <2>5, <2>6, NotifyStep DEF TodoIsLegal, CreatedIsToSchedule
<1> QED
  BY <1>1, <1>2, <1>3, NotifyCases

LEMMA NotifyKeeps ==
  ASSUME IInv, Notify
  PROVE  IInv'
<1> DEFINE h == todo[1][1]
           e == todo[1][2]
<1>1. h \in JobIds /\ e \in Events /\ job[h] \in JobStates /\ job[h].state \in Before(e)
  BY NotifyFits
<1>2. /\ lock' = lock /\ admitting' = admitting /\ saved' = saved
      /\ crashes' = crashes /\ mixed' = mixed
  BY DEF Notify
<1>3. Typed'
  BY <1>2, NotifyStep DEF IInv, Typed
<1>4. SavedEndIsFinal'
  <2>1. job[h].state \in Ends => After(e) = "Deleted"
    BY <1>1 DEF Before, Events, Ends, After
  <2> QED
    BY <1>2, <2>1, NotifyStep DEF IInv, SavedEndIsFinal, Ends
<1>5. FailuresAreCounted'
  <2>1. \A k \in JobIds :
          /\ job[k].fails \in Nat /\ job[k].fails <= MaxRetry + crashes
          /\ saved[k].fails <= MaxRetry + crashes
          /\ job[k].state \notin Ends /\ ~Terminating(k) => job[k].fails < MaxRetry + crashes
    BY DEF IInv, Typed, JobStates, FailuresAreCounted
  <2>2. MaxRetry + crashes \in Nat /\ MaxRetry <= MaxRetry + crashes
    BY RecoveryAssumption DEF IInv, Typed
  <2>3. \A k \in JobIds : Terminating(k) <=> k = h /\ e = "TERMINATE"
    BY NotifyStep DEF Terminating
  <2>4. ASSUME NEW k \in JobIds, k = h
        PROVE  /\ job'[k].fails <= MaxRetry + crashes
               /\ job'[k].state \notin Ends /\ ~Terminating(k)' => job'[k].fails < MaxRetry + crashes
    <3>1. CASE e = "FAIL"
      <4>1. job[h].state = "Running" /\ job'[h].fails = job[h].fails + 1
        BY <1>1, <3>1, NotifyStep DEF Before
      <4>2. job[h].fails < MaxRetry + crashes
        BY <1>1, <2>1, <2>3, <3>1, <4>1 DEF Ends
      <4>3. /\ OneJob /\ Len(todo) = 2 /\ todo[2] = <<h, todo[2][2]>>
            /\ todo'[1] = todo[2] /\ todo' # <<>>
        <5>1. ~Scheduling /\ e \notin LastEvents
          BY <3>1, NotifyStep DEF Scheduling, LastEvents
        <5>2. OneJob /\ Len(todo) = 2 /\ todo[2] = <<h, todo[2][2]>>
          BY <5>1, NotifyCases
        <5>3. todo'[1] = todo[2] /\ DOMAIN todo' = {1}
          BY <5>2, NotifyStep
        <5>4. todo' # <<>>
          BY <5>3
        <5> QED
          BY <5>2, <5>3, <5>4
      <4>4. ~Terminating(k)' => todo[2][2] # "TERMINATE"
        BY <2>4, <4>3 DEF Terminating
      <4>5. todo[2][2] # "TERMINATE" => job[h].fails + 1 < MaxRetry
        BY <3>1, <4>3 DEF IInv, FailuresAreCounted
      <4>6. job[h].fails \in Nat /\ MaxRetry \in Nat
        BY <1>1, <2>1, RecoveryAssumption
      <4> QED
        BY <2>2, <2>4, <4>1, <4>2, <4>4, <4>5, <4>6
    <3>2. CASE e # "FAIL"
      <4>1. job'[h].fails = job[h].fails /\ job'[h].state = After(e)
        BY <3>2, NotifyStep
      <4>2. After(e) \notin Ends => e # "TERMINATE" /\ e # "DELETE"
        BY DEF After, Ends
      <4>3. e # "DELETE" => job[h].state \notin Ends
        BY <1>1 DEF Before, Events, Ends
      <4> QED
        BY <1>1, <2>1, <2>3, <2>4, <4>1, <4>2, <4>3
    <3> QED
      BY <3>1, <3>2
  <2>5. \A k \in JobIds : k # h => job'[k] = job[k] /\ ~Terminating(k)
    BY <2>3, NotifyStep
  <2>6. \A k \in JobIds :
          /\ job'[k].fails <= MaxRetry + crashes
          /\ job'[k].state \notin Ends /\ ~Terminating(k)' => job'[k].fails < MaxRetry + crashes
    <3> TAKE k \in JobIds
    <3>1. CASE k = h
      BY <2>4, <3>1
    <3>2. CASE k # h
      <4>1. job'[k] = job[k] /\ ~Terminating(k)
        BY <2>5, <3>2
      <4>2. job'[k].fails = job[k].fails /\ job'[k].state = job[k].state
        BY <4>1
      <4> QED
        BY <2>1, <4>1, <4>2
    <3> QED
      BY <3>1, <3>2
  <2>7. Len(todo') = 2 => todo'[1][2] # "FAIL"
    <3>1. SUFFICES ASSUME Len(todo') = 2 PROVE todo'[1][2] # "FAIL"
      OBVIOUS
    <3>2. Len(todo) = 3
      <4>1. Len(todo) \in Nat /\ Len(todo') = Len(todo) - 1
        BY NotifyStep
      <4>2. \A n \in Nat : 2 = n - 1 => n = 3
        OBVIOUS
      <4>3. 2 = Len(todo) - 1
        BY <3>1, <4>1, Zenon
      <4> QED
        BY <4>1, <4>2, <4>3, Zenon
    <3>4. 1 \in 1 .. Len(todo) - 1 /\ 2 \in DOMAIN todo
      BY <3>2, NotifyStep
    <3>5. todo'[1] = todo[1 + 1]
      BY <3>4, NotifyStep
    <3>3. Scheduling
      BY <3>2, NotifyCases
    <3> QED
      BY <3>3, <3>4, <3>5 DEF Scheduling
  <2> QED
    BY <1>2, <2>1, <2>6, <2>7 DEF FailuresAreCounted
<1>6. ASSUME ~mixed
      PROVE  Exclusive(job)' /\ Exclusive(saved)' /\ LocksFollow'
  <2>1. Exclusive(job) /\ Exclusive(saved) /\ LocksFollow
    BY <1>6 DEF IInv
  <2>2. LocksFollow'
    BY <1>2, <2>1, NotifyKeepsTodo DEF LocksFollow
  <2>3. ASSUME job'[h].state \in Busy, job[h].state \notin Busy
        PROVE  Len(todo) = 1 /\ FinalState(h) \in Busy
    <3>1. e \in {"ENQUEUE", "START"}
      BY <1>1, <2>3, NotifyStep DEF After, Busy, Before, Events
    <3>2. ~Scheduling
      BY <3>1, NotifyStep DEF Scheduling
    <3>3. Len(todo) = 1
      BY <3>1, <3>2, NotifyCases DEF Couples
    <3>4. FinalState(h) = After(e)
      BY <3>3, NotifyStep DEF FinalState
    <3> QED
      BY <2>3, <3>3, <3>4, NotifyStep
  <2>4. ASSUME job'[h].state \in Busy, NEW k \in JobIds, k # h, job[k].state \in Busy
        PROVE  Needs[h] \cap Needs[k] = {}
    <3>1. CASE job[h].state \in Busy
      BY <1>1, <2>1, <2>4, <3>1 DEF Exclusive
    <3>2. CASE job[h].state \notin Busy
      <4>1. Len(todo) = 1 /\ FinalState(h) \in Busy
        BY <2>3, <2>4, <3>2
      <4>2. FinalState(k) = job[k].state
        BY <2>4, <4>1, NotifyStep DEF FinalState
      <4>3. ASSUME NEW r \in Needs[h] \cap Needs[k] PROVE FALSE
        <5>1. r \in Resources
          BY <1>1, RecoveryAssumption
        <5>2. lock[r] = h /\ lock[r] = k
          BY <1>1, <2>1, <2>4, <4>1, <4>2, <5>1 DEF LocksFollow
        <5> QED
          BY <2>4, <5>2
      <4> QED
        BY <4>3
    <3> QED
      BY <3>1, <3>2
  <2>5. Exclusive(job)'
    <3>1. ASSUME NEW i \in JobIds, NEW k \in JobIds, i # k,
                 job'[i].state \in Busy, job'[k].state \in Busy
          PROVE  Needs[i] \cap Needs[k] = {}
      <4>1. CASE i = h
        BY <2>4, <3>1, <4>1, NotifyStep
      <4>2. CASE k = h
        BY <2>4, <3>1, <4>2, NotifyStep
      <4>3. CASE i # h /\ k # h
        BY <2>1, <3>1, <4>3, NotifyStep DEF Exclusive
      <4> QED
        BY <4>1, <4>2, <4>3
    <3> QED
      BY <3>1 DEF Exclusive
  <2> QED
    BY <1>2, <2>1, <2>2, <2>5 DEF Exclusive
<1> QED
  BY <1>2, <1>3, <1>4, <1>5, <1>6, NotifyKeepsTodo DEF IInv

LEMMA AdmitKeeps ==
  ASSUME IInv, Admit
  PROVE  IInv'
<1>1. todo = <<>> /\ UNCHANGED <<job, saved, crashes, mixed>>
  BY DEF Admit
<1>2. CASE admitting' = FALSE /\ UNCHANGED <<lock, todo>>
  <2>1. admitting' \in BOOLEAN
    BY <1>2, Zenon
  <2>2. Typed'
    BY <1>1, <1>2, <2>1 DEF IInv, Typed
  <2> QED
    BY <1>1, <1>2, <2>2
       DEF IInv, TodoIsLegal, Scheduling, OneJob, SavedEndIsFinal, FailuresAreCounted,
           CreatedIsToSchedule, Terminating, Exclusive, LocksFollow, FinalState
<1>3. ASSUME NEW j \in JobIds, job[j].state = "Pending", Free(j),
             lock' = Lock(j), todo' = <<<<j, "ENQUEUE">>>>, UNCHANGED admitting
      PROVE  IInv'
  <2> DEFINE events == <<"ENQUEUE">>
  <2>1. /\ events \in Seq(Events) /\ Len(events) = 1 /\ events[1] = "ENQUEUE"
        /\ todo' = [i \in DOMAIN events |-> <<j, events[i]>>]
    BY <1>3 DEF Events
  <2>2. job[j].state \in Before("ENQUEUE") /\ "ENQUEUE" \in LastEvents
    BY <1>3 DEF Before, LastEvents, Events
  <2>3. "Queued" \in Busy /\ After("ENQUEUE") = "Queued"
    BY DEF Busy, After
  <2>4. mixed \/ \A r \in Resources, k \in JobIds :
          Lock(j)[r] = k <=> (IF k = j THEN "Queued" ELSE job[k].state) \in Busy /\ r \in Needs[k]
    BY <1>1, <1>3, <2>3, LockFits
  <2>5. Lock(j) = [r \in Resources |-> Lock(j)[r]]
    BY LockTypes
  <2> HIDE DEF events
  <2>6. Begins(j, events, Lock(j))
    BY <2>1, <2>2, <2>3, <2>4, <2>5 DEF Begins
  <2>7. admitting' \in BOOLEAN
    BY <1>3 DEF IInv, Typed
  <2> QED
    BY <1>1, <1>3, <2>1, <2>6, <2>7, BeginKeeps
<1> QED
  BY <1>2, <1>3 DEF Admit, InState

LEMMA DeleteAllKeeps ==
  ASSUME IInv, DeleteAllJobs
  PROVE  IInv'
<1>1. /\ todo = <<>> /\ todo' = <<>> /\ lock' = [r \in Resources |-> NoJob]
      /\ admitting' = admitting /\ saved' = saved /\ crashes' = crashes /\ mixed' = mixed
  BY DEF DeleteAllJobs, Idle
<1>2. \A j \in JobIds : job[j] \in JobStates
  BY DEF IInv, Typed
<1>3. /\ job' \in [JobIds -> JobStates]
      /\ \A j \in JobIds : /\ job'[j].fails = job[j].fails
                           /\ job'[j].state = IF job[j].state = "NoState" THEN "NoState" ELSE "Deleted"
  BY <1>2 DEF DeleteAllJobs, JobStates, States
<1>4. Typed'
  BY <1>1, <1>3 DEF IInv, Typed
<1>5. TodoIsLegal' /\ CreatedIsToSchedule'
  BY <1>1, <1>3 DEF TodoIsLegal, Scheduling, CreatedIsToSchedule
<1>6. SavedEndIsFinal'
  BY <1>1, <1>3 DEF IInv, SavedEndIsFinal
<1>7. FailuresAreCounted'
  <2>1. \A j \in JobIds :
          /\ job[j].fails <= MaxRetry + crashes /\ saved[j].fails <= MaxRetry + crashes
          /\ job[j].state \notin Ends => job[j].fails < MaxRetry + crashes
    BY <1>1, NothingToDo DEF IInv, FailuresAreCounted
  <2>2. \A j \in JobIds : job'[j].state \notin Ends => job[j].state \notin Ends
    BY <1>3 DEF Ends
  <2>3. Len(todo') # 2
    BY <1>1
  <2> QED
    BY <1>1, <1>3, <2>1, <2>2, <2>3 DEF FailuresAreCounted
<1>8. Exclusive(job)' /\ LocksFollow'
  <2>1. \A j \in JobIds : job'[j].state \notin Busy /\ FinalState(j)' = job'[j].state
    BY <1>1, <1>3 DEF Busy, FinalState
  <2>2. \A j \in JobIds : j # NoJob
    BY RecoveryAssumption DEF JobIds, NoJob
  <2> QED
    BY <1>1, <2>1, <2>2 DEF Exclusive, LocksFollow
<1> QED
  BY <1>1, <1>4, <1>5, <1>6, <1>7, <1>8 DEF IInv, Exclusive

LEMMA SaveKeeps ==
  ASSUME IInv, Save
  PROVE  IInv'
<1>1. saved' = job /\ UNCHANGED <<job, lock, todo, admitting, crashes, mixed>>
  BY DEF Save
<1>2. Typed' /\ TodoIsLegal'
  BY <1>1 DEF IInv, Typed, TodoIsLegal, Scheduling, OneJob
<1>3. FailuresAreCounted' /\ CreatedIsToSchedule'
  BY <1>1 DEF IInv, FailuresAreCounted, CreatedIsToSchedule, Terminating
<1>4. \A j \in JobIds : FinalState(j)' = FinalState(j)
  BY <1>1 DEF FinalState
<1>5. LocksFollow' <=> LocksFollow
  BY <1>1, <1>4 DEF LocksFollow
<1>6. SavedEndIsFinal'
  BY <1>1, <1>4 DEF IInv, SavedEndIsFinal
<1>7. mixed' \/ (Exclusive(job)' /\ Exclusive(saved)' /\ LocksFollow')
  BY <1>1, <1>5 DEF IInv, Exclusive
<1> QED
  BY <1>2, <1>3, <1>6, <1>7 DEF IInv

-----------------------------------------------------------------------------
(* A crash, and the recovery.                                              *)

\* If no two active jobs need the same resource, each resource is locked by the one that
\* needs it.
LEMMA LoadedLockIsRight ==
  ASSUME NEW jobs, Exclusive(jobs), NEW r \in Resources
  PROVE  /\ LoadedLock(jobs, r) \in JobIds \cup {NoJob}
         /\ \A j \in JobIds : LoadedLock(jobs, r) = j <=> jobs[j].state \in Busy /\ r \in Needs[j]
<1> DEFINE claimants == {i \in JobIds : r \in Needs[i] /\ jobs[i].state \in {"Queued", "Running"}}
<1>1. \A i \in JobIds : i \in claimants <=> jobs[i].state \in Busy /\ r \in Needs[i]
  BY DEF Busy
<1>2. (\A i, k \in claimants : i = k) /\ claimants \in SUBSET JobIds
  BY <1>1 DEF Exclusive
<1>3. \A i \in claimants : i \in Nat
  BY RecoveryAssumption DEF JobIds
<1>4. LoadedLock(jobs, r) =
        IF claimants = {} THEN NoJob ELSE CHOOSE i \in claimants : \A k \in claimants : k <= i
  BY DEF LoadedLock
<1>5. \A j \in JobIds : j # NoJob
  BY RecoveryAssumption DEF JobIds, NoJob
<1> HIDE DEF claimants
<1>6. CASE claimants = {}
  BY <1>1, <1>4, <1>5, <1>6
<1>7. ASSUME NEW c \in claimants
      PROVE  LoadedLock(jobs, r) = c
  <2>1. \A k \in claimants : k <= c
    BY <1>2, <1>3
  <2>2. \E i \in claimants : \A k \in claimants : k <= i
    BY <2>1
  <2>3. (CHOOSE i \in claimants : \A k \in claimants : k <= i) \in claimants
    BY <2>2
  <2> QED
    BY <1>2, <1>4, <2>3
<1>8. CASE claimants # {}
  <2>1. PICK c \in claimants : TRUE
    BY <1>8
  <2>2. LoadedLock(jobs, r) = c
    BY <1>7
  <2> QED
    BY <1>1, <1>2, <2>1, <2>2
<1> QED
  BY <1>6, <1>8

LEMMA CrashKeeps ==
  ASSUME IInv, CrashAndLoadJobs
  PROVE  IInv'
<1> DEFINE copies(S) == [j \in JobIds |-> IF j \in S THEN job[j] ELSE saved[j]]
           loaded(S) == [j \in JobIds |->
                           IF copies(S)[j].state = "NoState" /\ job[j].state # "NoState"
                             THEN [NewJob EXCEPT !.state = "Deleted"] ELSE copies(S)[j]]
<1>1. PICK S \in SUBSET JobIds :
        /\ saved' = copies(S) /\ job' = loaded(S)
        /\ mixed' = (mixed \/ copies(S) \notin {saved, job})
        /\ lock' = [r \in Resources |-> LoadedLock(loaded(S), r)]
        /\ todo' = InOrder(Unscheduled(loaded(S)))
        /\ admitting' = (Unscheduled(loaded(S)) # {})
  BY DEF CrashAndLoadJobs
<1>2. crashes' = crashes + 1
  BY DEF CrashAndLoadJobs
<1>3. job \in [JobIds -> JobStates] /\ saved \in [JobIds -> JobStates]
  BY DEF IInv, Typed
<1>4. /\ saved' \in [JobIds -> JobStates]
      /\ \A j \in JobIds : saved'[j] \in {job[j], saved[j]}
  BY <1>1, <1>3
<1>5. \A j \in JobIds :
        \/ job'[j] = saved'[j]
        \/ job'[j].state = "Deleted" /\ job'[j].fails = 0 /\ saved'[j].state = "NoState"
  BY <1>1 DEF NewJob
<1>6. [NewJob EXCEPT !.state = "Deleted"] \in JobStates
  BY DEF NewJob, JobStates, States
<1>7. job' \in [JobIds -> JobStates]
  BY <1>1, <1>4, <1>6
<1>8. Unscheduled(job') \in SUBSET JobIds /\ todo' = InOrder(Unscheduled(job'))
  BY <1>1 DEF Unscheduled
<1>9. /\ todo' \in Seq(JobIds \X Events)
      /\ \A i \in DOMAIN todo' : todo'[i][1] \in Unscheduled(job') /\ todo'[i][2] = "PENDING"
      /\ \A i, k \in DOMAIN todo' : todo'[i][1] = todo'[k][1] => i = k
      /\ \A j \in Unscheduled(job') : \E i \in DOMAIN todo' : todo'[i] = <<j, "PENDING">>
  BY <1>8, InOrderIsComplete
<1>10. \A j \in JobIds : j \in Unscheduled(job') <=> job'[j].state = "Created"
  BY DEF Unscheduled
<1>11. Typed'
  <2>1. admitting' \in BOOLEAN /\ mixed' \in BOOLEAN
    BY <1>1, Zenon
  <2>2. lock' = [r \in Resources |-> lock'[r]]
    BY <1>1
  <2> QED
    BY <1>2, <1>4, <1>7, <1>9, <2>1, <2>2 DEF IInv, Typed
<1>12. TodoIsLegal' /\ CreatedIsToSchedule'
  BY <1>9, <1>10 DEF TodoIsLegal, Scheduling, CreatedIsToSchedule
<1>13. SavedEndIsFinal'
  BY <1>5 DEF SavedEndIsFinal
<1>14. FailuresAreCounted'
  <2>1. \A j \in JobIds :
          /\ job[j].fails \in Nat /\ job[j].fails <= MaxRetry + crashes
          /\ saved[j].fails \in Nat /\ saved[j].fails <= MaxRetry + crashes
    BY <1>3 DEF IInv, FailuresAreCounted, JobStates
  <2>2. MaxRetry \in Nat \ {0} /\ crashes \in Nat
    BY RecoveryAssumption DEF IInv, Typed
  <2>3. \A j \in JobIds : saved'[j].fails \in Nat /\ saved'[j].fails <= MaxRetry + crashes
    BY <1>4, <2>1
  <2>4. \A j \in JobIds : job'[j].fails \in Nat /\ job'[j].fails <= MaxRetry + crashes
    BY <1>5, <2>2, <2>3
  <2>5. \A n \in Nat : n <= MaxRetry + crashes
          => n <= MaxRetry + (crashes + 1) /\ n < MaxRetry + (crashes + 1)
    BY <2>2
  <2>6. \A j \in JobIds :
          /\ job'[j].fails <= MaxRetry + crashes' /\ saved'[j].fails <= MaxRetry + crashes'
          /\ job'[j].fails < MaxRetry + crashes'
    BY <1>2, <2>3, <2>4, <2>5
  <2>7. Len(todo') = 2 => todo'[1][2] # "FAIL"
    <3>1. Len(todo') = 2 => 1 \in DOMAIN todo'
      BY <1>9, LenProperties
    <3> QED
      BY <1>9, <3>1
  <2> QED
    BY <2>6, <2>7 DEF FailuresAreCounted
<1>15. ASSUME ~mixed'
       PROVE  Exclusive(job)' /\ Exclusive(saved)' /\ LocksFollow'
  <2>1. saved' \in {saved, job} /\ Exclusive(saved) /\ Exclusive(job)
    BY <1>1, <1>15 DEF IInv
  <2>2. Exclusive(saved)'
    BY <2>1 DEF Exclusive
  <2>3. \A j \in JobIds : job'[j].state \in Busy => saved'[j].state \in Busy
    BY <1>5 DEF Busy
  <2>4. Exclusive(job)'
    BY <2>2, <2>3 DEF Exclusive
  <2>5. Exclusive(job')
    BY <2>4 DEF Exclusive
  <2>6. \A r \in Resources, j \in JobIds :
          lock'[r] = j <=> job'[j].state \in Busy /\ r \in Needs[j]
    <3> TAKE r \in Resources, j \in JobIds
    <3>1. lock'[r] = LoadedLock(job', r)
      BY <1>1
    <3> QED
      BY <2>5, <3>1, LoadedLockIsRight
  <2>7. \A j \in JobIds : FinalState(j)' \in Busy <=> job'[j].state \in Busy
    <3> TAKE j \in JobIds
    <3>1. CASE j \in Unscheduled(job')
      <4>1. PICK i \in DOMAIN todo' : todo'[i] = <<j, "PENDING">>
        BY <1>9, <3>1
      <4>2. Len(todo') \in DOMAIN todo'
        BY <1>9, <4>1, LenProperties
      <4>3. FinalState(j)' = After("PENDING")
        BY <1>9, <4>1, <4>2 DEF FinalState
      <4>4. job'[j].state = "Created"
        BY <1>10, <3>1
      <4> QED
        BY <4>3, <4>4 DEF After, Busy
    <3>2. CASE j \notin Unscheduled(job')
      <4>1. FinalState(j)' = job'[j].state
        BY <1>9, <3>2 DEF FinalState
      <4> QED
        BY <4>1
    <3> QED
      BY <3>1, <3>2
  <2> QED
    BY <2>2, <2>4, <2>6, <2>7 DEF LocksFollow
<1> QED
  BY <1>11, <1>12, <1>13, <1>14, <1>15 DEF IInv

-----------------------------------------------------------------------------
LEMMA InitIInv == Init => IInv
<1> SUFFICES ASSUME Init PROVE IInv
  OBVIOUS
<1>1. /\ job = [j \in JobIds |-> NewJob] /\ saved = job /\ lock = [r \in Resources |-> NoJob]
      /\ todo = <<>> /\ admitting = FALSE /\ crashes = 0 /\ mixed = FALSE
  BY DEF Init
<1>2. NewJob \in JobStates /\ NewJob.state = "NoState" /\ NewJob.fails = 0
  BY DEF NewJob, JobStates, States
<1>3. Typed
  <2>1. admitting \in BOOLEAN /\ mixed \in BOOLEAN
    BY <1>1, Zenon
  <2>2. <<>> \in Seq(JobIds \X Events)
    BY EmptySeq
  <2>3. lock = [r \in Resources |-> lock[r]]
    BY <1>1
  <2> QED
    BY <1>1, <1>2, <2>1, <2>2, <2>3 DEF Typed
<1>4. \A j \in JobIds : job[j] = NewJob /\ saved[j] = NewJob /\ FinalState(j) = "NoState"
  BY <1>1, <1>2 DEF FinalState
<1>5. TodoIsLegal /\ SavedEndIsFinal /\ CreatedIsToSchedule
  BY <1>1, <1>2, <1>4 DEF TodoIsLegal, Scheduling, SavedEndIsFinal, CreatedIsToSchedule
<1>6. FailuresAreCounted
  BY <1>1, <1>2, <1>4, RecoveryAssumption DEF FailuresAreCounted
<1>7. Exclusive(job) /\ Exclusive(saved) /\ LocksFollow
  <2>1. \A j \in JobIds : j # NoJob
    BY RecoveryAssumption DEF JobIds, NoJob
  <2> QED
    BY <1>1, <1>2, <1>4, <2>1 DEF Exclusive, LocksFollow, Busy
<1> QED
  BY <1>3, <1>5, <1>6, <1>7 DEF IInv

LEMMA NextKeeps ==
  ASSUME IInv, [Next]_vars
  PROVE  IInv'
<1>1. CASE UNCHANGED vars
  <2>1. /\ job' = job /\ saved' = saved /\ lock' = lock /\ todo' = todo
        /\ admitting' = admitting /\ crashes' = crashes /\ mixed' = mixed
    BY <1>1 DEF vars
  <2>2. Typed' /\ TodoIsLegal'
    BY <2>1 DEF IInv, Typed, TodoIsLegal, Scheduling, OneJob
  <2>3. FailuresAreCounted' /\ CreatedIsToSchedule'
    BY <2>1 DEF IInv, FailuresAreCounted, CreatedIsToSchedule, Terminating
  <2>4. \A j \in JobIds : FinalState(j)' = FinalState(j)
    BY <2>1 DEF FinalState
  <2>5. LocksFollow' <=> LocksFollow
    BY <2>1, <2>4 DEF LocksFollow
  <2>6. SavedEndIsFinal'
    BY <2>1, <2>4 DEF IInv, SavedEndIsFinal
  <2>7. mixed' \/ (Exclusive(job)' /\ Exclusive(saved)' /\ LocksFollow')
    BY <2>1, <2>5 DEF IInv, Exclusive
  <2> QED
    BY <2>2, <2>3, <2>6, <2>7 DEF IInv
<1> QED
  BY <1>1, OperationKeeps, DeleteAllKeeps, NotifyKeeps, AdmitKeeps, SaveKeeps, CrashKeeps DEF Next

LEMMA Invariance == Spec => []IInv
<1>1. IInv /\ [Next]_vars => IInv'
  BY NextKeeps
<1> QED
  BY <1>1, InitIInv, PTL DEF Spec

\* Whatever number of crashes come, and between any two of the events that NotifyJobEvent
\* passes to the storage, the jobs and the locks that LoadJobs restores are those of a
\* service between two operations: active jobs exclude each other, the locked resources are
\* theirs, and the jobs saved before their first scheduling are scheduled.  (Except, for the
\* exclusion, after a load of copies of different events, which only Redis may have.)
THEOREM RecoveryRestores == Spec => []RecoveryIsConsistent
<1>1. ASSUME IInv
      PROVE  RecoveryIsConsistent
  <2>1. Idle => todo = <<>>
    BY DEF Idle
  <2>2. CreatedJobsAreScheduled
    BY <1>1, <2>1, NothingToDo DEF CreatedJobsAreScheduled, InState
  <2>3. \A j : j \in Active <=> j \in JobIds /\ job[j].state \in Busy
    BY DEF Active, InState, Busy
  <2>4. mixed \/ ExclusiveUse
    BY <1>1, <2>3 DEF IInv, Exclusive, ExclusiveUse
  <2>5. mixed \/ LocksAreRestored
    BY <1>1, <2>1, <2>3, NothingToDo DEF LocksAreRestored
  <2> QED
    BY <2>2, <2>4, <2>5 DEF RecoveryIsConsistent
<1> QED
  BY <1>1, Invariance, PTL

\* Each crash costs a job one failure at most, for any number of crashes and of retries: the
\* FAIL event whose consequence (failJobLocked) was lost is counted, and nothing else is.
THEOREM CrashesCostOneFailureEach == Spec => []CrashCostsOneFailure
<1>1. IInv => CrashCostsOneFailure
  BY DEF IInv, FailuresAreCounted, CrashCostsOneFailure
<1> QED
  BY <1>1, Invariance, PTL

\* A job that was saved as succeeded, failed or deleted is never run again, whatever the
\* service was doing when it crashed (LoadJobs puts it in no container).
THEOREM SavedEndsAreFinal == Spec => []SavedEndIsFinal
<1>1. IInv => SavedEndIsFinal
  BY DEF IInv
<1> QED
  BY <1>1, Invariance, PTL
=============================================================================
