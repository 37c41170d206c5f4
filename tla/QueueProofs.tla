---------------------------- MODULE QueueProofs -----------------------------
(***************************************************************************)
(* What is proved, for every value of the constants, of the jobs that      *)
(* wait: no long poll misses one, the index gives them in pull order, and  *)
(* the pages of their list have each of them.                              *)
(***************************************************************************)
EXTENDS LongPoll, QueueParts, Integers, Sequences, FiniteSetTheorems, FunctionTheorems, SequenceTheorems,
        WellFoundedInduction, TLAPS

-----------------------------------------------------------------------------
(* Long polls.                                                             *)

PollStates ==
  [pc : {"start", "search", "wait", "answered"}, topic : Topics \cup {AnyTopic},
   over : BOOLEAN, last : BOOLEAN, wake : Nat, got : SUBSET Jobs, notified : Nat]

Typed ==
  /\ queuedJobs \subseteq Jobs /\ queued \in Nat \ {0} /\ stopping \in BOOLEAN
  /\ poll \in [Polls -> PollStates]

\* A poll cannot know a channel that does not exist yet.
WakesAreOpenOrClosed(p) == poll[p].wake <= queued

WaitsForSomething(p) == poll[p].pc = "wait" /\ poll[p].wake = queued => Candidates(p) = {}

\* Only the answer has jobs, or counts as an empty poll.
OnlyAnswersCount(p) ==
  /\ Polling(p) => poll[p].got = {} /\ poll[p].notified = 0
  /\ poll[p].got # {} => poll[p].notified = 0
  /\ ~Polling(p) /\ poll[p].wake # 0 /\ poll[p].got = {} => poll[p].notified = 1

Fair(p) == WakesAreOpenOrClosed(p) /\ WaitsForSomething(p) /\ OnlyAnswersCount(p)

IInv == Typed /\ \A p \in Polls : Fair(p)

\* Every topic of a pull, and every new poll, is one the model knows.
LEMMA NewPollIsTyped ==
  ASSUME NEW t \in Topics \cup {AnyTopic}, NEW o \in BOOLEAN
  PROVE  /\ NewPoll(t, o) \in PollStates
         /\ NewPoll(t, o).pc = "start" /\ NewPoll(t, o).wake = 0
         /\ NewPoll(t, o).got = {} /\ NewPoll(t, o).notified = 0
BY DEF NewPoll, PollStates

LEMMA InitIInv == Init => IInv
<1> SUFFICES ASSUME Init PROVE IInv
  OBVIOUS
<1> DEFINE none == [NewPoll(AnyTopic, FALSE) EXCEPT !.pc = "answered"]
<1>1. /\ none \in PollStates /\ none.pc = "answered" /\ none.wake = 0
      /\ none.got = {} /\ none.notified = 0
  BY DEF NewPoll, PollStates
<1>2. /\ poll = [p \in Polls |-> none] /\ queuedJobs = {} /\ queued = 1 /\ stopping = FALSE
  BY DEF Init
<1> HIDE DEF none
<1>3. stopping \in BOOLEAN
  BY <1>2, Zenon
<1>4. Typed
  BY <1>1, <1>2, <1>3 DEF Typed
<1>5. ASSUME NEW p \in Polls PROVE Fair(p)
  <2>1. poll[p] = none
    BY <1>2
  <2> QED
    BY <1>1, <1>2, <2>1
       DEF Fair, WakesAreOpenOrClosed, WaitsForSomething, OnlyAnswersCount, Polling
<1> QED
  BY <1>4, <1>5 DEF IInv

\* A change of one poll leaves the others fair, if no job came and no channel was closed;
\* it remains to see that the new state of that poll is fair.
LEMMA OnePollMoves ==
  ASSUME IInv, NEW p \in Polls, NEW s \in PollStates,
         poll' = [poll EXCEPT ![p] = s],
         queuedJobs' \subseteq queuedJobs, queued' = queued, stopping' = stopping,
         s.wake <= queued,
         s.pc = "wait" /\ s.wake = queued => s.topic = poll[p].topic /\ Candidates(p) = {},
         s.pc # "answered" => s.got = {} /\ s.notified = 0,
         s.got # {} => s.notified = 0,
         s.pc = "answered" /\ s.wake # 0 /\ s.got = {} => s.notified = 1
  PROVE  IInv'
<1>1. poll \in [Polls -> PollStates] /\ poll'[p] = s
  BY DEF IInv, Typed
<1>2. Typed'
  BY DEF IInv, Typed
<1>3. Fair(p)'
  <2>1. WaitsForSomething(p)'
    BY <1>1 DEF WaitsForSomething, Candidates
  <2>2. WakesAreOpenOrClosed(p)' /\ OnlyAnswersCount(p)'
    BY <1>1 DEF WakesAreOpenOrClosed, OnlyAnswersCount, Polling
  <2> QED
    BY <2>1, <2>2 DEF Fair
<1>4. ASSUME NEW q \in Polls, q # p PROVE Fair(q)'
  <2>1. Fair(q) /\ poll'[q] = poll[q]
    BY <1>1, <1>4 DEF IInv
  <2> QED
    BY <2>1, <1>4
       DEF Fair, WakesAreOpenOrClosed, WaitsForSomething, OnlyAnswersCount, Candidates, Polling
<1> QED
  BY <1>2, <1>3, <1>4 DEF IInv

\* The queue alone changes: a new job closes the channel the polls wait on, and a job that
\* leaves wakes nobody.
LEMMA QueueKeeps ==
  ASSUME IInv, NEW j \in Jobs, Enqueue(j) \/ Leave(j)
  PROVE  IInv'
<1>1. poll' = poll /\ stopping' = stopping /\ queuedJobs' \subseteq Jobs
  BY DEF Enqueue, Leave, IInv, Typed
<1>2. /\ queued \in Nat \ {0} /\ queued' \in Nat \ {0} /\ queued <= queued'
      /\ queued' = queued => queuedJobs' \subseteq queuedJobs
  BY DEF Enqueue, Leave, IInv, Typed
<1>3. Typed'
  BY <1>1, <1>2 DEF IInv, Typed
<1>4. ASSUME NEW p \in Polls PROVE Fair(p)'
  <2>1. Fair(p) /\ poll[p].wake \in Nat
    BY DEF IInv, Typed, PollStates
  <2>2. WakesAreOpenOrClosed(p)' /\ OnlyAnswersCount(p)'
    BY <1>1, <1>2, <2>1 DEF Fair, WakesAreOpenOrClosed, OnlyAnswersCount, Polling
  <2>3. WaitsForSomething(p)'
    <3>1. CASE queued' = queued
      BY <1>1, <1>2, <2>1, <3>1 DEF Fair, WaitsForSomething, Candidates
    <3>2. CASE queued' # queued
      BY <1>1, <1>2, <2>1, <3>2 DEF Fair, WakesAreOpenOrClosed, WaitsForSomething
    <3> QED
      BY <3>1, <3>2
  <2> QED
    BY <2>2, <2>3 DEF Fair
<1> QED
  BY <1>3, <1>4 DEF IInv

\* A step of a poll that neither searches nor answers.
LEMMA WaitingKeeps ==
  ASSUME IInv, NEW p \in Polls, ReadClock(p) \/ WakeUp(p) \/ StopWaiting(p) \/ Expire(p)
  PROVE  IInv'
<1>1. /\ poll[p] \in PollStates /\ poll \in [Polls -> PollStates] /\ queued \in Nat
  BY DEF IInv, Typed
<1>2. /\ poll[p].pc # "answered" /\ poll[p].wake <= queued
      /\ poll[p].got = {} /\ poll[p].notified = 0
      /\ poll[p].pc = "wait" /\ poll[p].wake = queued => Candidates(p) = {}
  BY DEF IInv, Fair, WakesAreOpenOrClosed, WaitsForSomething, OnlyAnswersCount, Polling,
         ReadClock, WakeUp, StopWaiting, Expire
<1>3. queuedJobs' = queuedJobs /\ queued' = queued /\ stopping' = stopping
  BY DEF ReadClock, WakeUp, StopWaiting, Expire
<1>4. ASSUME NEW pc \in {"start", "search", "wait"}, NEW o \in BOOLEAN, NEW l \in BOOLEAN,
             pc = "wait" => poll[p].pc = "wait",
             poll' = [poll EXCEPT ![p] = [poll[p] EXCEPT !.pc = pc, !.over = o, !.last = l]]
      PROVE  IInv'
  <2> DEFINE s == [poll[p] EXCEPT !.pc = pc, !.over = o, !.last = l]
  <2>1. /\ s \in PollStates /\ s.pc = pc /\ s.wake = poll[p].wake /\ s.topic = poll[p].topic
        /\ s.got = {} /\ s.notified = 0
    BY <1>1, <1>2 DEF PollStates
  <2>2. poll' = [poll EXCEPT ![p] = s]
    BY <1>4
  <2> HIDE DEF s
  <2> QED
    BY <1>2, <1>3, <1>4, <2>1, <2>2, OnePollMoves
<1>5. poll[p].over \in BOOLEAN /\ poll[p].last \in BOOLEAN
  BY <1>1 DEF PollStates
<1>6. CASE ReadClock(p)
  <2>1. poll' = [poll EXCEPT ![p] = [poll[p] EXCEPT !.pc = "search", !.over = poll[p].over,
                                                     !.last = poll[p].over]]
    BY <1>1, <1>6 DEF ReadClock, PollStates
  <2> QED
    BY <1>4, <1>5, <2>1
<1>7. CASE WakeUp(p)
  <2>1. poll' = [poll EXCEPT ![p] = [poll[p] EXCEPT !.pc = "start", !.over = poll[p].over,
                                                     !.last = poll[p].last]]
    BY <1>1, <1>7 DEF WakeUp, PollStates
  <2> QED
    BY <1>4, <1>5, <2>1
<1>8. CASE StopWaiting(p)
  <2>1. poll' = [poll EXCEPT ![p] = [poll[p] EXCEPT !.pc = "search", !.over = poll[p].over,
                                                     !.last = TRUE]]
    BY <1>1, <1>8 DEF StopWaiting, PollStates
  <2> QED
    BY <1>4, <1>5, <2>1
<1>9. CASE Expire(p)
  <2>1. poll' = [poll EXCEPT ![p] = [poll[p] EXCEPT !.pc = poll[p].pc, !.over = TRUE,
                                                     !.last = poll[p].last]]
    BY <1>1, <1>9 DEF Expire, PollStates
  <2>2. poll[p].pc \in {"start", "search", "wait"}
    BY <1>1, <1>2 DEF PollStates
  <2> QED
    BY <1>4, <1>5, <2>1, <2>2
<1> QED
  BY <1>6, <1>7, <1>8, <1>9

LEMMA StartCandidatesKeeps ==
  ASSUME IInv, NEW p \in Polls, StartCandidates(p)
  PROVE  IInv'
<1>1. /\ poll[p] \in PollStates /\ poll[p].pc = "search" /\ queuedJobs \subseteq Jobs
      /\ Fair(p) /\ queued' = queued /\ stopping' = stopping
  BY DEF IInv, Typed, StartCandidates
<1>2. PICK C \in SUBSET Candidates(p) :
        /\ C # {} /\ queuedJobs' = queuedJobs \ C
        /\ poll' = [poll EXCEPT ![p].pc = "answered", ![p].got = C]
  BY DEF StartCandidates
<1> DEFINE s == [poll[p] EXCEPT !.pc = "answered", !.got = C]
<1>3. C \subseteq Jobs
  BY <1>1 DEF Candidates
<1>4. /\ s \in PollStates /\ s.pc = "answered" /\ s.got # {}
      /\ s.wake = poll[p].wake /\ s.notified = poll[p].notified
  BY <1>1, <1>2, <1>3 DEF PollStates
<1>5. poll' = [poll EXCEPT ![p] = s]
  BY <1>1, <1>2 DEF IInv, Typed, PollStates
<1>6. poll[p].wake <= queued /\ poll[p].notified = 0
  BY <1>1 DEF Fair, WakesAreOpenOrClosed, OnlyAnswersCount, Polling
<1> HIDE DEF s
<1> QED
  BY <1>1, <1>2, <1>4, <1>5, <1>6, OnePollMoves

LEMMA FindNothingKeeps ==
  ASSUME IInv, NEW p \in Polls, FindNothing(p)
  PROVE  IInv'
<1>1. /\ poll[p] \in PollStates /\ poll[p].pc = "search" /\ queued \in Nat
      /\ Fair(p) /\ queuedJobs' = queuedJobs /\ queued' = queued /\ stopping' = stopping
      /\ Candidates(p) = {}
  BY DEF IInv, Typed, FindNothing
<1>2. poll[p].got = {} /\ poll[p].notified = 0
  BY <1>1 DEF Fair, OnlyAnswersCount, Polling
<1>3. ASSUME NEW pc \in {"answered", "wait"}, NEW n \in Nat,
             pc = "wait" => n = 0, pc = "answered" => n = 1,
             poll' = [poll EXCEPT ![p] = [poll[p] EXCEPT !.pc = pc, !.wake = queued,
                                                         !.notified = n]]
      PROVE  IInv'
  <2> DEFINE s == [poll[p] EXCEPT !.pc = pc, !.wake = queued, !.notified = n]
  <2>1. /\ s \in PollStates /\ s.pc = pc /\ s.wake = queued /\ s.topic = poll[p].topic
        /\ s.got = {} /\ s.notified = n
    BY <1>1, <1>2 DEF PollStates
  <2>2. poll' = [poll EXCEPT ![p] = s]
    BY <1>3
  <2> HIDE DEF s
  <2>3. /\ s.wake <= queued
        /\ s.pc = "wait" => s.topic = poll[p].topic /\ Candidates(p) = {}
        /\ s.pc # "answered" => s.got = {} /\ s.notified = 0
        /\ s.pc = "answered" => s.notified = 1
    BY <1>1, <1>3, <2>1
  <2>4. s \in PollStates /\ s.got = {} /\ queuedJobs' \subseteq queuedJobs
    BY <1>1, <2>1
  <2> QED
    BY <1>1, <2>2, <2>3, <2>4, OnePollMoves
<1>4. CASE poll[p].last
  <2>1. poll' = [poll EXCEPT ![p] = [poll[p] EXCEPT !.pc = "answered", !.wake = queued,
                                                     !.notified = poll[p].notified + 1]]
    BY <1>1, <1>4 DEF FindNothing, IInv, Typed, PollStates
  <2>2. poll[p].notified + 1 = 1
    BY <1>2
  <2> QED
    BY <1>3, <2>1, <2>2
<1>5. CASE ~poll[p].last
  <2>1. poll' = [poll EXCEPT ![p] = [poll[p] EXCEPT !.pc = "wait", !.wake = queued,
                                                     !.notified = 0]]
    BY <1>1, <1>2, <1>5 DEF FindNothing, IInv, Typed, PollStates
  <2> QED
    BY <1>3, <2>1
<1> QED
  BY <1>4, <1>5

LEMMA PullKeeps ==
  ASSUME IInv, NEW p \in Polls, NEW t \in Topics \cup {AnyTopic}, NEW o \in BOOLEAN,
         PullJobs(p, t, o)
  PROVE  IInv'
<1>1. /\ poll' = [poll EXCEPT ![p] = NewPoll(t, o)] /\ queued \in Nat
      /\ queuedJobs' = queuedJobs /\ queued' = queued /\ stopping' = stopping
  BY DEF PullJobs, IInv, Typed
<1> DEFINE s == NewPoll(t, o)
<1>2. /\ s \in PollStates /\ s.pc = "start" /\ s.wake = 0 /\ s.got = {} /\ s.notified = 0
  BY NewPollIsTyped
<1>3. poll' = [poll EXCEPT ![p] = s] /\ queuedJobs' \subseteq queuedJobs /\ s.wake <= queued
  BY <1>1, <1>2
<1> HIDE DEF s
<1> QED
  BY <1>1, <1>2, <1>3, OnePollMoves

LEMMA NextKeeps ==
  ASSUME IInv, [Next]_vars
  PROVE  IInv'
<1>1. CASE UNCHANGED vars \/ BeginShutdown
  <2>1. poll' = poll /\ queuedJobs' = queuedJobs /\ queued' = queued
    BY <1>1 DEF vars, BeginShutdown
  <2>2. stopping' \in BOOLEAN
    BY <1>1 DEF vars, BeginShutdown, IInv, Typed
  <2> QED
    BY <2>1, <2>2 DEF IInv, Typed, Fair, WakesAreOpenOrClosed, WaitsForSomething,
                      OnlyAnswersCount, Candidates, Polling
<1> QED
  BY <1>1, QueueKeeps, WaitingKeeps, StartCandidatesKeeps, FindNothingKeeps, PullKeeps
     DEF Next, PollStep

\* No wakeup of PullJobs is lost between its search and its select, and a poll counts as an
\* empty one (EmptyPollReceived) exactly once if it got no job, and never if it got one:
\* for any number of polls, jobs, topics, and of times that notifyQueuedLocked is called.
THEOREM NoWakeupIsLost == Spec => []PollsAreRight
<1>1. IInv => PollsAreRight
  BY DEF IInv, Fair, WaitsForSomething, OnlyAnswersCount, Polling,
         PollsAreRight, NoLostWakeup, EmptyPollCountsOnce
<1>2. IInv /\ [Next]_vars => IInv'
  BY NextKeeps
<1> QED
  BY <1>1, <1>2, InitIInv, PTL DEF Spec

-----------------------------------------------------------------------------
(* Loops: the functions of their turns, over the natural numbers.          *)

LEMMA LeastNumber ==
  ASSUME NEW S \in SUBSET Nat, S # {}
  PROVE  \E n \in S : \A m \in S : n <= m
<1> DEFINE R == OpToRel(<, Nat)
<1>1. IsWellFoundedOn(R, Nat)
  BY NatLessThanWellFounded
<1> HIDE DEF R
<1>2. PICK n \in S : \A m \in S : ~(<<m, n>> \in R)
  BY <1>1, WFMin
<1>3. \A m \in S : ~(m < n)
  BY <1>2 DEF OpToRel, R
<1> QED
  BY <1>3

\* Induction over the numbers, of a set.
LEMMA Induction ==
  ASSUME NEW S, 0 \in S, \A n \in Nat : n \in S => n + 1 \in S
  PROVE  Nat \subseteq S
<1> SUFFICES ASSUME Nat \ S # {} PROVE FALSE
  OBVIOUS
<1>1. PICK n \in Nat \ S : \A m \in Nat \ S : n <= m
  BY LeastNumber
<1>2. n # 0 /\ n - 1 \in Nat /\ n - 1 \in S
  BY <1>1
<1>3. (n - 1) + 1 = n
  OBVIOUS
<1> QED
  BY <1>1, <1>2, <1>3

\* f has the states of a loop that begins with x.
RunOf(f, x, turn, S) ==
  f \in [Nat -> S] /\ f = [k \in Nat |-> IF k = 0 THEN x ELSE turn[f[k - 1]]]

\* Such a function exists: its first n values do, for any n.
LEMMA TurnsExist ==
  ASSUME NEW S, NEW x \in S, NEW g \in [S -> S]
  PROVE  \E f : RunOf(f, x, g, S)
<1> DEFINE First(n, f) == /\ f \in [0 .. n -> S] /\ f[0] = x
                          /\ \A k \in 1 .. n : f[k] = g[f[k - 1]]
           N == {n \in Nat : \E f : First(n, f)}
<1>1. Nat \subseteq N
  <2>1. 0 \in N
    <3>1. First(0, [k \in 0 .. 0 |-> x])
      OBVIOUS
    <3> QED
      BY <3>1
  <2>2. ASSUME NEW n \in Nat, n \in N PROVE n + 1 \in N
    <3>1. PICK f : First(n, f)
      BY <2>2
    <3> DEFINE h == [k \in 0 .. n + 1 |-> IF k = n + 1 THEN g[f[n]] ELSE f[k]]
    <3>2. First(n + 1, h)
      <4>1. f[n] \in S
        BY <3>1
      <4>2. \A k \in 0 .. n + 1 : h[k] \in S
        BY <3>1, <4>1
      <4>3. h \in [0 .. n + 1 -> S] /\ h[0] = x
        BY <3>1, <4>2
      <4>4. ASSUME NEW k \in 1 .. n + 1 PROVE h[k] = g[h[k - 1]]
        <5>1. CASE k = n + 1
          BY <5>1
        <5>2. CASE k # n + 1
          BY <3>1, <5>2
        <5> QED
          BY <5>1, <5>2
      <4> QED
        BY <4>3, <4>4
    <3>3. \E e : First(n + 1, e)
      <4> HIDE DEF First, h
      <4> QED
        BY <3>2
    <3> QED
      BY <3>3
  <2> HIDE DEF N
  <2> QED
    BY <2>1, <2>2, Induction
<1>2. ASSUME NEW n \in Nat, NEW m \in Nat, n <= m, NEW f, NEW h, First(n, f), First(m, h)
      PROVE  \A k \in 0 .. n : f[k] = h[k]
  <2> DEFINE E == {k \in Nat : k <= n => f[k] = h[k]}
  <2>1. 0 \in E
    BY <1>2
  <2>2. ASSUME NEW k \in Nat, k \in E PROVE k + 1 \in E
    <3> SUFFICES ASSUME k + 1 <= n PROVE f[k + 1] = h[k + 1]
      OBVIOUS
    <3>1. f[k] = h[k] /\ k + 1 \in 1 .. n /\ k + 1 \in 1 .. m /\ (k + 1) - 1 = k
      BY <1>2, <2>2
    <3>2. f[k + 1] = g[f[(k + 1) - 1]] /\ h[k + 1] = g[h[(k + 1) - 1]]
      BY <1>2, <3>1
    <3> QED
      BY <3>1, <3>2
  <2> HIDE DEF E
  <2>3. Nat \subseteq E
    BY <2>1, <2>2, Induction
  <2> QED
    BY <2>3 DEF E
<1> DEFINE part == [n \in Nat |-> CHOOSE f : First(n, f)]
           run == [n \in Nat |-> part[n][n]]
<1>3. \A n \in Nat : First(n, part[n])
  <2> SUFFICES ASSUME NEW n \in Nat PROVE First(n, part[n])
    OBVIOUS
  <2>1. \E f : First(n, f)
    BY <1>1
  <2> HIDE DEF First
  <2> QED
    BY <2>1
<1> HIDE DEF part
<1>4. ASSUME NEW n \in Nat PROVE run[n] = IF n = 0 THEN x ELSE g[run[n - 1]]
  <2>1. CASE n = 0
    BY <1>3, <2>1
  <2>2. CASE n # 0
    <3>1. n - 1 \in Nat /\ n - 1 <= n /\ n - 1 \in 0 .. n - 1 /\ n \in 1 .. n
      BY <2>2
    <3>2. First(n, part[n]) /\ First(n - 1, part[n - 1])
      BY <1>3, <3>1
    <3>3. part[n - 1][n - 1] = part[n][n - 1]
      <4> HIDE DEF First
      <4> QED
        BY <1>2, <3>1, <3>2
    <3>4. part[n][n] = g[part[n][n - 1]]
      BY <3>1, <3>2
    <3> QED
      BY <2>2, <3>1, <3>3, <3>4
  <2> QED
    BY <2>1, <2>2
<1> HIDE DEF run
<1>5. run = [k \in Nat |-> IF k = 0 THEN x ELSE g[run[k - 1]]]
  <2>1. run = [k \in Nat |-> run[k]]
    BY DEF run
  <2> QED
    BY <1>4, <2>1
<1>6. run \in [Nat -> S]
  <2>1. \A n \in Nat : part[n][n] \in S
    BY <1>3
  <2> QED
    BY <2>1 DEF run
<1> QED
  BY <1>5, <1>6 DEF RunOf

\* A turn of a loop over S, until nothing changes; m bounds what is left to do.
Shrinks(turn, m, S) ==
  turn \in [S -> S] /\ m \in [S -> Nat] /\ \A c \in S : turn[c] = c \/ m[turn[c]] < m[c]

TurnsOf(f, x, turn, S) == f[0] = x /\ \A k \in Nat : f[k] \in S => f[k + 1] = turn[f[k]]

\* What each turn keeps, and how many turns are enough.
LEMMA LoopEnds ==
  ASSUME NEW S, NEW x \in S, NEW g, NEW m, Shrinks(g, m, S),
         NEW f, TurnsOf(f, x, g, S), NEW n \in Nat, m[x] <= n
  PROVE  f[n] \in S /\ g[f[n]] = f[n]
<1> USE DEF Shrinks, TurnsOf
<1> DEFINE K == {k \in Nat : f[k] \in S /\ (g[f[k]] = f[k] \/ m[f[k]] + k <= n)}
<1>2. 0 \in K
  OBVIOUS
<1>3. ASSUME NEW k \in Nat, k \in K PROVE k + 1 \in K
  <2>1. f[k] \in S /\ f[k + 1] = g[f[k]] /\ f[k + 1] \in S
    BY <1>3
  <2>2. CASE g[f[k]] = f[k]
    BY <2>1, <2>2
  <2>3. CASE g[f[k]] # f[k]
    <3>1. m[f[k]] + k <= n
      BY <1>3, <2>3
    <3>2. m[f[k + 1]] < m[f[k]] /\ m[f[k + 1]] \in Nat /\ m[f[k]] \in Nat
      BY <2>1, <2>3
    <3>3. m[f[k + 1]] + (k + 1) <= n
      BY <3>1, <3>2
    <3> QED
      BY <2>1, <3>3
  <2> QED
    BY <2>2, <2>3
<1>4. n \in K
  <2> HIDE DEF K
  <2> QED
    BY <1>2, <1>3, Induction
<1>5. f[n] \in S /\ g[f[n]] \in S /\ m[f[n]] \in Nat /\ m[g[f[n]]] \in Nat
  BY <1>4
<1> QED
  BY <1>4, <1>5

-----------------------------------------------------------------------------
(* The index of the queued jobs: a heap, up to position N.                 *)

Heaps == [at : Seq(Ranks), pos : [Ranks -> Nat]]

\* Each entry knows its position.
Placed(h) == h \in Heaps /\ \A i \in DOMAIN h.at : h.pos[h.at[i]] = i

UpTo(h, N) == {h.at[k] : k \in 1 .. N}

\* h has the entries of g: up to N in any order, beyond N in their places.
Same(h, g, N) ==
  /\ Placed(h) /\ Len(h.at) = Len(g.at) /\ UpTo(h, N) = UpTo(g, N)
  /\ \A k \in N + 1 .. Len(g.at) : h.at[k] = g.at[k]

Ordered(h, N) == \A k \in 2 .. N : h.at[k \div 2] <= h.at[k]

\* In order, but that the entry at i may come before its parent.
OrderedAbove(h, N, i) ==
  /\ \A k \in 2 .. N : k # i => h.at[k \div 2] <= h.at[k]
  /\ \A k \in 2 .. N : k \div 2 = i /\ i > 1 => h.at[i \div 2] <= h.at[k]

\* In order, but that the entry at i may come after its children.
OrderedBelow(h, N, i) ==
  /\ \A k \in 2 .. N : k \div 2 # i => h.at[k \div 2] <= h.at[k]
  /\ \A k \in 2 .. N : k \div 2 = i /\ i > 1 => h.at[i \div 2] <= h.at[k]

LEMMA Parents ==
  /\ \A k \in Nat : k >= 2 => k \div 2 \in Nat /\ 1 <= k \div 2 /\ k \div 2 < k
  /\ \A k, i \in Nat : k \div 2 = i <=> k = 2 * i \/ k = 2 * i + 1
OBVIOUS

LEMMA Entries ==
  ASSUME NEW h, Placed(h)
  PROVE  /\ Len(h.at) \in Nat /\ DOMAIN h.at = 1 .. Len(h.at)
         /\ h.at \in [1 .. Len(h.at) -> Ranks] /\ h.pos \in [Ranks -> Nat]
         /\ \A k \in 1 .. Len(h.at) : h.at[k] \in Ranks /\ h.pos[h.at[k]] = k
         /\ \A k, m \in 1 .. Len(h.at) : h.at[k] = h.at[m] => k = m
<1>1. h.at \in Seq(Ranks) /\ h.pos \in [Ranks -> Nat]
  BY DEF Placed, Heaps
<1>2. Len(h.at) \in Nat /\ DOMAIN h.at = 1 .. Len(h.at) /\ h.at \in [1 .. Len(h.at) -> Ranks]
  BY <1>1
<1>3. \A k \in 1 .. Len(h.at) : h.at[k] \in Ranks /\ h.pos[h.at[k]] = k
  BY <1>2 DEF Placed
<1> QED
  BY <1>1, <1>2, <1>3

LEMMA SwapKeeps ==
  ASSUME NEW g, NEW h, NEW N \in Nat, Same(h, g, N), N <= Len(h.at),
         NEW a \in 1 .. N, NEW b \in 1 .. N
  PROVE  LET s == QI!Swap(h, a, b)
         IN  /\ Same(s, g, N) /\ s.at[a] = h.at[b] /\ s.at[b] = h.at[a]
             /\ \A k \in 1 .. Len(h.at) : k # a /\ k # b => s.at[k] = h.at[k]
<1> DEFINE L == Len(h.at)
<1>1. /\ L \in Nat /\ h.at \in [1 .. L -> Ranks] /\ h.pos \in [Ranks -> Nat]
      /\ \A k \in 1 .. L : h.at[k] \in Ranks /\ h.pos[h.at[k]] = k
      /\ \A k, m \in 1 .. L : h.at[k] = h.at[m] => k = m
  BY Entries DEF Same
<1> DEFINE s == QI!Swap(h, a, b)
           at == [h.at EXCEPT ![a] = h.at[b], ![b] = h.at[a]]
           pos == [h.pos EXCEPT ![h.at[a]] = b, ![h.at[b]] = a]
<1>2. s = [at |-> at, pos |-> pos] /\ s.at = at /\ s.pos = pos
  BY DEF QI!Swap
<1>3. a \in 1 .. L /\ b \in 1 .. L
  BY <1>1
<1>4. /\ at \in [1 .. L -> Ranks] /\ at[a] = h.at[b] /\ at[b] = h.at[a]
      /\ \A k \in 1 .. L : k # a /\ k # b => at[k] = h.at[k]
  BY <1>1, <1>3
<1>5. /\ pos \in [Ranks -> Nat] /\ pos[h.at[a]] = b /\ pos[h.at[b]] = a
      /\ \A j \in Ranks : j # h.at[a] /\ j # h.at[b] => pos[j] = h.pos[j]
  BY <1>1, <1>3
<1> HIDE DEF s, at, pos
<1>6. at \in Seq(Ranks) /\ Len(at) = L
  <2>1. PICK n, e : n = L /\ e = at /\ n \in Nat /\ e \in [1 .. n -> Ranks]
    BY <1>1, <1>4
  <2>2. DOMAIN e = 1 .. n /\ \A k \in 1 .. n : e[k] \in Ranks
    BY <2>1
  <2>3. e \in Seq(Ranks) /\ Len(e) = n
    BY <2>1, <2>2
  <2> QED
    BY <2>1, <2>3
<1>7. \A k \in 1 .. L : pos[at[k]] = k
  <2> SUFFICES ASSUME NEW k \in 1 .. L PROVE pos[at[k]] = k
    OBVIOUS
  <2>1. CASE k = a
    BY <1>4, <1>5, <2>1
  <2>2. CASE k = b
    BY <1>4, <1>5, <2>2
  <2>3. CASE k # a /\ k # b
    <3>1. at[k] = h.at[k] /\ h.at[k] \in Ranks /\ h.pos[h.at[k]] = k
      BY <1>1, <1>4, <2>3
    <3>2. h.at[k] # h.at[a] /\ h.at[k] # h.at[b]
      BY <1>1, <1>3, <2>3
    <3>3. PICK j \in Ranks : j = h.at[k]
      BY <3>1
    <3>4. pos[j] = h.pos[j]
      BY <1>5, <3>2, <3>3
    <3> QED
      BY <3>1, <3>3, <3>4
  <2> QED
    BY <2>1, <2>2, <2>3
<1>8. Placed(s)
  <2>1. s \in Heaps
    BY <1>2, <1>5, <1>6 DEF Heaps
  <2>2. DOMAIN s.at = 1 .. L
    BY <1>2, <1>4
  <2> QED
    BY <1>2, <1>7, <2>1, <2>2 DEF Placed
<1>9. UpTo(s, N) = UpTo(h, N)
  <2>1. \A k \in 1 .. N : \E m \in 1 .. N : at[k] = h.at[m]
    <3> SUFFICES ASSUME NEW k \in 1 .. N PROVE \E m \in 1 .. N : at[k] = h.at[m]
      OBVIOUS
    <3>1. k \in 1 .. L
      BY <1>1
    <3>2. CASE k = a
      BY <1>4, <3>2
    <3>3. CASE k = b
      BY <1>4, <3>3
    <3>4. CASE k # a /\ k # b
      BY <1>4, <3>1, <3>4
    <3> QED
      BY <3>2, <3>3, <3>4
  <2>2. \A k \in 1 .. N : \E m \in 1 .. N : h.at[k] = at[m]
    <3> SUFFICES ASSUME NEW k \in 1 .. N PROVE \E m \in 1 .. N : h.at[k] = at[m]
      OBVIOUS
    <3>1. k \in 1 .. L
      BY <1>1
    <3>2. CASE k = a
      BY <1>4, <3>2
    <3>3. CASE k = b
      BY <1>4, <3>3
    <3>4. CASE k # a /\ k # b
      BY <1>4, <3>1, <3>4
    <3> QED
      BY <3>2, <3>3, <3>4
  <2>3. PICK e, f, D : e = h.at /\ f = at /\ D = 1 .. N
    OBVIOUS
  <2>4. (\A k \in D : \E m \in D : f[k] = e[m]) /\ (\A k \in D : \E m \in D : e[k] = f[m])
    BY <2>1, <2>2, <2>3
  <2>5. {f[k] : k \in D} = {e[k] : k \in D}
    BY <2>4
  <2>6. UpTo(s, N) = {f[k] : k \in D}
    BY <1>2, <2>3 DEF UpTo
  <2>7. UpTo(h, N) = {e[k] : k \in D}
    BY <2>3 DEF UpTo
  <2> HIDE DEF s
  <2> QED
    BY <2>5, <2>6, <2>7
<1>10. \A k \in N + 1 .. L : s.at[k] = h.at[k]
  BY <1>1, <1>2, <1>4
<1>11. Len(g.at) = L /\ UpTo(h, N) = UpTo(g, N) /\ \A k \in N + 1 .. L : h.at[k] = g.at[k]
  BY DEF Same
<1> QED
  BY <1>2, <1>4, <1>6, <1>8, <1>9, <1>10, <1>11 DEF Same, s

LEMMA EntriesUpTo ==
  ASSUME Ranks \subseteq Nat, NEW h, Placed(h), NEW N \in Nat, N <= Len(h.at)
  PROVE  \A k \in 1 .. N : k \in 1 .. Len(h.at) /\ h.at[k] \in Nat
<1> SUFFICES ASSUME NEW k \in 1 .. N PROVE k \in 1 .. Len(h.at) /\ h.at[k] \in Nat
  OBVIOUS
<1>1. Len(h.at) \in Nat /\ \A i \in 1 .. Len(h.at) : h.at[i] \in Ranks
  BY Entries
<1>2. k \in 1 .. Len(h.at)
  BY <1>1
<1> QED
  BY <1>1, <1>2

\* An entry that goes up.
LEMMA UpGoesOn ==
  ASSUME Ranks \subseteq Nat, NEW g, NEW N \in Nat, N <= Len(g.at),
         NEW h, Same(h, g, N), NEW i \in 1 .. N, OrderedAbove(h, N, i), i > 1, h.at[i] < h.at[i \div 2]
  PROVE  LET s == QI!Swap(h, i, i \div 2)
         IN  i \div 2 \in 1 .. N /\ i \div 2 < i /\ Same(s, g, N) /\ OrderedAbove(s, N, i \div 2)
<1>1. PICK p \in Nat : p = i \div 2 /\ p \in 1 .. N /\ p < i
  BY Parents
<1> DEFINE s == QI!Swap(h, i, p)
<1>2. Len(h.at) = Len(g.at) /\ Placed(h)
  BY DEF Same
<1>3. /\ Same(s, g, N) /\ s.at[i] = h.at[p] /\ s.at[p] = h.at[i]
      /\ \A k \in 1 .. Len(h.at) : k # i /\ k # p => s.at[k] = h.at[k]
  BY <1>1, <1>2, SwapKeeps
<1> HIDE DEF s
<1>4. /\ \A k \in 1 .. N : h.at[k] \in Nat
      /\ \A k \in 1 .. N : k # i /\ k # p => s.at[k] = h.at[k]
  <2>1. Len(g.at) \in Nat
    BY <1>2, Entries
  <2>2. \A k \in 1 .. N : k \in 1 .. Len(h.at) /\ h.at[k] \in Nat
    BY <1>2, <2>1, EntriesUpTo
  <2> QED
    BY <1>2, <1>3, <2>2
<1>5. ASSUME NEW k \in 2 .. N, k # p PROVE s.at[k \div 2] <= s.at[k]
  <2>1. PICK q \in 1 .. N : q = k \div 2 /\ q < k
    BY Parents
  <2>2. k # i => h.at[q] <= h.at[k]
    BY <2>1 DEF OrderedAbove
  <2>3. CASE k = i
    BY <1>1, <1>3, <1>4, <2>1, <2>3
  <2>4. CASE k # i /\ q = i
    <3>1. h.at[p] <= h.at[k]
      BY <1>1, <2>1, <2>4 DEF OrderedAbove
    <3> QED
      BY <1>3, <1>4, <1>5, <2>1, <2>4, <3>1
  <2>5. CASE k # i /\ q = p
    <3>1. h.at[i] < h.at[p] /\ h.at[p] <= h.at[k] /\ s.at[k] = h.at[k] /\ s.at[q] = h.at[i]
      BY <1>1, <1>3, <1>4, <1>5, <2>2, <2>5
    <3>2. PICK u \in Nat, v \in Nat, w \in Nat : u = h.at[i] /\ v = h.at[p] /\ w = h.at[k]
      <4>1. k \in 1 .. N
        OBVIOUS
      <4>2. h.at[i] \in Nat /\ h.at[p] \in Nat /\ h.at[k] \in Nat
        BY <1>1, <1>4, <4>1
      <4> QED
        BY <4>2
    <3>3. u < v /\ v <= w
      BY <3>1, <3>2
    <3>4. u <= w
      BY <3>3
    <3> QED
      BY <2>1, <3>1, <3>2, <3>4
  <2>6. CASE k # i /\ q # i /\ q # p
    <3>1. s.at[q] = h.at[q] /\ s.at[k] = h.at[k]
      <4>1. k \in 1 .. N
        OBVIOUS
      <4>2. s.at[k] = h.at[k]
        BY <1>4, <1>5, <2>6, <4>1
      <4>3. s.at[q] = h.at[q]
        BY <1>4, <2>6
      <4> QED
        BY <4>2, <4>3
    <3>2. h.at[q] <= h.at[k]
      BY <2>2, <2>6
    <3> QED
      BY <2>1, <3>1, <3>2
  <2> QED
    BY <2>3, <2>4, <2>5, <2>6
<1>6. ASSUME NEW k \in 2 .. N, k \div 2 = p, p > 1 PROVE s.at[p \div 2] <= s.at[k]
  <2>1. PICK q \in 1 .. N : q = p \div 2 /\ q < p
    BY <1>1, <1>6, Parents
  <2>2. h.at[q] <= h.at[p]
    BY <1>1, <1>6, <2>1 DEF OrderedAbove
  <2>3. s.at[q] = h.at[q]
    BY <1>1, <1>4, <2>1
  <2>4. CASE k = i
    BY <1>3, <2>1, <2>2, <2>3, <2>4
  <2>5. CASE k # i
    <3>1. h.at[p] <= h.at[k] /\ k # p
      BY <1>1, <1>6, <2>5, Parents DEF OrderedAbove
    <3>2. h.at[q] \in Nat /\ h.at[p] \in Nat /\ h.at[k] \in Nat /\ s.at[k] = h.at[k]
      BY <1>1, <1>4, <2>1, <2>5, <3>1
    <3>3. PICK u \in Nat, v \in Nat, w \in Nat : u = h.at[q] /\ v = h.at[p] /\ w = h.at[k]
      BY <3>2
    <3>4. u <= v /\ v <= w
      BY <2>2, <3>1, <3>3
    <3>5. u <= w
      BY <3>4
    <3>6. s.at[q] = u /\ s.at[k] = w
      BY <2>3, <3>2, <3>3
    <3> QED
      BY <2>1, <3>5, <3>6
  <2> QED
    BY <2>4, <2>5
<1>7. OrderedAbove(s, N, p)
  BY <1>5, <1>6 DEF OrderedAbove
<1> QED
  BY <1>1, <1>3, <1>7 DEF s

LEMMA UpIsDone ==
  ASSUME NEW N \in Nat, NEW h, NEW i \in 1 .. N, OrderedAbove(h, N, i),
         i = 1 \/ h.at[i \div 2] <= h.at[i]
  PROVE  Ordered(h, N)
BY DEF OrderedAbove, Ordered

\* An entry that goes down, below its first child c.
LEMMA DownGoesOn ==
  ASSUME Ranks \subseteq Nat, NEW g, NEW N \in Nat, N <= Len(g.at),
         NEW h, Same(h, g, N), NEW i \in 1 .. N, OrderedBelow(h, N, i),
         NEW c \in 2 .. N, c \div 2 = i, h.at[c] < h.at[i],
         \A k \in 2 .. N : k \div 2 = i => h.at[c] <= h.at[k]
  PROVE  LET s == QI!Swap(h, i, c)
         IN  Same(s, g, N) /\ OrderedBelow(s, N, c)
<1> DEFINE s == QI!Swap(h, i, c)
<1>1. Len(h.at) = Len(g.at) /\ Placed(h) /\ i < c /\ c \in 1 .. N /\ i # c
  BY Parents DEF Same
<1>2. /\ Same(s, g, N) /\ s.at[i] = h.at[c] /\ s.at[c] = h.at[i]
      /\ \A k \in 1 .. Len(h.at) : k # i /\ k # c => s.at[k] = h.at[k]
  BY <1>1, SwapKeeps
<1> HIDE DEF s
<1>3. /\ \A k \in 1 .. N : h.at[k] \in Nat
      /\ \A k \in 1 .. N : k # i /\ k # c => s.at[k] = h.at[k]
  <2>1. Len(g.at) \in Nat
    BY <1>1, Entries
  <2>2. \A k \in 1 .. N : k \in 1 .. Len(h.at) /\ h.at[k] \in Nat
    BY <1>1, <2>1, EntriesUpTo
  <2> QED
    BY <1>1, <1>2, <2>2
<1>4. ASSUME NEW k \in 2 .. N, k \div 2 # c PROVE s.at[k \div 2] <= s.at[k]
  <2>1. PICK q \in 1 .. N : q = k \div 2 /\ q < k
    BY Parents
  <2>2. CASE k = c
    <3>1. q = i
      BY <1>1, <2>1, <2>2
    <3> QED
      BY <1>1, <1>2, <1>3, <2>1, <2>2, <3>1
  <2>3. CASE k # c /\ q = i
    <3>1. h.at[c] <= h.at[k] /\ k # i
      BY <2>1, <2>3
    <3>2. s.at[k] = h.at[k] /\ s.at[q] = h.at[c]
      BY <1>2, <1>3, <2>3, <3>1
    <3> QED
      BY <2>1, <3>1, <3>2
  <2>4. CASE k = i
    <3>1. h.at[q] <= h.at[c]
      BY <1>1, <2>1, <2>4 DEF OrderedBelow
    <3>2. q # i /\ q # c
      BY <1>1, <1>4, <2>1, <2>4
    <3>3. s.at[q] = h.at[q] /\ s.at[k] = h.at[c]
      BY <1>2, <1>3, <2>4, <3>2
    <3> QED
      BY <2>1, <3>1, <3>3
  <2>5. CASE k # c /\ k # i /\ q # i
    <3>1. h.at[q] <= h.at[k]
      BY <2>1, <2>5 DEF OrderedBelow
    <3>2. q # c /\ s.at[q] = h.at[q] /\ s.at[k] = h.at[k]
      BY <1>3, <1>4, <2>1, <2>5
    <3> QED
      BY <2>1, <3>1, <3>2
  <2> QED
    BY <2>2, <2>3, <2>4, <2>5
<1>5. ASSUME NEW k \in 2 .. N, k \div 2 = c PROVE s.at[c \div 2] <= s.at[k]
  <2>1. h.at[c] <= h.at[k] /\ k # c /\ k # i
    BY <1>1, <1>5, Parents DEF OrderedBelow
  <2>2. s.at[k] = h.at[k]
    BY <1>3, <2>1
  <2>3. c \div 2 = i /\ s.at[i] = h.at[c]
    BY <1>1, <1>2
  <2> QED
    BY <2>1, <2>2, <2>3
<1>6. OrderedBelow(s, N, c)
  BY <1>4, <1>5 DEF OrderedBelow
<1> QED
  BY <1>2, <1>6 DEF s

LEMMA DownIsDone ==
  ASSUME NEW N \in Nat, NEW h, NEW i \in 1 .. N, OrderedBelow(h, N, i),
         \A k \in 2 .. N : k \div 2 = i => h.at[i] <= h.at[k]
  PROVE  Ordered(h, N)
BY DEF OrderedBelow, Ordered

LEMMA UpLoop ==
  ASSUME NEW h, NEW i \in Nat, NEW S, NEW m \in [S -> Nat], NEW x \in S,
         x = [h |-> h, i |-> i], m[x] <= i,
         \A c \in S : QI!UpTurn(c) \in S /\ (QI!UpTurn(c) = c \/ m[QI!UpTurn(c)] < m[c])
  PROVE  \E c \in S : QI!Up(h, i) = c.h /\ QI!UpTurn(c) = c
<1> DEFINE turn == [c \in S |-> QI!UpTurn(c)]
           turns == CHOOSE f : f = [k \in Nat |-> IF k = 0 THEN x ELSE QI!UpTurn(f[k - 1])]
<1>1. turn \in [S -> S] /\ \A c \in S : turn[c] = QI!UpTurn(c)
  OBVIOUS
<1>2. PICK g \in [S -> S] : g = turn
  BY <1>1
<1> HIDE DEF turn
<1>3. \A c \in S : g[c] = QI!UpTurn(c)
  BY <1>1, <1>2
<1>4. PICK f : RunOf(f, x, g, S)
  BY TurnsExist
<1>5. \A k \in Nat : k # 0 => k - 1 \in Nat /\ f[k - 1] \in S
  <2>1. f \in [Nat -> S]
    BY <1>4 DEF RunOf
  <2> QED
    BY <2>1
<1>6. f = [k \in Nat |-> IF k = 0 THEN x ELSE QI!UpTurn(f[k - 1])]
  <2>1. \A k \in Nat : k # 0 => g[f[k - 1]] = QI!UpTurn(f[k - 1])
    BY <1>3, <1>5
  <2> QED
    BY <1>4, <2>1 DEF RunOf
<1>7. turns = [k \in Nat |-> IF k = 0 THEN x ELSE QI!UpTurn(turns[k - 1])]
  BY <1>6
<1>8. QI!Up(h, i) = turns[i].h
  BY DEF QI!Up
<1> HIDE DEF turns
<1>9. turns[0] = x /\ \A k \in Nat : turns[k + 1] = QI!UpTurn(turns[k])
  <2>1. \A k \in Nat : turns[k] = IF k = 0 THEN x ELSE QI!UpTurn(turns[k - 1])
    BY <1>7
  <2>2. \A k \in Nat : k + 1 \in Nat /\ k + 1 # 0 /\ (k + 1) - 1 = k
    OBVIOUS
  <2> QED
    BY <2>1, <2>2
<1>10. PICK e : e = turns
  OBVIOUS
<1>11. TurnsOf(e, x, g, S)
  BY <1>3, <1>9, <1>10 DEF TurnsOf
<1>12. Shrinks(g, m, S)
  BY <1>3 DEF Shrinks
<1>13. e[i] \in S /\ g[e[i]] = e[i]
  BY <1>11, <1>12, LoopEnds
<1> QED
  BY <1>3, <1>8, <1>10, <1>13

LEMMA DownLoop ==
  ASSUME NEW h, NEW i, NEW n \in Nat, NEW S, NEW m \in [S -> Nat], NEW x \in S,
         x = [h |-> h, i |-> i], m[x] <= n,
         \A c \in S : QI!DownTurn(c, n) \in S /\ (QI!DownTurn(c, n) = c \/ m[QI!DownTurn(c, n)] < m[c])
  PROVE  \E c \in S : QI!Down(h, i, n) = c.h /\ QI!DownTurn(c, n) = c
<1> DEFINE turn == [c \in S |-> QI!DownTurn(c, n)]
           turns == CHOOSE f : f = [k \in Nat |-> IF k = 0 THEN x ELSE QI!DownTurn(f[k - 1], n)]
<1>1. turn \in [S -> S] /\ \A c \in S : turn[c] = QI!DownTurn(c, n)
  OBVIOUS
<1>2. PICK g \in [S -> S] : g = turn
  BY <1>1
<1> HIDE DEF turn
<1>3. \A c \in S : g[c] = QI!DownTurn(c, n)
  BY <1>1, <1>2
<1>4. PICK f : RunOf(f, x, g, S)
  BY TurnsExist
<1>5. \A k \in Nat : k # 0 => k - 1 \in Nat /\ f[k - 1] \in S
  <2>1. f \in [Nat -> S]
    BY <1>4 DEF RunOf
  <2> QED
    BY <2>1
<1>6. f = [k \in Nat |-> IF k = 0 THEN x ELSE QI!DownTurn(f[k - 1], n)]
  <2>1. \A k \in Nat : k # 0 => g[f[k - 1]] = QI!DownTurn(f[k - 1], n)
    BY <1>3, <1>5
  <2> QED
    BY <1>4, <2>1 DEF RunOf
<1>7. turns = [k \in Nat |-> IF k = 0 THEN x ELSE QI!DownTurn(turns[k - 1], n)]
  BY <1>6
<1>8. QI!Down(h, i, n) = turns[n].h
  BY DEF QI!Down
<1> HIDE DEF turns
<1>9. turns[0] = x /\ \A k \in Nat : turns[k + 1] = QI!DownTurn(turns[k], n)
  <2>1. \A k \in Nat : turns[k] = IF k = 0 THEN x ELSE QI!DownTurn(turns[k - 1], n)
    BY <1>7
  <2>2. \A k \in Nat : k + 1 \in Nat /\ k + 1 # 0 /\ (k + 1) - 1 = k
    OBVIOUS
  <2> QED
    BY <2>1, <2>2
<1>10. PICK e : e = turns
  OBVIOUS
<1>11. TurnsOf(e, x, g, S)
  BY <1>3, <1>9, <1>10 DEF TurnsOf
<1>12. Shrinks(g, m, S)
  BY <1>3 DEF Shrinks
<1>13. e[n] \in S /\ g[e[n]] = e[n]
  BY <1>11, <1>12, LoopEnds
<1> QED
  BY <1>3, <1>8, <1>10, <1>13

\* heap.up
LEMMA UpWorks ==
  ASSUME Ranks \subseteq Nat, NEW g, NEW N \in Nat, N <= Len(g.at),
         NEW h, Same(h, g, N), NEW i \in 1 .. N, OrderedAbove(h, N, i)
  PROVE  Same(QI!Up(h, i), g, N) /\ Ordered(QI!Up(h, i), N)
<1> DEFINE S == {c \in [h : Heaps, i : 1 .. N] : Same(c.h, g, N) /\ OrderedAbove(c.h, N, c.i)}
           x == [h |-> h, i |-> i]
           m == [c \in S |-> c.i]
<1>1. x \in S
  BY DEF Same, Placed
<1>2. ASSUME NEW c \in S
      PROVE  /\ QI!UpTurn(c) \in S
             /\ QI!UpTurn(c) = c \/ QI!UpTurn(c).i < c.i
             /\ QI!UpTurn(c) = c => Ordered(c.h, N)
  <2>1. c.i \in 1 .. N /\ Same(c.h, g, N) /\ OrderedAbove(c.h, N, c.i)
    OBVIOUS
  <2>2. CASE c.i > 1 /\ c.h.at[c.i] < c.h.at[c.i \div 2]
    <3> DEFINE s == QI!Swap(c.h, c.i, c.i \div 2)
    <3>1. c.i \div 2 \in 1 .. N /\ c.i \div 2 < c.i /\ Same(s, g, N) /\ OrderedAbove(s, N, c.i \div 2)
      BY <2>1, <2>2, UpGoesOn
    <3>2. QI!UpTurn(c) = [h |-> s, i |-> c.i \div 2]
      BY <2>2 DEF QI!UpTurn, QI!Less
    <3> HIDE DEF s
    <3>3. s \in Heaps
      BY <3>1 DEF Same, Placed
    <3> QED
      BY <2>1, <3>1, <3>2, <3>3
  <2>3. CASE ~(c.i > 1 /\ c.h.at[c.i] < c.h.at[c.i \div 2])
    <3>1. QI!UpTurn(c) = c
      BY <2>3 DEF QI!UpTurn, QI!Less
    <3>2. c.i = 1 \/ c.h.at[c.i \div 2] <= c.h.at[c.i]
      <4> SUFFICES ASSUME c.i > 1 PROVE c.h.at[c.i \div 2] <= c.h.at[c.i]
        BY <2>1
      <4>1. c.i \div 2 \in 1 .. N
        BY <2>1, Parents
      <4>2. Len(c.h.at) = Len(g.at) /\ Placed(c.h)
        BY <2>1 DEF Same
      <4>3. c.h.at[c.i] \in Nat /\ c.h.at[c.i \div 2] \in Nat
        BY <2>1, <4>1, <4>2, EntriesUpTo
      <4> QED
        BY <2>3, <4>3
    <3> QED
      BY <2>1, <3>1, <3>2, UpIsDone
  <2> QED
    BY <2>2, <2>3
<1>3. m \in [S -> Nat] /\ m[x] = i /\ \A c \in S : m[c] = c.i
  <2>1. \A c \in S : c.i \in Nat
    OBVIOUS
  <2>2. x.i = i
    OBVIOUS
  <2> HIDE DEF S, x
  <2> QED
    BY <1>1, <2>1, <2>2
<1>4. PICK S2, x2, m2 : S2 = S /\ x2 = x /\ m2 = m
  OBVIOUS
<1>5. x2 = [h |-> h, i |-> i]
  BY <1>4
<1> HIDE DEF S, x, m
<1>6. \A c \in S2 : QI!UpTurn(c) \in S2 /\ (QI!UpTurn(c) = c \/ m2[QI!UpTurn(c)] < m2[c])
  BY <1>2, <1>3, <1>4
<1>7. x2 \in S2 /\ m2 \in [S2 -> Nat] /\ m2[x2] <= i /\ i \in Nat
  BY <1>1, <1>3, <1>4
<1>8. PICK c \in S2 : QI!Up(h, i) = c.h /\ QI!UpTurn(c) = c
  BY <1>5, <1>6, <1>7, UpLoop
<1> QED
  BY <1>2, <1>4, <1>8 DEF S

\* The children of the position a, when there is one.
LEMMA Children ==
  ASSUME NEW N \in Nat, NEW a \in 1 .. N + 1, 2 * a <= N,
         NEW e \in Nat, e = 2 * a \/ (e = 2 * a + 1 /\ e <= N)
  PROVE  e \in 2 .. N /\ e \div 2 = a /\ a \in 1 .. N /\ 2 * a \in 1 .. N
<1>1. a \in Nat /\ a >= 1
  OBVIOUS
<1>2. e \div 2 = a
  BY <1>1, Parents
<1>3. e \in 2 .. N /\ a \in 1 .. N /\ 2 * a \in 1 .. N
  BY <1>1
<1> QED
  BY <1>2, <1>3

LEMMA LeastChild ==
  ASSUME NEW N \in Nat, NEW f, \A k \in 1 .. N : f[k] \in Nat,
         NEW b \in 1 .. N, NEW e, e = IF b + 1 <= N /\ f[b + 1] < f[b] THEN b + 1 ELSE b,
         NEW k \in 1 .. N, k = b \/ k = b + 1
  PROVE  f[e] <= f[k]
<1>1. PICK p \in Nat, q \in Nat : p = f[b] /\ q = f[k]
  OBVIOUS
<1>2. CASE k = b
  <2>1. CASE e = b
    <3>1. f[e] = q
      BY <1>1, <1>2, <2>1
    <3> QED
      BY <1>1, <3>1
  <2>2. CASE e # b
    <3>1. f[e] < f[b]
      BY <2>2
    <3>2. b + 1 <= N /\ b + 1 \in 1 .. N /\ e = b + 1
      BY <2>2
    <3>3. PICK r \in Nat : r = f[e]
      BY <3>2
    <3>4. r < q
      BY <1>1, <1>2, <3>1, <3>3
    <3> QED
      BY <1>1, <3>3, <3>4
  <2> QED
    BY <2>1, <2>2
<1>3. CASE k = b + 1
  <2>1. k <= N
    OBVIOUS
  <2>2. e = IF q < p THEN k ELSE b
    BY <1>1, <1>3, <2>1
  <2>3. f[e] = IF q < p THEN q ELSE p
    BY <1>1, <2>2
  <2>4. (IF q < p THEN q ELSE p) <= q
    OBVIOUS
  <2> QED
    BY <1>1, <2>3, <2>4
<1> QED
  BY <1>2, <1>3

\* Down: nothing is after the last position.
LEMMA DownWorks ==
  ASSUME Ranks \subseteq Nat, NEW g, NEW N \in Nat, N <= Len(g.at),
         NEW h, Same(h, g, N), NEW i \in 1 .. N + 1, OrderedBelow(h, N, i)
  PROVE  Same(QI!Down(h, i, N), g, N) /\ Ordered(QI!Down(h, i, N), N)
<1> DEFINE S == {c \in [h : Heaps, i : 1 .. N + 1] : Same(c.h, g, N) /\ OrderedBelow(c.h, N, c.i)}
           x == [h |-> h, i |-> i]
           m == [c \in S |-> N + 1 - c.i]
<1>1. x \in S
  BY DEF Same, Placed
<1>2. ASSUME NEW c \in S
      PROVE  /\ QI!DownTurn(c, N) \in S
             /\ QI!DownTurn(c, N) = c \/ QI!DownTurn(c, N).i > c.i
             /\ QI!DownTurn(c, N) = c => Ordered(c.h, N)
  <2>1. c.i \in 1 .. N + 1 /\ Same(c.h, g, N) /\ OrderedBelow(c.h, N, c.i)
    OBVIOUS
  <2>2. PICK e \in Nat : e = QI!FirstChild(c.h, c.i, N) /\ (e = 2 * c.i \/ (e = 2 * c.i + 1 /\ e <= N))
    BY <2>1 DEF QI!FirstChild
  <2>3. PICK d, a : d = c.h /\ a = c.i
    OBVIOUS
  <2>4. Len(d.at) = Len(g.at) /\ Placed(d)
    BY <2>1, <2>3 DEF Same
  <2>5. \A k \in 1 .. N : d.at[k] \in Nat
    BY <2>4, EntriesUpTo
  <2>6. CASE 2 * a <= N
    <3>1. e \in 2 .. N /\ e \div 2 = a /\ a \in 1 .. N /\ 2 * a \in 1 .. N
      <4>1. a \in 1 .. N + 1 /\ (e = 2 * a \/ (e = 2 * a + 1 /\ e <= N))
        BY <2>1, <2>2, <2>3
      <4> QED
        BY <2>6, <4>1, Children
    <3>2. \A k \in 2 .. N : k \div 2 = a => d.at[e] <= d.at[k]
      <4> SUFFICES ASSUME NEW k \in 2 .. N, k \div 2 = a PROVE d.at[e] <= d.at[k]
        OBVIOUS
      <4>1. k \in Nat /\ k \in 1 .. N /\ a \in Nat
        BY <3>1
      <4>2. k = 2 * a \/ k = 2 * a + 1
        BY <4>1, Parents
      <4>3. e = IF 2 * a + 1 <= N /\ d.at[2 * a + 1] < d.at[2 * a] THEN 2 * a + 1 ELSE 2 * a
        BY <2>2, <2>3 DEF QI!FirstChild, QI!Less
      <4>4. PICK b, f : b \in 1 .. N /\ b = 2 * a /\ f = d.at
        BY <3>1
      <4>5. (\A l \in 1 .. N : f[l] \in Nat) /\ (k = b \/ k = b + 1)
        BY <2>5, <4>2, <4>4
      <4>6. e = IF b + 1 <= N /\ f[b + 1] < f[b] THEN b + 1 ELSE b
        BY <4>3, <4>4
      <4>7. f[e] <= f[k]
        BY <4>1, <4>4, <4>5, <4>6, LeastChild
      <4> QED
        BY <4>4, <4>7
    <3>3. d.at[e] \in Nat /\ d.at[a] \in Nat
      BY <2>5, <3>1
    <3>4. CASE d.at[e] < d.at[a]
      <4> DEFINE s == QI!Swap(d, a, e)
      <4>1. Same(s, g, N) /\ OrderedBelow(s, N, e)
        BY <2>1, <2>3, <3>1, <3>2, <3>4, DownGoesOn
      <4>2. QI!DownTurn(c, N) = [h |-> s, i |-> e]
        BY <2>2, <2>3, <2>6, <3>4 DEF QI!DownTurn, QI!Less
      <4> HIDE DEF s
      <4>3. s \in Heaps
        BY <4>1 DEF Same, Placed
      <4>4. e \in 1 .. N + 1 /\ e > a
        BY <3>1, Parents
      <4>5. QI!DownTurn(c, N).i = e /\ QI!DownTurn(c, N) # c
        BY <2>3, <4>2, <4>4
      <4> QED
        BY <2>3, <4>1, <4>2, <4>3, <4>4, <4>5
    <3>5. CASE ~(d.at[e] < d.at[a])
      <4>1. QI!DownTurn(c, N) = c
        BY <2>2, <2>3, <3>5 DEF QI!DownTurn, QI!Less
      <4>2. \A k \in 2 .. N : k \div 2 = a => d.at[a] <= d.at[k]
        <5> SUFFICES ASSUME NEW k \in 2 .. N, k \div 2 = a PROVE d.at[a] <= d.at[k]
          OBVIOUS
        <5>1. d.at[k] \in Nat /\ d.at[e] <= d.at[k]
          BY <2>5, <3>2
        <5>2. PICK p \in Nat, q \in Nat, r \in Nat : p = d.at[a] /\ q = d.at[e] /\ r = d.at[k]
          BY <3>3, <5>1
        <5>3. ~(q < p) /\ q <= r
          BY <3>5, <5>1, <5>2
        <5>4. p <= r
          BY <5>3
        <5> QED
          BY <5>2, <5>4
      <4>3. Ordered(d, N)
        BY <2>1, <2>3, <3>1, <4>2, DownIsDone
      <4> QED
        BY <2>3, <4>1, <4>3
    <3> QED
      BY <3>4, <3>5
  <2>7. CASE ~(2 * a <= N)
    <3>1. QI!DownTurn(c, N) = c
      BY <2>3, <2>7 DEF QI!DownTurn
    <3>2. \A k \in 2 .. N : k \div 2 # a
      BY <2>1, <2>3, <2>7, Parents
    <3>3. Ordered(d, N)
      BY <2>1, <2>3, <3>2 DEF OrderedBelow, Ordered
    <3> QED
      BY <2>3, <3>1, <3>3
  <2> QED
    BY <2>6, <2>7
<1>3. m \in [S -> Nat] /\ m[x] <= N /\ \A c \in S : m[c] = N + 1 - c.i /\ c.i \in 1 .. N + 1
  <2>1. \A c \in S : c.i \in 1 .. N + 1 /\ N + 1 - c.i \in Nat
    OBVIOUS
  <2>2. x.i = i
    OBVIOUS
  <2> HIDE DEF S, x
  <2> QED
    BY <1>1, <2>1, <2>2
<1>4. PICK S2, x2, m2 : S2 = S /\ x2 = x /\ m2 = m
  OBVIOUS
<1>5. x2 = [h |-> h, i |-> i]
  BY <1>4
<1> HIDE DEF S, x, m
<1>6. \A c \in S2 : QI!DownTurn(c, N) \in S2 /\ (QI!DownTurn(c, N) = c \/ m2[QI!DownTurn(c, N)] < m2[c])
  <2> SUFFICES ASSUME NEW c \in S2
               PROVE  QI!DownTurn(c, N) \in S2 /\ (QI!DownTurn(c, N) = c \/ m2[QI!DownTurn(c, N)] < m2[c])
    OBVIOUS
  <2>1. PICK e \in S2 : e = QI!DownTurn(c, N) /\ (e = c \/ e.i > c.i)
    BY <1>2, <1>4
  <2>2. m2[e] = N + 1 - e.i /\ m2[c] = N + 1 - c.i /\ e.i \in Nat /\ c.i \in Nat
    BY <1>3, <1>4
  <2> QED
    BY <2>1, <2>2
<1>7. x2 \in S2 /\ m2 \in [S2 -> Nat] /\ m2[x2] <= N
  BY <1>1, <1>3, <1>4
<1>8. PICK c \in S2 : QI!Down(h, i, N) = c.h /\ QI!DownTurn(c, N) = c
  BY <1>5, <1>6, <1>7, DownLoop
<1> QED
  BY <1>2, <1>4, <1>8 DEF S

\* An entry before its children stays where it is.
LEMMA DownStays ==
  ASSUME NEW h, NEW N \in Nat, NEW i \in Nat \ {0}, \A k \in 2 .. N : k \div 2 = i => ~(h.at[k] < h.at[i])
  PROVE  QI!Down(h, i, N) = h
<1>1. PICK x : x = [h |-> h, i |-> i]
  OBVIOUS
<1>2. QI!DownTurn(x, N) = x
  <2>1. PICK e : e = QI!FirstChild(h, i, N)
    OBVIOUS
  <2>2. 2 * i <= N => e \in 2 .. N /\ e \div 2 = i
    <3>1. e = 2 * i \/ (e = 2 * i + 1 /\ e <= N)
      BY <2>1 DEF QI!FirstChild
    <3> QED
      BY <3>1, Parents
  <2>3. ~(2 * i <= N /\ h.at[e] < h.at[i])
    BY <2>2
  <2>4. x.h = h /\ x.i = i
    BY <1>1
  <2> QED
    BY <2>1, <2>3, <2>4 DEF QI!DownTurn, QI!Less
<1>3. PICK S, m : S = {x} /\ m = [c \in S |-> 0]
  OBVIOUS
<1>4. x \in S /\ m \in [S -> Nat] /\ m[x] <= N /\ \A c \in S : QI!DownTurn(c, N) \in S /\ QI!DownTurn(c, N) = c
  BY <1>2, <1>3
<1>5. PICK c \in S : QI!Down(h, i, N) = c.h
  BY <1>1, <1>4, DownLoop
<1> QED
  BY <1>1, <1>3, <1>5

IsHeap(h) == Placed(h) /\ Ordered(h, Len(h.at))

LEMMA Contents ==
  ASSUME NEW h, Placed(h)
  PROVE  QI!In(h) = UpTo(h, Len(h.at)) /\ QI!In(h) \subseteq Ranks
<1>1. DOMAIN h.at = 1 .. Len(h.at) /\ \A k \in 1 .. Len(h.at) : h.at[k] \in Ranks
  BY Entries
<1> QED
  BY <1>1 DEF QI!In, UpTo

\* The last entry leaves.
LEMMA DropKeeps ==
  ASSUME NEW h, Placed(h), NEW n \in Nat, Len(h.at) = n + 1, Ordered(h, n)
  PROVE  LET d == QI!DropLast(h)
         IN  IsHeap(d) /\ Len(d.at) = n /\ QI!In(d) = UpTo(h, n) /\ QI!In(d) = QI!In(h) \ {h.at[n + 1]}
<1> DEFINE d == QI!DropLast(h)
<1>1. /\ h.at \in [1 .. n + 1 -> Ranks] /\ h.pos \in [Ranks -> Nat]
      /\ \A k \in 1 .. n + 1 : h.at[k] \in Ranks /\ h.pos[h.at[k]] = k
      /\ \A k, m \in 1 .. n + 1 : h.at[k] = h.at[m] => k = m
  BY Entries
<1>2. PICK at, pos : at = h.at /\ pos = h.pos
  OBVIOUS
<1>3. PICK s : s = SubSeq(at, 1, n) /\ s \in Seq(Ranks) /\ Len(s) = n /\ \A k \in 1 .. n : s[k] = at[k]
  <2>1. at \in Seq(Ranks) /\ Len(at) = n + 1
    BY <1>2 DEF Placed, Heaps
  <2>2. 1 \in 1 .. n + 2 /\ n \in 0 .. n + 1 /\ Len(at) + 1 = n + 2
    BY <2>1
  <2>3. SubSeq(at, 1, n) \in Seq(Ranks) /\ Len(SubSeq(at, 1, n)) = n
        /\ \A k \in 1 .. n : SubSeq(at, 1, n)[k] = at[k]
    BY <2>1, <2>2
  <2> QED
    BY <2>3
<1>4. d = [at |-> s, pos |-> pos]
  <2>1. h = [at |-> at, pos |-> pos]
    BY <1>2 DEF Placed, Heaps
  <2>2. Len(h.at) - 1 = n
    OBVIOUS
  <2>3. QI!DropLast(h) = [h EXCEPT !.at = SubSeq(h.at, 1, Len(h.at) - 1)]
    BY DEF QI!DropLast
  <2> QED
    BY <1>2, <1>3, <2>1, <2>2, <2>3
<1> HIDE DEF d
<1>5. d.at = s /\ d.pos = pos /\ DOMAIN s = 1 .. n
  BY <1>3, <1>4
<1>6. Placed(d)
  <2>1. d \in Heaps
    BY <1>1, <1>2, <1>3, <1>4 DEF Heaps
  <2>2. \A k \in 1 .. n : d.pos[d.at[k]] = k
    BY <1>1, <1>2, <1>3, <1>5
  <2> QED
    BY <1>5, <2>1, <2>2 DEF Placed
<1>7. Ordered(d, n)
  <2> SUFFICES ASSUME NEW k \in 2 .. n PROVE d.at[k \div 2] <= d.at[k]
    BY DEF Ordered
  <2>1. PICK p \in 1 .. n : p = k \div 2
    BY Parents
  <2>2. h.at[p] <= h.at[k]
    BY <2>1 DEF Ordered
  <2> QED
    BY <1>2, <1>3, <1>5, <2>1, <2>2
<1>8. QI!In(d) = UpTo(h, n)
  BY <1>2, <1>3, <1>5 DEF QI!In, UpTo
<1>9. UpTo(h, n) = UpTo(h, n + 1) \ {h.at[n + 1]}
  <2>1. PICK e : e = h.at /\ (\A k, m \in 1 .. n + 1 : e[k] = e[m] => k = m)
    BY <1>1
  <2>2. {e[k] : k \in 1 .. n} = {e[k] : k \in 1 .. n + 1} \ {e[n + 1]}
    BY <2>1
  <2> QED
    BY <2>1, <2>2 DEF UpTo
<1> QED
  BY <1>3, <1>5, <1>6, <1>7, <1>8, <1>9, Contents DEF IsHeap, d

LEMMA AppendKeeps ==
  ASSUME NEW h, Placed(h), NEW j \in Ranks, j \notin QI!In(h)
  PROVE  LET a == QI!Append1(h, j)
         IN  /\ Placed(a) /\ Len(a.at) = Len(h.at) + 1 /\ QI!In(a) = QI!In(h) \cup {j}
             /\ \A k \in 1 .. Len(h.at) : a.at[k] = h.at[k]
<1> DEFINE L == Len(h.at)
           a == QI!Append1(h, j)
<1>1. /\ L \in Nat /\ h.at \in Seq(Ranks) /\ h.pos \in [Ranks -> Nat]
      /\ \A k \in 1 .. L : h.at[k] \in Ranks /\ h.pos[h.at[k]] = k /\ h.at[k] # j
  <2>1. h.at \in Seq(Ranks)
    BY DEF Placed, Heaps
  <2>2. \A k \in 1 .. L : h.at[k] \in QI!In(h)
    BY Entries DEF QI!In
  <2> QED
    BY <2>1, <2>2, Entries
<1>2. PICK at : at = Append(h.at, j) /\ at \in Seq(Ranks) /\ Len(at) = L + 1 /\ at[L + 1] = j
                /\ \A k \in 1 .. L : at[k] = h.at[k]
  <2>1. PICK e : e = h.at
    OBVIOUS
  <2>2. e \in Seq(Ranks) /\ Len(e) = L
    BY <1>1, <2>1
  <2>3. Append(e, j) \in Seq(Ranks) /\ Len(Append(e, j)) = L + 1 /\ Append(e, j)[L + 1] = j
        /\ \A k \in 1 .. L : Append(e, j)[k] = e[k]
    BY <2>2, AppendProperties
  <2> QED
    BY <2>1, <2>3
<1>3. PICK pos : pos = [h.pos EXCEPT ![j] = L + 1] /\ pos \in [Ranks -> Nat]
                 /\ pos[j] = L + 1 /\ \A i \in Ranks : i # j => pos[i] = h.pos[i]
  <2>1. PICK e, n : e = h.pos /\ n = L + 1
    OBVIOUS
  <2>2. e \in [Ranks -> Nat] /\ n \in Nat
    BY <1>1, <2>1
  <2>3. PICK f : f = [e EXCEPT ![j] = n]
    OBVIOUS
  <2>4. f \in [Ranks -> Nat] /\ f[j] = n /\ \A i \in Ranks : i # j => f[i] = e[i]
    BY <2>2, <2>3
  <2> QED
    BY <2>1, <2>3, <2>4
<1>4. a = [at |-> at, pos |-> pos] /\ a.at = at /\ a.pos = pos
  BY <1>2, <1>3 DEF QI!Append1
<1> HIDE DEF a
<1>5. DOMAIN at = 1 .. L + 1
  BY <1>2
<1>6. Placed(a)
  <2>1. a \in Heaps
    BY <1>2, <1>3, <1>4 DEF Heaps
  <2>2. ASSUME NEW k \in 1 .. L + 1 PROVE a.pos[a.at[k]] = k
    <3>1. CASE k = L + 1
      BY <1>2, <1>3, <1>4, <3>1
    <3>2. CASE k \in 1 .. L
      BY <1>1, <1>2, <1>3, <1>4, <3>2
    <3> QED
      BY <1>1, <3>1, <3>2
  <2> QED
    BY <1>4, <1>5, <2>1, <2>2 DEF Placed
<1>7. QI!In(a) = QI!In(h) \cup {j}
  <2>1. PICK e : e = h.at
    OBVIOUS
  <2>2. QI!In(a) = {at[k] : k \in 1 .. L + 1} /\ QI!In(h) = {e[k] : k \in 1 .. L}
    BY <1>1, <1>4, <1>5, <2>1 DEF QI!In
  <2>3. \A k \in 1 .. L + 1 : k \in 1 .. L \/ k = L + 1
    BY <1>1
  <2>4. 1 .. L \subseteq 1 .. L + 1 /\ L + 1 \in 1 .. L + 1
    BY <1>1
  <2>5. \A k \in 1 .. L : at[k] = e[k]
    BY <1>2, <2>1
  <2>6. PICK D, E, l : D = 1 .. L /\ E = 1 .. L + 1 /\ l = L + 1
    OBVIOUS
  <2>7. E = D \cup {l} /\ at[l] = j /\ \A k \in D : at[k] = e[k]
    BY <1>2, <2>3, <2>4, <2>5, <2>6
  <2>8. {at[k] : k \in E} = {e[k] : k \in D} \cup {j}
    BY <2>7
  <2> QED
    BY <2>2, <2>6, <2>8
<1> QED
  BY <1>2, <1>4, <1>6, <1>7 DEF a

LEMMA PushWorks ==
  ASSUME Ranks \subseteq Nat, NEW h, IsHeap(h), NEW j \in Ranks, j \notin QI!In(h)
  PROVE  LET p == QI!HeapPush(h, j)
         IN  IsHeap(p) /\ QI!In(p) = QI!In(h) \cup {j} /\ Len(p.at) = Len(h.at) + 1
<1>1. Placed(h) /\ Len(h.at) \in Nat
  BY Entries DEF IsHeap
<1>2. PICK n, a : n = Len(h.at) + 1 /\ n \in Nat /\ n \in 1 .. n /\ a = QI!Append1(h, j)
  BY <1>1
<1>3. /\ Placed(a) /\ Len(a.at) = n /\ QI!In(a) = QI!In(h) \cup {j}
      /\ \A k \in 1 .. Len(h.at) : a.at[k] = h.at[k]
  BY <1>1, <1>2, AppendKeeps
<1>4. OrderedAbove(a, n, n)
  <2>1. ASSUME NEW k \in 2 .. n, k # n PROVE a.at[k \div 2] <= a.at[k]
    <3>1. PICK p \in 1 .. Len(h.at) : p = k \div 2
      BY <1>1, <1>2, <2>1, Parents
    <3>2. k \in 2 .. Len(h.at)
      BY <1>1, <1>2, <2>1
    <3>3. h.at[p] <= h.at[k]
      BY <3>1, <3>2 DEF IsHeap, Ordered
    <3> QED
      BY <1>3, <3>1, <3>2, <3>3
  <2>2. \A k \in 2 .. n : k \div 2 # n
    BY Parents
  <2> QED
    BY <2>1, <2>2 DEF OrderedAbove
<1>5. Same(a, a, n)
  BY <1>3 DEF Same
<1>6. PICK p : p = QI!Up(a, n) /\ Same(p, a, n) /\ Ordered(p, n)
  BY <1>2, <1>3, <1>4, <1>5, UpWorks
<1>7. Placed(p) /\ Len(p.at) = n /\ UpTo(p, n) = UpTo(a, n)
  BY <1>3, <1>6 DEF Same
<1>8. QI!HeapPush(h, j) = p
  BY <1>2, <1>6 DEF QI!HeapPush
<1> QED
  BY <1>2, <1>3, <1>6, <1>7, <1>8, Contents DEF IsHeap

\* The root is the least entry.
LEMMA RootIsFirst ==
  ASSUME Ranks \subseteq Nat, NEW h, IsHeap(h)
  PROVE  \A k \in 1 .. Len(h.at) : h.at[1] <= h.at[k]
<1>1. Len(h.at) \in Nat /\ Placed(h)
  BY Entries DEF IsHeap
<1>2. \A k \in 1 .. Len(h.at) : h.at[k] \in Nat
  BY <1>1, EntriesUpTo
<1> DEFINE B == {k \in 1 .. Len(h.at) : ~(h.at[1] <= h.at[k])}
<1> SUFFICES ASSUME B # {} PROVE FALSE
  OBVIOUS
<1>3. PICK k \in B : \A m \in B : k <= m
  <2>1. B \in SUBSET Nat
    OBVIOUS
  <2> HIDE DEF B
  <2> QED
    BY <2>1, LeastNumber
<1>4. k \in 2 .. Len(h.at) /\ 1 \in 1 .. Len(h.at)
  BY <1>1, <1>2
<1>5. PICK p \in 1 .. Len(h.at) : p = k \div 2 /\ p < k
  BY <1>1, <1>4, Parents
<1>6. h.at[p] <= h.at[k]
  BY <1>4, <1>5 DEF IsHeap, Ordered
<1>7. p \notin B
  BY <1>3, <1>5
<1>8. h.at[1] <= h.at[p]
  BY <1>5, <1>7
<1>9. h.at[1] \in Nat /\ h.at[p] \in Nat /\ h.at[k] \in Nat
  BY <1>2, <1>4, <1>5
<1> QED
  BY <1>6, <1>8, <1>9

\* The last entry takes the place of the one at i, that leaves.
LEMMA SwapLast ==
  ASSUME NEW h, IsHeap(h), NEW n \in Nat, Len(h.at) = n + 1, NEW i \in 1 .. n + 1
  PROVE  LET s == QI!Swap(h, i, n + 1)
         IN  /\ Placed(s) /\ Same(s, s, n) /\ Len(s.at) = n + 1 /\ QI!In(s) = QI!In(h)
             /\ s.at[i] = h.at[n + 1] /\ s.at[n + 1] = h.at[i]
             /\ \A k \in 1 .. n : k # i => s.at[k] = h.at[k]
<1> DEFINE s == QI!Swap(h, i, n + 1)
<1>1. Same(h, h, n + 1) /\ n + 1 \in Nat /\ n + 1 \in 1 .. n + 1 /\ n + 1 <= Len(h.at)
  BY DEF Same, IsHeap
<1>2. /\ Same(s, h, n + 1) /\ s.at[i] = h.at[n + 1] /\ s.at[n + 1] = h.at[i]
      /\ \A k \in 1 .. n + 1 : k # i /\ k # n + 1 => s.at[k] = h.at[k]
  BY <1>1, SwapKeeps
<1> HIDE DEF s
<1>3. Placed(s) /\ Len(s.at) = n + 1 /\ UpTo(s, n + 1) = UpTo(h, n + 1)
  BY <1>2 DEF Same
<1>4. QI!In(s) = QI!In(h)
  BY <1>3, Contents DEF IsHeap
<1>5. Same(s, s, n)
  BY <1>3 DEF Same
<1>6. \A k \in 1 .. n : k # i => s.at[k] = h.at[k]
  BY <1>2
<1> QED
  BY <1>2, <1>3, <1>4, <1>5, <1>6 DEF s

\* What is in order up to n, and was beyond it.
LEMMA LastLeaves ==
  ASSUME NEW h, NEW n \in Nat, NEW s, Placed(s), Len(s.at) = n + 1, QI!In(s) = QI!In(h),
         NEW r, Same(r, s, n), Ordered(r, n)
  PROVE  LET d == QI!DropLast(r)
         IN  IsHeap(d) /\ Len(d.at) = n /\ QI!In(d) = QI!In(h) \ {s.at[n + 1]}
<1>1. Placed(r) /\ Len(r.at) = n + 1 /\ UpTo(r, n) = UpTo(s, n)
  BY DEF Same
<1>2. PICK d : /\ d = QI!DropLast(r) /\ IsHeap(d) /\ Len(d.at) = n /\ QI!In(d) = UpTo(r, n)
  BY <1>1, DropKeeps
<1>3. UpTo(s, n) = UpTo(s, n + 1) \ {s.at[n + 1]}
  <2>1. \A k, m \in 1 .. n + 1 : s.at[k] = s.at[m] => k = m
    BY Entries
  <2>2. PICK e : e = s.at /\ (\A k, m \in 1 .. n + 1 : e[k] = e[m] => k = m)
    BY <2>1
  <2>3. {e[k] : k \in 1 .. n} = {e[k] : k \in 1 .. n + 1} \ {e[n + 1]}
    BY <2>2
  <2> QED
    BY <2>2, <2>3 DEF UpTo
<1> QED
  BY <1>1, <1>2, <1>3, Contents

LEMMA PopWorks ==
  ASSUME Ranks \subseteq Nat, NEW h, IsHeap(h), h.at # <<>>
  PROVE  LET d == QI!HeapPop(h)
         IN  IsHeap(d) /\ Len(d.at) + 1 = Len(h.at) /\ QI!In(d) = QI!In(h) \ {h.at[1]}
<1>1. Placed(h) /\ h.at \in Seq(Ranks)
  BY DEF IsHeap, Placed, Heaps
<1>2. PICK n \in Nat : Len(h.at) = n + 1
  <2>1. Len(h.at) \in Nat /\ Len(h.at) # 0
    BY <1>1, EmptySeq
  <2> QED
    BY <2>1
<1>3. 1 \in 1 .. n + 1
  OBVIOUS
<1>4. PICK s : s = QI!Swap(h, 1, n + 1)
  OBVIOUS
<1>5. /\ Placed(s) /\ Same(s, s, n) /\ Len(s.at) = n + 1 /\ QI!In(s) = QI!In(h)
      /\ s.at[n + 1] = h.at[1] /\ \A k \in 1 .. n : k # 1 => s.at[k] = h.at[k]
  BY <1>2, <1>3, <1>4, SwapLast
<1>6. OrderedBelow(s, n, 1)
  <2> SUFFICES ASSUME NEW k \in 2 .. n, k \div 2 # 1 PROVE s.at[k \div 2] <= s.at[k]
    BY DEF OrderedBelow
  <2>1. PICK p \in 1 .. n : p = k \div 2
    BY Parents
  <2>2. h.at[p] <= h.at[k]
    BY <1>2, <2>1 DEF IsHeap, Ordered
  <2> QED
    BY <1>5, <2>1, <2>2
<1>7. PICK r : r = QI!Down(s, 1, n) /\ Same(r, s, n) /\ Ordered(r, n)
  <2>1. 1 \in 1 .. n + 1 /\ n <= Len(s.at)
    BY <1>5
  <2> QED
    BY <1>5, <1>6, <2>1, DownWorks
<1>8. QI!HeapPop(h) = QI!DropLast(r)
  <2>1. Len(h.at) - 1 = n
    BY <1>2
  <2> QED
    BY <1>2, <1>4, <1>7, <2>1 DEF QI!HeapPop
<1> QED
  BY <1>2, <1>5, <1>7, <1>8, LastLeaves

\* heap.Remove: the entry that fills the hole may have to go up, in the branch of another.
LEMMA RemoveWorks ==
  ASSUME Ranks \subseteq Nat, NEW h, IsHeap(h), NEW i \in 1 .. Len(h.at)
  PROVE  LET d == QI!HeapRemove(h, i)
         IN  IsHeap(d) /\ QI!In(d) = QI!In(h) \ {h.at[i]}
<1>1. Placed(h) /\ Len(h.at) \in Nat
  BY Entries DEF IsHeap
<1>2. PICK n \in Nat : Len(h.at) = n + 1
  <2>1. PICK l \in Nat : l = Len(h.at)
    BY <1>1
  <2>2. l - 1 \in Nat /\ l = (l - 1) + 1
    BY <2>1
  <2> QED
    BY <2>1, <2>2
<1>3. i \in 1 .. n + 1 /\ Len(h.at) - 1 = n
  BY <1>2
<1>4. \A k \in 1 .. n + 1 : h.at[k] \in Nat
  BY <1>1, <1>2, EntriesUpTo
<1>5. CASE i = n + 1
  <2>1. QI!HeapRemove(h, i) = QI!DropLast(h)
    BY <1>2, <1>5 DEF QI!HeapRemove
  <2>2. Same(h, h, n) /\ Ordered(h, n)
    <3>1. 2 .. n \subseteq 2 .. n + 1
      OBVIOUS
    <3> QED
      BY <1>1, <1>2, <3>1 DEF IsHeap, Same, Ordered
  <2> QED
    BY <1>1, <1>2, <1>5, <2>1, <2>2, LastLeaves
<1>6. CASE i # n + 1
  <2>1. i \in 1 .. n /\ i \in Nat \ {0}
    BY <1>3, <1>6
  <2>2. PICK s : s = QI!Swap(h, i, n + 1)
    OBVIOUS
  <2>3. /\ Placed(s) /\ Same(s, s, n) /\ Len(s.at) = n + 1 /\ QI!In(s) = QI!In(h)
        /\ s.at[i] = h.at[n + 1] /\ s.at[n + 1] = h.at[i] /\ \A k \in 1 .. n : k # i => s.at[k] = h.at[k]
    <3>1. LET t == QI!Swap(h, i, n + 1)
          IN  /\ Placed(t) /\ Same(t, t, n) /\ Len(t.at) = n + 1 /\ QI!In(t) = QI!In(h)
              /\ t.at[i] = h.at[n + 1] /\ t.at[n + 1] = h.at[i]
              /\ \A k \in 1 .. n : k # i => t.at[k] = h.at[k]
      BY <1>2, <1>3, SwapLast
    <3> QED
      BY <2>2, <3>1
  <2>4. PICK moved : moved = QI!Down(s, i, n)
    OBVIOUS
  <2>5. PICK r : r = IF moved.at[i] # h.at[n + 1] THEN moved ELSE QI!Up(moved, i)
    OBVIOUS
  <2>6. QI!HeapRemove(h, i) = QI!DropLast(r)
    BY <1>2, <1>3, <1>6, <2>2, <2>4, <2>5 DEF QI!HeapRemove
  <2>7. n <= Len(s.at) /\ i \in 1 .. n + 1
    BY <2>1, <2>3
  <2>8. \A k \in 2 .. n : \E p \in 1 .. n : p = k \div 2 /\ p < k /\ h.at[p] <= h.at[k]
    <3> SUFFICES ASSUME NEW k \in 2 .. n PROVE \E p \in 1 .. n : p = k \div 2 /\ p < k /\ h.at[p] <= h.at[k]
      OBVIOUS
    <3>1. PICK p \in 1 .. n : p = k \div 2 /\ p < k
      BY Parents
    <3>2. h.at[p] <= h.at[k]
      BY <1>2, <3>1 DEF IsHeap, Ordered
    <3> QED
      BY <3>1, <3>2
  <2>9. CASE i = 1 \/ h.at[i \div 2] <= h.at[n + 1]
    <3>1. OrderedBelow(s, n, i)
      <4>1. ASSUME NEW k \in 2 .. n, k \div 2 # i PROVE s.at[k \div 2] <= s.at[k]
        <5>1. PICK p \in 1 .. n : p = k \div 2 /\ p < k /\ h.at[p] <= h.at[k]
          BY <2>8
        <5>2. CASE k = i
          BY <2>3, <2>9, <4>1, <5>1, <5>2
        <5>3. CASE k # i
          BY <2>3, <4>1, <5>1, <5>3
        <5> QED
          BY <5>2, <5>3
      <4>2. ASSUME NEW k \in 2 .. n, k \div 2 = i, i > 1 PROVE s.at[i \div 2] <= s.at[k]
        <5>1. i \in 2 .. n /\ k # i
          BY <2>1, <2>8, <4>2
        <5>2. PICK p \in 1 .. n : p = i \div 2 /\ p < i /\ h.at[p] <= h.at[i]
          BY <2>8, <5>1
        <5>3. h.at[i] <= h.at[k]
          BY <2>8, <4>2
        <5>4. h.at[i] \in Nat /\ h.at[p] \in Nat /\ h.at[k] \in Nat
          BY <1>4, <2>1
        <5>5. PICK u \in Nat, v \in Nat, w \in Nat : u = h.at[i] /\ v = h.at[p] /\ w = h.at[k]
          BY <5>4
        <5>6. v <= u /\ u <= w
          BY <5>2, <5>3, <5>5
        <5>7. v <= w
          BY <5>6
        <5>8. p # i /\ k \in 1 .. n
          BY <5>2
        <5>9. s.at[p] = v /\ s.at[k] = w
          BY <2>3, <5>1, <5>5, <5>8
        <5> QED
          BY <5>2, <5>7, <5>9
      <4> QED
        BY <4>1, <4>2 DEF OrderedBelow
    <3>2. Same(moved, s, n) /\ Ordered(moved, n)
      BY <2>3, <2>4, <2>7, <3>1, DownWorks
    <3>3. Same(r, s, n) /\ Ordered(r, n)
      <4>1. CASE moved.at[i] # h.at[n + 1]
        BY <2>5, <3>2, <4>1
      <4>2. CASE moved.at[i] = h.at[n + 1]
        <5>1. OrderedAbove(moved, n, i)
          <6>1. Placed(moved) /\ n <= Len(moved.at)
            BY <2>7, <3>2 DEF Same
          <6>2. \A k \in 1 .. n : moved.at[k] \in Nat
            BY <6>1, EntriesUpTo
          <6>3. ASSUME NEW k \in 2 .. n, k \div 2 = i, i > 1 PROVE moved.at[i \div 2] <= moved.at[k]
            <7>1. PICK p \in 1 .. n : p = i \div 2
              BY <2>1, <2>8, <6>3
            <7>2. moved.at[p] <= moved.at[i] /\ moved.at[i] <= moved.at[k]
              BY <2>1, <3>2, <6>3, <7>1 DEF Ordered
            <7>3. moved.at[p] \in Nat /\ moved.at[i] \in Nat /\ moved.at[k] \in Nat
              BY <2>1, <6>2, <7>1
            <7> QED
              BY <7>1, <7>2, <7>3
          <6> QED
            BY <3>2, <6>3 DEF OrderedAbove, Ordered
        <5> QED
          BY <2>1, <2>5, <2>7, <3>2, <4>2, <5>1, UpWorks
      <4> QED
        BY <4>1, <4>2
    <3> QED
      BY <2>3, <2>6, <3>3, LastLeaves
  <2>10. CASE ~(i = 1 \/ h.at[i \div 2] <= h.at[n + 1])
    <3>1. i \in 2 .. n
      BY <2>1, <2>10
    <3>2. PICK p \in 1 .. n : p = i \div 2 /\ p < i /\ h.at[p] <= h.at[i]
      BY <2>8, <3>1
    <3>3. s.at[i] = h.at[n + 1] /\ h.at[n + 1] < h.at[p] /\ s.at[p] = h.at[p]
      BY <1>4, <2>3, <2>10, <3>2
    <3>4. ASSUME NEW k \in 2 .. n, k \div 2 = i
          PROVE  s.at[k] \in Nat /\ h.at[p] <= s.at[k] /\ s.at[i] < s.at[k]
      <4>1. h.at[i] <= h.at[k] /\ k # i
        <5>1. PICK q \in 1 .. n : q = k \div 2 /\ q < k /\ h.at[q] <= h.at[k]
          BY <2>8
        <5> QED
          BY <3>4, <5>1
      <4>2. s.at[k] = h.at[k]
        BY <2>3, <4>1
      <4>3. h.at[i] \in Nat /\ h.at[p] \in Nat /\ h.at[k] \in Nat /\ h.at[n + 1] \in Nat
        BY <1>4, <2>1
      <4>4. PICK u \in Nat, v \in Nat, w \in Nat, x \in Nat :
              u = h.at[i] /\ v = h.at[p] /\ w = h.at[k] /\ x = h.at[n + 1]
        BY <4>3
      <4>5. v <= u /\ u <= w /\ x < v
        BY <3>2, <3>3, <4>1, <4>4
      <4>6. v <= w /\ x < w
        BY <4>5
      <4> QED
        BY <3>3, <4>2, <4>4, <4>6
    <3>5. moved = s
      <4>1. \A k \in 2 .. n : k \div 2 = i => ~(s.at[k] < s.at[i])
        <5> SUFFICES ASSUME NEW k \in 2 .. n, k \div 2 = i PROVE ~(s.at[k] < s.at[i])
          OBVIOUS
        <5>1. s.at[k] \in Nat /\ s.at[i] < s.at[k]
          BY <3>4
        <5>2. n + 1 \in 1 .. n + 1
          OBVIOUS
        <5>3. s.at[i] \in Nat
          BY <1>4, <3>3, <5>2
        <5>4. PICK u \in Nat, v \in Nat : u = s.at[i] /\ v = s.at[k]
          BY <5>1, <5>3
        <5>5. u < v
          BY <5>1, <5>4
        <5> QED
          BY <5>4, <5>5
      <4> QED
        BY <2>1, <2>4, <4>1, DownStays
    <3>6. OrderedAbove(s, n, i)
      <4>1. ASSUME NEW k \in 2 .. n, k # i PROVE s.at[k \div 2] <= s.at[k]
        <5>1. PICK q \in 1 .. n : q = k \div 2 /\ q < k /\ h.at[q] <= h.at[k]
          BY <2>8
        <5>2. CASE q = i
          <6>1. s.at[i] < s.at[k] /\ s.at[k] \in Nat
            BY <3>4, <5>1, <5>2
          <6>2. n + 1 \in 1 .. n + 1
            OBVIOUS
          <6>3. s.at[i] \in Nat
            BY <1>4, <3>3, <6>2
          <6>4. PICK u \in Nat, v \in Nat : u = s.at[i] /\ v = s.at[k]
            BY <6>1, <6>3
          <6>5. u < v
            BY <6>1, <6>4
          <6>6. u <= v
            BY <6>5
          <6> QED
            BY <5>1, <5>2, <6>4, <6>6
        <5>3. CASE q # i
          BY <2>3, <4>1, <5>1, <5>3
        <5> QED
          BY <5>2, <5>3
      <4>2. \A k \in 2 .. n : k \div 2 = i => s.at[p] <= s.at[k]
        BY <3>3, <3>4
      <4> QED
        BY <3>2, <4>1, <4>2 DEF OrderedAbove
    <3>7. r = QI!Up(s, i)
      BY <2>5, <3>3, <3>5
    <3>8. Same(r, s, n) /\ Ordered(r, n)
      BY <2>1, <2>3, <2>7, <3>6, <3>7, UpWorks
    <3> QED
      BY <2>3, <2>6, <3>8, LastLeaves
  <2> QED
    BY <2>9, <2>10
<1> QED
  BY <1>5, <1>6

\* What is forgotten is not in the heap.
LEMMA ForgetKeeps ==
  ASSUME NEW h, IsHeap(h), NEW j \in Ranks, j \notin QI!In(h)
  PROVE  LET f == QI!Forget(h, j) IN IsHeap(f) /\ QI!In(f) = QI!In(h)
<1>1. PICK at, pos : at = h.at /\ pos = h.pos
  OBVIOUS
<1>2. h = [at |-> at, pos |-> pos] /\ at \in Seq(Ranks) /\ pos \in [Ranks -> Nat]
  BY <1>1 DEF IsHeap, Placed, Heaps
<1>3. PICK p : p = [pos EXCEPT ![j] = 0] /\ p \in [Ranks -> Nat] /\ \A i \in Ranks : i # j => p[i] = pos[i]
  BY <1>2
<1>4. PICK f : f = QI!Forget(h, j) /\ f = [at |-> at, pos |-> p] /\ f.at = at /\ f.pos = p
  <2>1. QI!Forget(h, j) = [h EXCEPT !.pos = [h.pos EXCEPT ![j] = 0]]
    BY DEF QI!Forget
  <2>2. PICK e : e = h /\ e = [at |-> at, pos |-> pos]
    BY <1>2
  <2>3. [h EXCEPT !.pos = [h.pos EXCEPT ![j] = 0]] = [e EXCEPT !.pos = p]
    BY <1>1, <1>3, <2>2
  <2>4. [e EXCEPT !.pos = p] = [at |-> at, pos |-> p]
    BY <2>2
  <2> QED
    BY <2>1, <2>3, <2>4
<1>5. \A i \in DOMAIN at : at[i] \in Ranks /\ at[i] # j /\ pos[at[i]] = i
  BY <1>1, <1>2 DEF IsHeap, Placed, QI!In
<1>6. Placed(f)
  BY <1>2, <1>3, <1>4, <1>5 DEF Placed, Heaps
<1>7. Ordered(f, Len(f.at))
  BY <1>1, <1>4 DEF IsHeap, Ordered
<1>8. QI!In(f) = QI!In(h)
  BY <1>1, <1>4 DEF QI!In
<1> QED
  BY <1>4, <1>6, <1>7, <1>8 DEF IsHeap

LEMMA IndexNamesAgree ==
  ASSUME NEW S PROVE QI!Cardinality(S) = Cardinality(S)
BY DEF QI!Cardinality, Cardinality, QI!IsFiniteSet, IsFiniteSet

\* There are as many entries as jobs.
LEMMA SizeOfHeap ==
  ASSUME NEW h, Placed(h)
  PROVE  IsFiniteSet(QI!In(h)) /\ Cardinality(QI!In(h)) = Len(h.at)
<1> DEFINE n == Len(h.at)
<1>1. /\ n \in Nat /\ DOMAIN h.at = 1 .. n /\ h.at \in [1 .. n -> Ranks]
      /\ \A k, m \in 1 .. n : h.at[k] = h.at[m] => k = m
  BY Entries
<1>2. PICK e, D, T : e = h.at /\ D = 1 .. n /\ T = QI!In(h)
  OBVIOUS
<1>3. T = {e[k] : k \in D} /\ e \in [D -> Ranks] /\ \A k, m \in D : e[k] = e[m] => k = m
  BY <1>1, <1>2 DEF QI!In
<1>4. e \in [D -> T]
  BY <1>3
<1>5. e \in Surjection(D, T) /\ e \in Injection(D, T)
  BY <1>3, <1>4 DEF Surjection, Injection, IsInjective
<1>6. IsFiniteSet(D) /\ Cardinality(D) = n
  <2>1. 1 \in Int /\ n \in Int /\ n \in Nat
    BY <1>1
  <2>2. Cardinality(1 .. n) = IF 1 > n THEN 0 ELSE n - 1 + 1
    BY <2>1, FS_Interval
  <2>3. IsFiniteSet(1 .. n)
    BY <2>1, FS_Interval
  <2> QED
    BY <1>2, <2>1, <2>2, <2>3
<1> QED
  BY <1>2, <1>5, <1>6, FS_Surjection

PopTurnsOf(f, x) == f[0] = x /\ \A k \in Nat : f[k + 1] = QI!PopTurn(f[k])

LEMMA PopRuns ==
  ASSUME NEW h, NEW n \in Nat, NEW S, NEW x \in S,
         x = [heap |-> h, jobs |-> <<>>], \A c \in S : QI!PopTurn(c) \in S
  PROVE  \E f : QI!Popped(h, n) = f[n] /\ PopTurnsOf(f, x)
<1> DEFINE turn == [c \in S |-> QI!PopTurn(c)]
           turns == CHOOSE f : f = [k \in Nat |-> IF k = 0 THEN x ELSE QI!PopTurn(f[k - 1])]
<1>1. turn \in [S -> S] /\ \A c \in S : turn[c] = QI!PopTurn(c)
  OBVIOUS
<1>2. PICK g \in [S -> S] : g = turn
  BY <1>1
<1> HIDE DEF turn
<1>3. \A c \in S : g[c] = QI!PopTurn(c)
  BY <1>1, <1>2
<1>4. PICK f : RunOf(f, x, g, S)
  BY TurnsExist
<1>5. \A k \in Nat : k # 0 => k - 1 \in Nat /\ f[k - 1] \in S
  <2>1. f \in [Nat -> S]
    BY <1>4 DEF RunOf
  <2> QED
    BY <2>1
<1>6. f = [k \in Nat |-> IF k = 0 THEN x ELSE QI!PopTurn(f[k - 1])]
  <2>1. \A k \in Nat : k # 0 => g[f[k - 1]] = QI!PopTurn(f[k - 1])
    BY <1>3, <1>5
  <2> QED
    BY <1>4, <2>1 DEF RunOf
<1>7. turns = [k \in Nat |-> IF k = 0 THEN x ELSE QI!PopTurn(turns[k - 1])]
  BY <1>6
<1>8. QI!Popped(h, n) = turns[n]
  BY DEF QI!Popped
<1> HIDE DEF turns
<1>9. turns[0] = x /\ \A k \in Nat : turns[k + 1] = QI!PopTurn(turns[k])
  <2>1. \A k \in Nat : turns[k] = IF k = 0 THEN x ELSE QI!PopTurn(turns[k - 1])
    BY <1>7
  <2>2. \A k \in Nat : k + 1 \in Nat /\ k + 1 # 0 /\ (k + 1) - 1 = k
    OBVIOUS
  <2> QED
    BY <2>1, <2>2
<1>10. PICK e : e = turns
  OBVIOUS
<1> QED
  BY <1>8, <1>9, <1>10 DEF PopTurnsOf

LEMMA PushLoop ==
  ASSUME NEW h, NEW js, Len(js) \in Nat, NEW S, NEW m \in [S -> Nat], NEW x \in S,
         x = [heap |-> h, jobs |-> js], m[x] <= Len(js),
         \A c \in S : QI!PushTurn(c) \in S /\ (QI!PushTurn(c) = c \/ m[QI!PushTurn(c)] < m[c])
  PROVE  \E c \in S : QI!PushedBack(h, js) = c.heap /\ QI!PushTurn(c) = c
<1> DEFINE turn == [c \in S |-> QI!PushTurn(c)]
           turns == CHOOSE f : f = [k \in Nat |-> IF k = 0 THEN x ELSE QI!PushTurn(f[k - 1])]
<1>1. turn \in [S -> S] /\ \A c \in S : turn[c] = QI!PushTurn(c)
  OBVIOUS
<1>2. PICK g \in [S -> S] : g = turn
  BY <1>1
<1> HIDE DEF turn
<1>3. \A c \in S : g[c] = QI!PushTurn(c)
  BY <1>1, <1>2
<1>4. PICK f : RunOf(f, x, g, S)
  BY TurnsExist
<1>5. \A k \in Nat : k # 0 => k - 1 \in Nat /\ f[k - 1] \in S
  <2>1. f \in [Nat -> S]
    BY <1>4 DEF RunOf
  <2> QED
    BY <2>1
<1>6. f = [k \in Nat |-> IF k = 0 THEN x ELSE QI!PushTurn(f[k - 1])]
  <2>1. \A k \in Nat : k # 0 => g[f[k - 1]] = QI!PushTurn(f[k - 1])
    BY <1>3, <1>5
  <2> QED
    BY <1>4, <2>1 DEF RunOf
<1>7. turns = [k \in Nat |-> IF k = 0 THEN x ELSE QI!PushTurn(turns[k - 1])]
  BY <1>6
<1>8. QI!PushedBack(h, js) = turns[Len(js)].heap
  BY DEF QI!PushedBack
<1> HIDE DEF turns
<1>9. turns[0] = x /\ \A k \in Nat : turns[k + 1] = QI!PushTurn(turns[k])
  <2>1. \A k \in Nat : turns[k] = IF k = 0 THEN x ELSE QI!PushTurn(turns[k - 1])
    BY <1>7
  <2>2. \A k \in Nat : k + 1 \in Nat /\ k + 1 # 0 /\ (k + 1) - 1 = k
    OBVIOUS
  <2> QED
    BY <2>1, <2>2
<1>10. PICK e : e = turns
  OBVIOUS
<1>11. TurnsOf(e, x, g, S)
  BY <1>3, <1>9, <1>10 DEF TurnsOf
<1>12. Shrinks(g, m, S)
  BY <1>3 DEF Shrinks
<1>13. e[Len(js)] \in S /\ g[e[Len(js)]] = e[Len(js)]
  BY <1>11, <1>12, LoopEnds
<1> QED
  BY <1>3, <1>8, <1>10, <1>13

-----------------------------------------------------------------------------
(* The first jobs, and back again.                                         *)

Members(s) == {s[i] : i \in DOMAIN s}
Rising(s) == \A i, k \in DOMAIN s : i < k => s[i] < s[k]

\* Some jobs of a heap of L have been taken, in order: they were the first.
TakenFrom(c, A, L) ==
  /\ c \in [heap : Heaps, jobs : Seq(Ranks)] /\ IsHeap(c.heap) /\ Rising(c.jobs)
  /\ QI!In(c.heap) \cup Members(c.jobs) = A
  /\ \A i \in DOMAIN c.jobs : \A j \in QI!In(c.heap) : c.jobs[i] < j
  /\ Len(c.jobs) + Len(c.heap.at) = L

LEMMA AppendMembers ==
  ASSUME NEW s \in Seq(Ranks), NEW j \in Ranks
  PROVE  LET a == Append(s, j)
         IN  /\ a \in Seq(Ranks) /\ Len(a) = Len(s) + 1 /\ Members(a) = Members(s) \cup {j}
             /\ DOMAIN a = 1 .. Len(s) + 1 /\ a[Len(s) + 1] = j
             /\ \A k \in 1 .. Len(s) : a[k] = s[k]
<1>1. PICK a, n : a = Append(s, j) /\ n = Len(s)
  OBVIOUS
<1>2. /\ a \in Seq(Ranks) /\ Len(a) = n + 1 /\ a[n + 1] = j /\ \A k \in 1 .. n : a[k] = s[k]
      /\ n \in Nat /\ DOMAIN s = 1 .. n
  BY <1>1, AppendProperties
<1>3. DOMAIN a = 1 .. n + 1
  BY <1>2
<1>4. PICK D, E, l : D = 1 .. n /\ E = 1 .. n + 1 /\ l = n + 1
  OBVIOUS
<1>5. E = D \cup {l} /\ a[l] = j /\ \A k \in D : a[k] = s[k]
  BY <1>2, <1>4
<1>6. {a[k] : k \in E} = {s[k] : k \in D} \cup {j}
  BY <1>5
<1>7. Members(a) = Members(s) \cup {j}
  BY <1>2, <1>3, <1>4, <1>6 DEF Members
<1> QED
  BY <1>1, <1>2, <1>3, <1>7

LEMMA PopTurnTakes ==
  ASSUME Ranks \subseteq Nat, NEW A, NEW L \in Nat, NEW c, TakenFrom(c, A, L)
  PROVE  /\ TakenFrom(QI!PopTurn(c), A, L)
         /\ Len(c.jobs) < L => Len(QI!PopTurn(c).jobs) = Len(c.jobs) + 1
         /\ Len(c.jobs) >= L => QI!PopTurn(c) = c
<1>1. PICK h, s : h = c.heap /\ s = c.jobs
  OBVIOUS
<1>2. /\ IsHeap(h) /\ s \in Seq(Ranks) /\ Rising(s) /\ QI!In(h) \cup Members(s) = A
      /\ (\A i \in DOMAIN s : \A j \in QI!In(h) : s[i] < j) /\ Len(s) + Len(h.at) = L
  BY <1>1 DEF TakenFrom
<1>3. Placed(h) /\ h.at \in Seq(Ranks) /\ Len(h.at) \in Nat /\ Len(s) \in Nat
  BY <1>2 DEF IsHeap, Placed, Heaps
<1>4. CASE h.at = <<>>
  <2>1. QI!PopTurn(c) = c /\ Len(h.at) = 0
    BY <1>1, <1>4 DEF QI!PopTurn
  <2> QED
    BY <1>1, <1>2, <1>3, <2>1
<1>5. CASE h.at # <<>>
  <2>1. PICK d, j, a : d = QI!HeapPop(h) /\ j = h.at[1] /\ a = Append(s, j)
    OBVIOUS
  <2>2. IsHeap(d) /\ Len(d.at) + 1 = Len(h.at) /\ QI!In(d) = QI!In(h) \ {j}
    BY <1>2, <1>5, <2>1, PopWorks
  <2>3. 1 \in 1 .. Len(h.at)
    BY <1>3, <1>5, EmptySeq
  <2>4. j \in Ranks /\ j \in QI!In(h)
    BY <1>3, <2>1, <2>3, Entries DEF QI!In
  <2>5. /\ a \in Seq(Ranks) /\ Len(a) = Len(s) + 1 /\ Members(a) = Members(s) \cup {j}
        /\ DOMAIN a = 1 .. Len(s) + 1 /\ a[Len(s) + 1] = j /\ \A k \in 1 .. Len(s) : a[k] = s[k]
    BY <1>2, <2>1, <2>4, AppendMembers
  <2>6. \A i \in QI!In(d) : j < i
    <3> SUFFICES ASSUME NEW i \in QI!In(d) PROVE j < i
      OBVIOUS
    <3>1. PICK k \in 1 .. Len(h.at) : i = h.at[k] /\ i # j
      BY <1>3, <2>2, Contents DEF UpTo
    <3>2. j <= i
      BY <1>2, <2>1, <3>1, RootIsFirst
    <3>3. i \in Nat /\ j \in Nat
      BY <1>3, <2>4, <3>1, Contents, Entries
    <3> QED
      BY <3>1, <3>2, <3>3
  <2>7. \A i \in 1 .. Len(s) : s[i] < j /\ s[i] \in Nat
    <3> SUFFICES ASSUME NEW i \in 1 .. Len(s) PROVE s[i] < j /\ s[i] \in Nat
      OBVIOUS
    <3>1. i \in DOMAIN s /\ s[i] \in Ranks
      BY <1>2
    <3> QED
      BY <1>2, <2>4, <3>1
  <2>8. Rising(a)
    <3> SUFFICES ASSUME NEW i \in 1 .. Len(s) + 1, NEW k \in 1 .. Len(s) + 1, i < k PROVE a[i] < a[k]
      BY <2>5 DEF Rising
    <3>1. i \in 1 .. Len(s) /\ a[i] = s[i]
      BY <1>3, <2>5
    <3>2. CASE k = Len(s) + 1
      BY <2>5, <2>7, <3>1, <3>2
    <3>3. CASE k \in 1 .. Len(s)
      BY <1>2, <2>5, <3>1, <3>3 DEF Rising
    <3> QED
      BY <1>3, <3>2, <3>3
  <2>9. \A i \in DOMAIN a : \A k \in QI!In(d) : a[i] < k
    <3> SUFFICES ASSUME NEW i \in 1 .. Len(s) + 1, NEW k \in QI!In(d) PROVE a[i] < k
      BY <2>5
    <3>1. CASE i = Len(s) + 1
      BY <2>5, <2>6, <3>1
    <3>2. CASE i \in 1 .. Len(s)
      BY <1>2, <2>2, <2>5, <3>2
    <3> QED
      BY <1>3, <3>1, <3>2
  <2>10. PICK e : e = QI!PopTurn(c) /\ e = [heap |-> d, jobs |-> a] /\ e.heap = d /\ e.jobs = a
    <3>1. c.heap.at # <<>>
      BY <1>1, <1>5
    <3>2. QI!PopTurn(c) = [heap |-> QI!HeapPop(c.heap), jobs |-> Append(c.jobs, c.heap.at[1])]
      BY <3>1 DEF QI!PopTurn
    <3>3. QI!PopTurn(c) = [heap |-> d, jobs |-> a]
      BY <1>1, <2>1, <3>2
    <3> QED
      BY <3>3
  <2>11. QI!In(d) \cup Members(a) = A /\ Len(a) + Len(d.at) = L
    <3>1. QI!In(d) \cup Members(a) = A
      BY <1>2, <2>2, <2>4, <2>5
    <3>2. PICK l \in Nat, k \in Nat, b \in Nat : l = Len(s) /\ k = Len(h.at) /\ b = Len(d.at)
      BY <1>3, <2>2, Entries DEF IsHeap
    <3>3. l + k = L /\ b + 1 = k /\ Len(a) = l + 1
      BY <1>2, <2>2, <2>5, <3>2
    <3>4. (l + 1) + b = L
      BY <3>3
    <3> QED
      BY <3>1, <3>2, <3>3, <3>4
  <2>12. d \in Heaps /\ Len(d.at) \in Nat
    BY <2>2, Entries DEF IsHeap, Placed
  <2>13. TakenFrom(e, A, L)
    BY <2>2, <2>5, <2>8, <2>9, <2>10, <2>11, <2>12 DEF TakenFrom
  <2>14. PICK l \in Nat, k \in Nat : l = Len(s) /\ k = Len(h.at) /\ k # 0
    BY <1>3, <2>3
  <2>15. l + k = L /\ Len(e.jobs) = l + 1 /\ Len(c.jobs) = l
    BY <1>1, <1>2, <2>5, <2>10, <2>14
  <2>16. l < L
    BY <2>14, <2>15
  <2> QED
    BY <2>10, <2>13, <2>14, <2>15, <2>16
<1> QED
  BY <1>4, <1>5

LEMMA PoppedWorks ==
  ASSUME Ranks \subseteq Nat, NEW h, IsHeap(h), NEW n \in Nat
  PROVE  LET p == QI!Popped(h, n)
         IN  TakenFrom(p, QI!In(h), Len(h.at)) /\ Len(p.jobs) = IF n < Len(h.at) THEN n ELSE Len(h.at)
<1>1. PICK A, L : A = QI!In(h) /\ L = Len(h.at) /\ L \in Nat /\ h \in Heaps
  BY Entries DEF IsHeap, Placed
<1>2. PICK x : x = [heap |-> h, jobs |-> <<>>]
  OBVIOUS
<1>3. TakenFrom(x, A, L) /\ Len(x.jobs) = 0
  <2>1. x.heap = h /\ x.jobs = <<>> /\ DOMAIN x.jobs = {} /\ <<>> \in Seq(Ranks)
    BY <1>2
  <2> QED
    BY <1>1, <1>2, <2>1 DEF TakenFrom, Rising, Members
<1>4. PICK S : S = {c \in [heap : Heaps, jobs : Seq(Ranks)] : TakenFrom(c, A, L)}
  OBVIOUS
<1>5. \A c : c \in S <=> TakenFrom(c, A, L)
  BY <1>4 DEF TakenFrom
<1>6. x \in S /\ \A c \in S : QI!PopTurn(c) \in S
  BY <1>1, <1>3, <1>5, PopTurnTakes
<1>7. PICK f : QI!Popped(h, n) = f[n] /\ PopTurnsOf(f, x)
  BY <1>2, <1>6, PopRuns
<1> DEFINE K == {k \in Nat : TakenFrom(f[k], A, L) /\ Len(f[k].jobs) = IF k < L THEN k ELSE L}
<1>8. 0 \in K
  <2>1. f[0] = x
    BY <1>7 DEF PopTurnsOf
  <2>2. 0 = IF 0 < L THEN 0 ELSE L
    BY <1>1
  <2> QED
    BY <1>3, <2>1, <2>2
<1>9. ASSUME NEW k \in Nat, k \in K PROVE k + 1 \in K
  <2>1. PICK c, d : c = f[k] /\ d = f[k + 1] /\ d = QI!PopTurn(c)
    BY <1>7 DEF PopTurnsOf
  <2>2. TakenFrom(c, A, L) /\ Len(c.jobs) = IF k < L THEN k ELSE L
    BY <1>9, <2>1
  <2>3. TakenFrom(d, A, L) /\ (Len(c.jobs) < L => Len(d.jobs) = Len(c.jobs) + 1) /\ (Len(c.jobs) >= L => d = c)
    <3>1. L \in Nat /\ TakenFrom(c, A, L)
      BY <1>1, <2>2
    <3>2. /\ TakenFrom(QI!PopTurn(c), A, L)
          /\ Len(c.jobs) < L => Len(QI!PopTurn(c).jobs) = Len(c.jobs) + 1
          /\ Len(c.jobs) >= L => QI!PopTurn(c) = c
      BY <3>1, PopTurnTakes
    <3> QED
      BY <2>1, <3>2
  <2>4. Len(d.jobs) = IF k + 1 < L THEN k + 1 ELSE L
    BY <1>1, <2>2, <2>3
  <2>5. k + 1 \in Nat /\ f[k + 1] = d
    BY <2>1
  <2> QED
    BY <2>3, <2>4, <2>5
<1>10. n \in K
  <2> HIDE DEF K
  <2> QED
    BY <1>8, <1>9, Induction
<1> QED
  BY <1>1, <1>7, <1>10

LEMMA TailMembers ==
  ASSUME Ranks \subseteq Nat, NEW t \in Seq(Ranks), t # <<>>, Rising(t)
  PROVE  /\ Tail(t) \in Seq(Ranks) /\ Head(t) \in Ranks /\ Len(Tail(t)) < Len(t)
         /\ Members(t) = Members(Tail(t)) \cup {Head(t)}
         /\ Rising(Tail(t)) /\ Head(t) \notin Members(Tail(t))
<1>1. PICK j, r : j = Head(t) /\ r = Tail(t)
  OBVIOUS
<1>2. PICK n \in Nat : Len(t) = n + 1
  <2>1. PICK l \in Nat : l = Len(t)
    OBVIOUS
  <2>2. l # 0
    BY <2>1, EmptySeq
  <2>3. l - 1 \in Nat /\ l = (l - 1) + 1
    BY <2>2
  <2> QED
    BY <2>1, <2>3
<1>3. DOMAIN t = 1 .. n + 1 /\ (\A k \in 1 .. n + 1 : t[k] \in Ranks /\ t[k] \in Nat)
      /\ \A i, k \in 1 .. n + 1 : i < k => t[i] < t[k]
  <2>1. DOMAIN t = 1 .. n + 1
    BY <1>2
  <2>2. \A k \in DOMAIN t : t[k] \in Ranks
    OBVIOUS
  <2>3. \A k \in 1 .. n + 1 : t[k] \in Ranks /\ t[k] \in Nat
    BY <2>1, <2>2
  <2>4. \A i, k \in DOMAIN t : i < k => t[i] < t[k]
    BY DEF Rising
  <2> QED
    BY <2>1, <2>3, <2>4
<1>4. j = t[1] /\ j \in Ranks /\ 1 \in 1 .. n + 1
  BY <1>1, <1>3, HeadTailProperties
<1>5. r \in Seq(Ranks) /\ Len(r) = n
  BY <1>1, <1>2, HeadTailProperties
<1>6. DOMAIN r = 1 .. n
  BY <1>5
<1>7. ASSUME NEW k \in 1 .. n PROVE r[k] = t[k + 1] /\ k + 1 \in 1 .. n + 1 /\ 1 < k + 1
  <2>1. k \in 1 .. Len(Tail(t))
    BY <1>1, <1>5
  <2>2. Tail(t)[k] = t[k + 1]
    BY <2>1, HeadTailProperties
  <2>3. k + 1 \in 1 .. n + 1 /\ 1 < k + 1
    OBVIOUS
  <2> QED
    BY <1>1, <2>2, <2>3
<1>8. ASSUME NEW k \in 1 .. n + 1, k # 1 PROVE \E i \in 1 .. n : t[k] = r[i]
  <2>1. k - 1 \in 1 .. n /\ (k - 1) + 1 = k
    BY <1>8
  <2> QED
    BY <1>7, <2>1
<1>9. Members(t) = Members(r) \cup {j}
  <2>1. PICK D, E : D = 1 .. n /\ E = 1 .. n + 1
    OBVIOUS
  <2>2. \A k \in E : t[k] = j \/ \E i \in D : t[k] = r[i]
    BY <1>4, <1>8, <2>1
  <2>3. (\A i \in D : \E k \in E : r[i] = t[k]) /\ \E k \in E : j = t[k]
    BY <1>4, <1>7, <2>1
  <2>4. Members(t) = {t[k] : k \in E} /\ Members(r) = {r[k] : k \in D}
    BY <1>3, <1>6, <2>1 DEF Members
  <2> QED
    BY <2>2, <2>3, <2>4
<1>10. Rising(r)
  <2> SUFFICES ASSUME NEW i \in 1 .. n, NEW k \in 1 .. n, i < k PROVE r[i] < r[k]
    BY <1>6 DEF Rising
  <2>1. i + 1 \in 1 .. n + 1 /\ k + 1 \in 1 .. n + 1 /\ i + 1 < k + 1
    OBVIOUS
  <2>2. t[i + 1] < t[k + 1]
    BY <1>3, <2>1
  <2> QED
    BY <1>7, <2>2
<1>11. j \notin Members(r)
  <2>1. \A k \in 1 .. n : j < r[k] /\ j \in Nat /\ r[k] \in Nat
    BY <1>3, <1>4, <1>7
  <2>2. \A k \in 1 .. n : j # r[k]
    BY <2>1
  <2> QED
    BY <1>6, <2>2 DEF Members
<1> QED
  BY <1>1, <1>2, <1>4, <1>5, <1>9, <1>10, <1>11

\* Ranks that go back: all of them, in the end.
LEMMA PushedBackWorks ==
  ASSUME Ranks \subseteq Nat, NEW A, NEW L, NEW p, TakenFrom(p, A, L)
  PROVE  IsHeap(QI!PushedBack(p.heap, p.jobs)) /\ QI!In(QI!PushedBack(p.heap, p.jobs)) = A
<1> DEFINE S == {c \in [heap : Heaps, jobs : Seq(Ranks)] :
                   /\ IsHeap(c.heap) /\ Rising(c.jobs) /\ Members(c.jobs) \cap QI!In(c.heap) = {}
                   /\ QI!In(c.heap) \cup Members(c.jobs) = A}
           m == [c \in S |-> Len(c.jobs)]
<1>1. PICK h, s, x : h = p.heap /\ s = p.jobs /\ x = [heap |-> h, jobs |-> s]
  OBVIOUS
<1>2. /\ IsHeap(h) /\ s \in Seq(Ranks) /\ Rising(s) /\ QI!In(h) \cup Members(s) = A
      /\ (\A i \in DOMAIN s : \A j \in QI!In(h) : s[i] < j) /\ h \in Heaps
  BY <1>1 DEF TakenFrom
<1>3. Members(s) \cap QI!In(h) = {}
  <2>1. QI!In(h) \subseteq Nat
    BY <1>2, Contents DEF IsHeap
  <2>2. \A i \in DOMAIN s : s[i] \notin QI!In(h)
    BY <1>2, <2>1
  <2> QED
    BY <2>2 DEF Members
<1>4. x \in S
  <2>1. x.heap = h /\ x.jobs = s
    BY <1>1
  <2> QED
    BY <1>1, <1>2, <1>3, <2>1
<1>5. ASSUME NEW c \in S
      PROVE  /\ QI!PushTurn(c) \in S
             /\ QI!PushTurn(c) = c \/ Len(QI!PushTurn(c).jobs) < Len(c.jobs)
             /\ QI!PushTurn(c) = c => IsHeap(c.heap) /\ QI!In(c.heap) = A
  <2>1. PICK d, t : d = c.heap /\ t = c.jobs
    OBVIOUS
  <2>2. /\ IsHeap(d) /\ t \in Seq(Ranks) /\ Rising(t) /\ Members(t) \cap QI!In(d) = {}
        /\ QI!In(d) \cup Members(t) = A
    BY <2>1
  <2>3. CASE t = <<>>
    <3>1. QI!PushTurn(c) = c /\ Members(t) = {}
      BY <2>1, <2>3 DEF QI!PushTurn, Members
    <3> QED
      BY <2>1, <2>2, <3>1
  <2>4. CASE t # <<>>
    <3>1. PICK j, r, q : j = Head(t) /\ r = Tail(t) /\ q = QI!HeapPush(d, j)
      OBVIOUS
    <3>2. /\ r \in Seq(Ranks) /\ j \in Ranks /\ Len(r) < Len(t) /\ Members(t) = Members(r) \cup {j}
          /\ Rising(r) /\ j \notin Members(r)
      BY <2>2, <2>4, <3>1, TailMembers
    <3>6. IsHeap(q) /\ QI!In(q) = QI!In(d) \cup {j}
      <4>1. j \notin QI!In(d)
        BY <2>2, <3>2
      <4> QED
        BY <2>2, <3>1, <3>2, <4>1, PushWorks
    <3>7. PICK e : e = QI!PushTurn(c) /\ e = [heap |-> q, jobs |-> r] /\ e.heap = q /\ e.jobs = r
      <4>1. c.jobs # <<>>
        BY <2>1, <2>4
      <4>2. QI!PushTurn(c) = [heap |-> QI!HeapPush(c.heap, Head(c.jobs)), jobs |-> Tail(c.jobs)]
        BY <4>1 DEF QI!PushTurn
      <4>3. QI!PushTurn(c) = [heap |-> q, jobs |-> r]
        BY <2>1, <3>1, <4>2
      <4> QED
        BY <4>3
    <3>8. q \in Heaps
      BY <3>6 DEF IsHeap, Placed
    <3>9. Members(r) \cap QI!In(q) = {} /\ QI!In(q) \cup Members(r) = A
      BY <2>2, <3>2, <3>6
    <3>10. e \in S
      BY <3>2, <3>6, <3>7, <3>8, <3>9
    <3>11. Len(e.jobs) < Len(c.jobs) /\ e # c
      <4>1. Len(t) \in Nat /\ Len(r) \in Nat
        BY <2>2, <3>2
      <4> QED
        BY <2>1, <3>2, <3>7, <4>1
    <3> QED
      BY <3>7, <3>10, <3>11
  <2> QED
    BY <2>3, <2>4
<1>6. m \in [S -> Nat] /\ m[x] = Len(s) /\ \A c \in S : m[c] = Len(c.jobs)
  <2>1. \A c \in S : Len(c.jobs) \in Nat
    OBVIOUS
  <2>2. x.jobs = s
    BY <1>1
  <2> HIDE DEF S
  <2> QED
    BY <1>4, <2>1, <2>2
<1>7. PICK S2, m2 : S2 = S /\ m2 = m
  OBVIOUS
<1> HIDE DEF S, m
<1>8. \A c \in S2 : QI!PushTurn(c) \in S2 /\ (QI!PushTurn(c) = c \/ m2[QI!PushTurn(c)] < m2[c])
  BY <1>5, <1>6, <1>7
<1>9. x \in S2 /\ m2 \in [S2 -> Nat] /\ m2[x] <= Len(s) /\ Len(s) \in Nat
  BY <1>2, <1>4, <1>6, <1>7
<1>10. PICK c \in S2 : QI!PushedBack(h, s) = c.heap /\ QI!PushTurn(c) = c
  BY <1>1, <1>8, <1>9, PushLoop
<1> QED
  BY <1>1, <1>5, <1>7, <1>10

-----------------------------------------------------------------------------
(* The index.                                                              *)

HeapsAreRight(a, b) ==
  /\ IsHeap(a) /\ b \in [IndexTopics -> Heaps] /\ \A t \in IndexTopics : IsHeap(b[t])
  /\ \A t \in IndexTopics : QI!In(b[t]) = {j \in QI!In(a) : TopicOfRank[j] = t}

\* AnswerIsFirst, of an answer.
AnswerIsRight(r) ==
  LET asked == {j \in r.of : r.topic \in {QI!Any, TopicOfRank[j]}}
  IN  /\ Len(r.jobs) = IF r.n < Cardinality(asked) THEN r.n ELSE Cardinality(asked)
      /\ Members(r.jobs) \subseteq asked /\ Rising(r.jobs)
      /\ \A j \in Members(r.jobs), k \in asked \ Members(r.jobs) : j < k

IndexInv == HeapsAreRight(all, byTopic) /\ AnswerIsRight(answer)

LEMMA EmptyIsHeap == IsHeap(QI!EmptyHeap) /\ QI!In(QI!EmptyHeap) = {}
<1>1. PICK e : e = QI!EmptyHeap
  OBVIOUS
<1>2. PICK p : p = [j \in Ranks |-> 0]
  OBVIOUS
<1>3. p \in [Ranks -> Nat]
  BY <1>2
<1>4. e = [at |-> <<>>, pos |-> p] /\ e.at = <<>> /\ e.pos = p
  BY <1>1, <1>2 DEF QI!EmptyHeap
<1>5. DOMAIN e.at = {} /\ Len(e.at) = 0 /\ <<>> \in Seq(Ranks)
  BY <1>4
<1>6. e \in Heaps
  BY <1>4, <1>5, <1>3 DEF Heaps
<1>7. Placed(e) /\ Ordered(e, Len(e.at)) /\ QI!In(e) = {}
  BY <1>5, <1>6 DEF Placed, Ordered, QI!In
<1> QED
  BY <1>1, <1>7 DEF IsHeap

LEMMA InitIndex ==
  ASSUME QI!Init PROVE IndexInv
<1>1. PICK e : e = QI!EmptyHeap /\ IsHeap(e) /\ QI!In(e) = {} /\ e \in Heaps
  BY EmptyIsHeap DEF IsHeap, Placed
<1>2. all = e /\ byTopic = [t \in IndexTopics |-> e] /\ answer = [topic |-> QI!Any, n |-> 0, of |-> {}, jobs |-> <<>>]
  BY <1>1 DEF QI!Init
<1>3. HeapsAreRight(all, byTopic)
  BY <1>1, <1>2 DEF HeapsAreRight
<1>4. AnswerIsRight(answer)
  <2>1. answer.of = {} /\ answer.jobs = <<>> /\ answer.n = 0 /\ DOMAIN answer.jobs = {} /\ Len(answer.jobs) = 0
    BY <1>2
  <2>2. Cardinality({}) = 0
    BY FS_EmptySet
  <2> QED
    BY <2>1, <2>2 DEF AnswerIsRight, Members, Rising
<1> QED
  BY <1>3, <1>4 DEF IndexInv

\* The heap of a topic, and the one of all, change together.
LEMMA TopicChanges ==
  ASSUME NEW a, NEW b, HeapsAreRight(a, b), NEW t \in IndexTopics, NEW a2, NEW e,
         IsHeap(a2), IsHeap(e), QI!In(e) = {j \in QI!In(a2) : TopicOfRank[j] = t},
         \A j \in Ranks : TopicOfRank[j] # t => (j \in QI!In(a2) <=> j \in QI!In(a))
  PROVE  HeapsAreRight(a2, [b EXCEPT ![t] = e])
<1>1. PICK c : c = [b EXCEPT ![t] = e]
  OBVIOUS
<1>2. c \in [IndexTopics -> Heaps] /\ c[t] = e /\ \A u \in IndexTopics : u # t => c[u] = b[u]
  BY <1>1 DEF HeapsAreRight, IsHeap, Placed
<1>3. QI!In(a) \subseteq Ranks /\ QI!In(a2) \subseteq Ranks
  BY Contents DEF HeapsAreRight, IsHeap
<1>4. ASSUME NEW u \in IndexTopics
      PROVE  IsHeap(c[u]) /\ QI!In(c[u]) = {j \in QI!In(a2) : TopicOfRank[j] = u}
  <2>1. CASE u = t
    BY <1>2, <2>1
  <2>2. CASE u # t
    <3>1. IsHeap(b[u]) /\ QI!In(b[u]) = {j \in QI!In(a) : TopicOfRank[j] = u}
      BY DEF HeapsAreRight
    <3>2. {j \in QI!In(a) : TopicOfRank[j] = u} = {j \in QI!In(a2) : TopicOfRank[j] = u}
      BY <1>3, <2>2
    <3> QED
      BY <1>2, <2>2, <3>1, <3>2
  <2> QED
    BY <2>1, <2>2
<1> QED
  BY <1>1, <1>2, <1>4 DEF HeapsAreRight

LEMMA AddKeepsHeaps ==
  ASSUME NEW a, NEW b, HeapsAreRight(a, b), NEW j \in Ranks, j \notin QI!In(a)
  PROVE  HeapsAreRight(QI!HeapPush(a, j), [b EXCEPT ![TopicOfRank[j]] = QI!HeapPush(b[TopicOfRank[j]], j)])
<1>1. PICK t, h : t = TopicOfRank[j] /\ t \in IndexTopics /\ h = b[t]
  BY IndexAssumption
<1>2. IsHeap(a) /\ IsHeap(h) /\ QI!In(h) = {i \in QI!In(a) : TopicOfRank[i] = t} /\ Ranks \subseteq Nat
  BY <1>1, IndexAssumption DEF HeapsAreRight
<1>3. PICK a2 : a2 = QI!HeapPush(a, j) /\ IsHeap(a2) /\ QI!In(a2) = QI!In(a) \cup {j}
  BY <1>2, PushWorks
<1>4. j \notin QI!In(h)
  BY <1>2
<1>5. PICK e : e = QI!HeapPush(h, j) /\ IsHeap(e) /\ QI!In(e) = QI!In(h) \cup {j}
  BY <1>2, <1>4, PushWorks
<1>6. QI!In(e) = {i \in QI!In(a2) : TopicOfRank[i] = t}
  BY <1>1, <1>2, <1>3, <1>5
<1>7. \A i \in Ranks : TopicOfRank[i] # t => (i \in QI!In(a2) <=> i \in QI!In(a))
  BY <1>1, <1>3
<1>8. HeapsAreRight(a2, [b EXCEPT ![t] = e])
  BY <1>1, <1>3, <1>5, <1>6, <1>7, TopicChanges
<1> QED
  BY <1>1, <1>3, <1>5, <1>8

\* A job leaves a heap, and is forgotten.
LEMMA Leaves ==
  ASSUME Ranks \subseteq Nat, NEW h, IsHeap(h), NEW j \in Ranks, j \in QI!In(h)
  PROVE  LET f == QI!Forget(QI!HeapRemove(h, h.pos[j]), j)
         IN  IsHeap(f) /\ QI!In(f) = QI!In(h) \ {j}
<1>1. PICK i \in 1 .. Len(h.at) : h.at[i] = j /\ h.pos[j] = i
  <2>1. Placed(h)
    BY DEF IsHeap
  <2> QED
    BY <2>1, Entries DEF QI!In
<1>2. PICK d : d = QI!HeapRemove(h, i) /\ IsHeap(d) /\ QI!In(d) = QI!In(h) \ {j}
  BY <1>1, RemoveWorks
<1>3. IsHeap(QI!Forget(d, j)) /\ QI!In(QI!Forget(d, j)) = QI!In(d)
  BY <1>2, ForgetKeeps
<1> QED
  BY <1>1, <1>2, <1>3

LEMMA RemoveKeepsHeaps ==
  ASSUME NEW a, NEW b, HeapsAreRight(a, b), NEW j \in Ranks, j \in QI!In(a),
         NEW t, t = TopicOfRank[j], NEW h, h = b[t]
  PROVE  HeapsAreRight(QI!Forget(QI!HeapRemove(a, a.pos[j]), j),
                       [b EXCEPT ![t] = QI!Forget(QI!HeapRemove(h, h.pos[j]), j)])
<1>1. t \in IndexTopics
  BY IndexAssumption
<1>2. IsHeap(a) /\ IsHeap(h) /\ QI!In(h) = {i \in QI!In(a) : TopicOfRank[i] = t} /\ Ranks \subseteq Nat
  BY <1>1, IndexAssumption DEF HeapsAreRight
<1>3. PICK a2 : a2 = QI!Forget(QI!HeapRemove(a, a.pos[j]), j) /\ IsHeap(a2) /\ QI!In(a2) = QI!In(a) \ {j}
  BY <1>2, Leaves
<1>4. j \in QI!In(h)
  BY <1>2
<1>5. PICK e : e = QI!Forget(QI!HeapRemove(h, h.pos[j]), j) /\ IsHeap(e) /\ QI!In(e) = QI!In(h) \ {j}
  BY <1>2, <1>4, Leaves
<1>6. QI!In(e) = {i \in QI!In(a2) : TopicOfRank[i] = t}
  BY <1>2, <1>3, <1>5
<1>7. \A i \in Ranks : TopicOfRank[i] # t => (i \in QI!In(a2) <=> i \in QI!In(a))
  BY <1>3
<1>8. HeapsAreRight(a2, [b EXCEPT ![t] = e])
  BY <1>1, <1>3, <1>5, <1>6, <1>7, TopicChanges
<1> QED
  BY <1>3, <1>5, <1>8

\* A search answers with the first jobs, and leaves the heap with the same jobs.
LEMMA SearchWorks ==
  ASSUME NEW h, IsHeap(h), NEW n \in Nat, NEW p, p = QI!Popped(h, n),
         NEW A, NEW topic, QI!In(h) = {j \in A : topic \in {QI!Any, TopicOfRank[j]}}
  PROVE  /\ IsHeap(QI!PushedBack(p.heap, p.jobs)) /\ QI!In(QI!PushedBack(p.heap, p.jobs)) = QI!In(h)
         /\ AnswerIsRight([topic |-> topic, n |-> n, of |-> A, jobs |-> p.jobs])
<1>1. PICK B, L : B = QI!In(h) /\ L = Len(h.at) /\ L = Cardinality(B)
  BY SizeOfHeap DEF IsHeap
<1>2. Ranks \subseteq Nat
  BY IndexAssumption
<1>3. TakenFrom(p, B, L) /\ Len(p.jobs) = IF n < L THEN n ELSE L
  BY <1>1, <1>2, PoppedWorks
<1>4. IsHeap(QI!PushedBack(p.heap, p.jobs)) /\ QI!In(QI!PushedBack(p.heap, p.jobs)) = B
  BY <1>2, <1>3, PushedBackWorks
<1>5. PICK r : r = [topic |-> topic, n |-> n, of |-> A, jobs |-> p.jobs]
  OBVIOUS
<1>6. r.topic = topic /\ r.n = n /\ r.of = A /\ r.jobs = p.jobs
  BY <1>5
<1>7. {j \in r.of : r.topic \in {QI!Any, TopicOfRank[j]}} = B
  BY <1>1, <1>6
<1>8. PICK J, T : J = p.jobs /\ T = p.heap
  OBVIOUS
<1>9. /\ Rising(J) /\ QI!In(T) \cup Members(J) = B
      /\ \A i \in DOMAIN J : \A j \in QI!In(T) : J[i] < j
  BY <1>3, <1>8 DEF TakenFrom
<1>10. Members(J) \subseteq B /\ \A j \in Members(J), k \in B \ Members(J) : j < k
  BY <1>9 DEF Members
<1>11. AnswerIsRight(r)
  <2>1. r.n = n /\ r.jobs = J /\ Len(J) = IF n < Cardinality(B) THEN n ELSE Cardinality(B)
    BY <1>1, <1>3, <1>8, <1>6
  <2> QED
    BY <1>7, <1>9, <1>10, <2>1 DEF AnswerIsRight
<1> QED
  BY <1>1, <1>4, <1>5, <1>11

LEMMA FirstKeepsHeaps ==
  ASSUME NEW a, NEW b, HeapsAreRight(a, b), NEW topic \in IndexTopics \cup {QI!Any}, NEW n \in Nat,
         NEW h, h = IF topic = QI!Any THEN a ELSE b[topic],
         NEW p, p = QI!Popped(h, n), NEW f, f = QI!PushedBack(p.heap, p.jobs)
  PROVE  /\ IF topic = QI!Any THEN HeapsAreRight(f, b) ELSE HeapsAreRight(a, [b EXCEPT ![topic] = f])
         /\ AnswerIsRight([topic |-> topic, n |-> n, of |-> QI!In(a), jobs |-> p.jobs])
<1>1. PICK A : A = QI!In(a)
  OBVIOUS
<1>2. A \subseteq Ranks
  BY <1>1, Contents DEF HeapsAreRight, IsHeap
<1>3. IsHeap(h) /\ QI!In(h) = {j \in A : topic \in {QI!Any, TopicOfRank[j]}}
  <2>1. CASE topic = QI!Any
    BY <1>1, <2>1 DEF HeapsAreRight
  <2>2. CASE topic # QI!Any
    <3>1. IsHeap(h) /\ QI!In(h) = {j \in A : TopicOfRank[j] = topic}
      BY <1>1, <2>2 DEF HeapsAreRight
    <3> QED
      BY <2>2, <3>1
  <2> QED
    BY <2>1, <2>2
<1>4. IsHeap(f) /\ QI!In(f) = QI!In(h) /\ AnswerIsRight([topic |-> topic, n |-> n, of |-> A, jobs |-> p.jobs])
  BY <1>3, SearchWorks
<1>5. CASE topic = QI!Any
  <2>1. HeapsAreRight(f, b)
    BY <1>4, <1>5 DEF HeapsAreRight
  <2> QED
    BY <1>1, <1>4, <1>5, <2>1
<1>6. CASE topic # QI!Any
  <2>1. IsHeap(a) /\ topic \in IndexTopics /\ QI!In(f) = {j \in QI!In(a) : TopicOfRank[j] = topic}
    BY <1>1, <1>3, <1>4, <1>6 DEF HeapsAreRight
  <2>2. HeapsAreRight(a, [b EXCEPT ![topic] = f])
    BY <1>4, <2>1, TopicChanges
  <2> QED
    BY <1>1, <1>4, <1>6, <2>2
<1> QED
  BY <1>5, <1>6

LEMMA IndexSteps ==
  ASSUME IndexInv, QI!Next
  PROVE  IndexInv'
<1>1. PICK a, b, r : a = all /\ b = byTopic /\ r = answer
  OBVIOUS
<1>2. PICK a2, b2, r2 : a2 = all' /\ b2 = byTopic' /\ r2 = answer'
  OBVIOUS
<1>3. HeapsAreRight(a, b) /\ AnswerIsRight(r)
  BY <1>1 DEF IndexInv
<1>4. ASSUME NEW j \in Ranks, QI!Add(j) PROVE HeapsAreRight(a2, b2) /\ AnswerIsRight(r2)
  <2>1. j \notin QI!In(a) /\ a2 = QI!HeapPush(a, j) /\ r2 = r
        /\ b2 = [b EXCEPT ![TopicOfRank[j]] = QI!HeapPush(b[TopicOfRank[j]], j)]
    BY <1>1, <1>2, <1>4 DEF QI!Add
  <2> QED
    BY <1>3, <2>1, AddKeepsHeaps
<1>5. ASSUME NEW j \in Ranks, QI!Remove(j) PROVE HeapsAreRight(a2, b2) /\ AnswerIsRight(r2)
  <2>1. PICK t, h : t = TopicOfRank[j] /\ h = b[t]
    OBVIOUS
  <2>2. j \in QI!In(a) /\ a2 = QI!Forget(QI!HeapRemove(a, a.pos[j]), j) /\ r2 = r
        /\ b2 = [b EXCEPT ![t] = QI!Forget(QI!HeapRemove(h, h.pos[j]), j)]
    BY <1>1, <1>2, <1>5, <2>1 DEF QI!Remove
  <2> QED
    BY <1>3, <2>1, <2>2, RemoveKeepsHeaps
<1>6. ASSUME NEW topic \in IndexTopics \cup {QI!Any}, NEW n \in 0 .. MaxFirst, QI!First(topic, n)
      PROVE  HeapsAreRight(a2, b2) /\ AnswerIsRight(r2)
  <2>1. PICK h, p, f : /\ h = IF topic = QI!Any THEN a ELSE b[topic]
                       /\ p = QI!Popped(h, n) /\ f = QI!PushedBack(p.heap, p.jobs)
    OBVIOUS
  <2>2. n \in Nat
    BY IndexAssumption
  <2>3. r2 = [topic |-> topic, n |-> n, of |-> QI!In(a), jobs |-> p.jobs]
        /\ IF topic = QI!Any THEN a2 = f /\ b2 = b ELSE a2 = a /\ b2 = [b EXCEPT ![topic] = f]
    BY <1>1, <1>2, <1>6, <2>1 DEF QI!First
  <2>4. /\ IF topic = QI!Any THEN HeapsAreRight(f, b) ELSE HeapsAreRight(a, [b EXCEPT ![topic] = f])
        /\ AnswerIsRight([topic |-> topic, n |-> n, of |-> QI!In(a), jobs |-> p.jobs])
    BY <1>3, <2>1, <2>2, FirstKeepsHeaps
  <2> QED
    BY <2>3, <2>4
<1>7. HeapsAreRight(a2, b2) /\ AnswerIsRight(r2)
  BY <1>4, <1>5, <1>6 DEF QI!Next
<1> QED
  BY <1>2, <1>7 DEF IndexInv

LEMMA IndexInvIsEnough ==
  ASSUME IndexInv
  PROVE  QI!IndexIsRight
<1>1. PICK a, b, r : a = all /\ b = byTopic /\ r = answer
  OBVIOUS
<1>2. HeapsAreRight(a, b) /\ AnswerIsRight(r)
  BY <1>1 DEF IndexInv
<1>3. ASSUME NEW h \in QI!Heaps PROVE IsHeap(h)
  BY <1>1, <1>2 DEF QI!Heaps, HeapsAreRight
<1>4. QI!PositionsAreRight
  BY <1>3 DEF IsHeap, Placed, QI!PositionsAreRight
<1>5. QI!HeapOrder
  <2> SUFFICES ASSUME NEW h \in QI!Heaps, NEW i \in DOMAIN h.at, i > 1 PROVE ~(h.at[i] < h.at[i \div 2])
    BY DEF QI!HeapOrder, QI!Less
  <2>1. PICK L \in Nat : L = Len(h.at) /\ i \in 1 .. L /\ Placed(h) /\ Ordered(h, L)
    BY <1>3, Entries DEF IsHeap
  <2>2. i \in 2 .. L /\ i \div 2 \in 1 .. L
    BY <2>1, Parents
  <2>3. h.at[i \div 2] <= h.at[i] /\ h.at[i] \in Nat /\ h.at[i \div 2] \in Nat
    <3>1. h.at[i \div 2] <= h.at[i]
      BY <2>1, <2>2 DEF Ordered
    <3>2. Ranks \subseteq Nat
      BY IndexAssumption
    <3> QED
      BY <2>1, <2>2, <3>1, <3>2, EntriesUpTo
  <2> QED
    BY <2>3
<1>6. QI!IndexesAgree
  <2>1. \A t \in IndexTopics : QI!In(byTopic[t]) = {j \in QI!In(all) : TopicOfRank[j] = t}
    BY <1>1, <1>2 DEF HeapsAreRight
  <2>2. \A h \in QI!Heaps : QI!Cardinality(QI!In(h)) = Len(h.at)
    BY <1>3, SizeOfHeap, IndexNamesAgree DEF IsHeap
  <2> QED
    BY <2>1, <2>2 DEF QI!IndexesAgree
<1>7. QI!AnswerIsFirst
  <2>1. PICK asked, given : asked = {j \in r.of : r.topic \in {QI!Any, TopicOfRank[j]}} /\ given = Members(r.jobs)
    OBVIOUS
  <2>2. /\ Len(r.jobs) = IF r.n < Cardinality(asked) THEN r.n ELSE Cardinality(asked)
        /\ given \subseteq asked /\ Rising(r.jobs) /\ \A j \in given, k \in asked \ given : j < k
    BY <1>2, <2>1 DEF AnswerIsRight
  <2>3. /\ Len(r.jobs) = IF r.n < QI!Cardinality(asked) THEN r.n ELSE QI!Cardinality(asked)
        /\ \A i, k \in DOMAIN r.jobs : i < k => r.jobs[i] < r.jobs[k]
    BY <2>2, IndexNamesAgree DEF Rising
  <2> QED
    BY <1>1, <2>1, <2>2, <2>3 DEF QI!AnswerIsFirst, Members
<1> QED
  BY <1>4, <1>5, <1>6, <1>7 DEF QI!IndexIsRight

\* The index gives the queued jobs in pull order: its heaps keep their order and the
\* positions of their entries through every push, every pop and every removal from the middle
\* (the jobHeap of queue.go and container/heap), the two indexes agree, and a search
\* (queuedJobs.first) answers with the first jobs and leaves none of them out.
THEOREM IndexGivesTheFirst == QI!Spec => []IndexIsRight
<1>1. QI!Init => IndexInv
  BY InitIndex
<1>2. IndexInv /\ [QI!Next]_QI!vars => IndexInv'
  <2>1. ASSUME IndexInv, UNCHANGED QI!vars PROVE IndexInv'
    <3>1. all' = all /\ byTopic' = byTopic /\ answer' = answer
      BY <2>1 DEF QI!vars
    <3> QED
      BY <2>1, <3>1 DEF IndexInv
  <2> QED
    BY <2>1, IndexSteps
<1>3. IndexInv => IndexIsRight
  BY IndexInvIsEnough DEF IndexIsRight
<1> QED
  BY <1>1, <1>2, <1>3, PTL DEF QI!Spec

-----------------------------------------------------------------------------
(* The list of the jobs: orders, and what is sorted by them.               *)

\* A strict order R of the elements of F.
Orders(F, R) ==
  /\ \A x, y \in F : x # y => (<<x, y>> \in R <=> <<y, x>> \notin R)
  /\ \A x \in F : <<x, x>> \notin R
  /\ \A x, y, z \in F : <<x, y>> \in R /\ <<y, z>> \in R => <<x, z>> \in R

Preceding(F, R, x) == {y \in F : <<y, x>> \in R}

\* list has each element of F once, in order.
Lists(list, F, R) ==
  /\ list \in [1 .. Cardinality(F) -> F]
  /\ \A m, n \in DOMAIN list : m < n => <<list[m], list[n]>> \in R

LEMMA RankIsOneToOne ==
  ASSUME NEW F, NEW R, IsFiniteSet(F), Orders(F, R)
  PROVE  /\ \A x \in F : Cardinality(Preceding(F, R, x)) \in 0 .. Cardinality(F) - 1
         /\ \A x, y \in F : <<x, y>> \in R => Cardinality(Preceding(F, R, x)) < Cardinality(Preceding(F, R, y))
<1>1. ASSUME NEW x \in F
      PROVE  /\ IsFiniteSet(Preceding(F, R, x))
             /\ Cardinality(Preceding(F, R, x)) \in 0 .. Cardinality(F) - 1
  <2>1. Preceding(F, R, x) \subseteq F \ {x}
    BY DEF Preceding, Orders
  <2>2. IsFiniteSet(F \ {x}) /\ Cardinality(F \ {x}) = Cardinality(F) - 1 /\ Cardinality(F) \in Nat
    BY FS_RemoveElement, FS_CardinalityType
  <2> QED
    BY <2>1, <2>2, FS_Subset, FS_CardinalityType
<1>2. ASSUME NEW x \in F, NEW y \in F, <<x, y>> \in R
      PROVE  Cardinality(Preceding(F, R, x)) < Cardinality(Preceding(F, R, y))
  <2>1. Preceding(F, R, x) \subseteq Preceding(F, R, y) /\ x \in Preceding(F, R, y) /\ x \notin Preceding(F, R, x)
    BY <1>2 DEF Preceding, Orders
  <2>2. /\ Cardinality(Preceding(F, R, x)) <= Cardinality(Preceding(F, R, y))
        /\ Cardinality(Preceding(F, R, x)) # Cardinality(Preceding(F, R, y))
    BY <1>1, <2>1, FS_Subset
  <2> QED
    BY <1>1, <2>2
<1> QED
  BY <1>1, <1>2

LEMMA SortExists ==
  ASSUME NEW F, NEW R, IsFiniteSet(F), Orders(F, R)
  PROVE  \E list : Lists(list, F, R)
<1> DEFINE N == Cardinality(F)
           rank == [x \in F |-> Cardinality(Preceding(F, R, x)) + 1]
<1>1. N \in Nat /\ IsFiniteSet(1 .. N) /\ Cardinality(1 .. N) = N
  BY FS_CardinalityType, FS_Interval
<1>2. rank \in [F -> 1 .. N]
  <2>1. \A x \in F : Cardinality(Preceding(F, R, x)) + 1 \in 1 .. N
    BY <1>1, RankIsOneToOne
  <2> QED
    BY <2>1
<1>3. \A x, y \in F : <<x, y>> \in R => rank[x] < rank[y]
  <2>1. \A x, y \in F : <<x, y>> \in R => Cardinality(Preceding(F, R, x)) + 1 < Cardinality(Preceding(F, R, y)) + 1
    BY RankIsOneToOne
  <2> QED
    BY <2>1
<1> HIDE DEF rank
<1>4. \A x, y \in F : rank[x] = rank[y] => x = y
  <2> SUFFICES ASSUME NEW x \in F, NEW y \in F, x # y PROVE rank[x] # rank[y]
    OBVIOUS
  <2>1. rank[x] \in Int /\ rank[y] \in Int /\ (<<x, y>> \in R \/ <<y, x>> \in R)
    BY <1>1, <1>2 DEF Orders
  <2> QED
    BY <1>3, <2>1
<1>5. rank \in Injection(F, 1 .. N)
  BY <1>2, <1>4, Fun_IsInj
<1>6. rank \in Surjection(F, 1 .. N)
  BY <1>1, <1>5, FS_Injection
<1>7. \A n \in 1 .. N : \E x \in F : rank[x] = n
  BY <1>6, Fun_SurjectionProperties
<1> DEFINE list == [n \in 1 .. N |-> CHOOSE x \in F : rank[x] = n]
<1>8. \A n \in 1 .. N : list[n] \in F /\ rank[list[n]] = n
  BY <1>7
<1>9. list \in [1 .. N -> F]
  BY <1>8
<1> HIDE DEF list
<1>10. \A m, n \in DOMAIN list : m < n => <<list[m], list[n]>> \in R
  <2> SUFFICES ASSUME NEW m \in 1 .. N, NEW n \in 1 .. N, m < n PROVE <<list[m], list[n]>> \in R
    BY <1>9
  <2>1. list[m] # list[n] /\ ~(rank[list[n]] < rank[list[m]])
    BY <1>8, <1>1
  <2> QED
    BY <1>3, <1>8, <2>1 DEF Orders
<1> QED
  BY <1>9, <1>10 DEF Lists

\* In such a list the place of an element is one more than the number of those before it.
LEMMA PlaceIsRank ==
  ASSUME NEW F, NEW R, IsFiniteSet(F), Orders(F, R), NEW list, Lists(list, F, R), NEW x \in F
  PROVE  \E n \in 1 .. Cardinality(F) : list[n] = x /\ Cardinality(Preceding(F, R, x)) = n - 1
<1> DEFINE N == Cardinality(F)
<1>1. N \in Nat /\ IsFiniteSet(1 .. N) /\ Cardinality(1 .. N) = N
  BY FS_CardinalityType, FS_Interval
<1>2. list \in [1 .. N -> F] /\ \A m, n \in 1 .. N : m < n => <<list[m], list[n]>> \in R
  BY DEF Lists
<1>3. \A m, n \in 1 .. N : list[m] = list[n] => m = n
  <2> SUFFICES ASSUME NEW m \in 1 .. N, NEW n \in 1 .. N, m < n PROVE list[m] # list[n]
    BY <1>1
  <2> QED
    BY <1>2 DEF Orders
<1>4. list \in Injection(1 .. N, F)
  BY <1>2, <1>3, Fun_IsInj
<1>5. list \in Surjection(1 .. N, F)
  BY <1>1, <1>4, FS_Injection
<1>55. \A y \in F : \E m \in 1 .. N : list[m] = y
  BY <1>5 DEF Surjection
<1> HIDE DEF N
<1>6. PICK n \in 1 .. N : list[n] = x
  BY <1>55
<1> DEFINE before == [m \in 1 .. n - 1 |-> list[m]]
<1>7. Preceding(F, R, x) = {list[m] : m \in 1 .. n - 1}
  <2>1. \A y \in Preceding(F, R, x) : \E m \in 1 .. n - 1 : list[m] = y
    <3> SUFFICES ASSUME NEW y \in Preceding(F, R, x) PROVE \E m \in 1 .. n - 1 : list[m] = y
      OBVIOUS
    <3>1. PICK m \in 1 .. N : list[m] = y
      BY <1>55 DEF Preceding
    <3>2. <<list[m], list[n]>> \in R
      BY <1>6, <3>1 DEF Preceding
    <3>3. ~(n < m) /\ n # m
      BY <1>2, <1>6, <3>1, <3>2 DEF Orders
    <3> QED
      BY <1>1, <3>1, <3>3
  <2>2. \A m \in 1 .. n - 1 : list[m] \in Preceding(F, R, x)
    BY <1>1, <1>2, <1>6 DEF Preceding
  <2> QED
    BY <2>1, <2>2
<1>8. before \in Bijection(1 .. n - 1, Preceding(F, R, x))
  <2>1. before \in [1 .. n - 1 -> Preceding(F, R, x)]
    BY <1>7
  <2>2. \A k, m \in 1 .. n - 1 : before[k] = before[m] => k = m
    BY <1>1, <1>3
  <2>3. \A y \in Preceding(F, R, x) : \E m \in 1 .. n - 1 : before[m] = y
    BY <1>7
  <2> HIDE DEF before
  <2> QED
    BY <2>1, <2>2, <2>3, Fun_IsBij
<1>9. Cardinality(Preceding(F, R, x)) = n - 1
  <2>1. n - 1 \in Nat /\ IsFiniteSet(1 .. n - 1) /\ Cardinality(1 .. n - 1) = n - 1
    BY <1>1, <1>6, FS_Interval
  <2>2. ExistsBijection(1 .. n - 1, Preceding(F, R, x))
    BY <1>8 DEF ExistsBijection
  <2> QED
    BY <2>1, <2>2, FS_CountingElements
<1> QED
  BY <1>6, <1>9 DEF N

\* The pages of limit places divide the places 1 .. N.
LEMMA PagesDivide ==
  ASSUME NEW N \in Nat, NEW limit \in Nat \ {0}, NEW n \in 1 .. N, NEW p \in 1 .. JL!TotalPages(N, limit) + 1
  PROVE  (p - 1) * limit < n /\ n <= p * limit <=> p = ((n - 1) \div limit) + 1
<1> DEFINE q == (n - 1) \div limit
           a == q * limit
<1>1. q \in Nat /\ a \in Nat /\ a <= n - 1 /\ n - 1 < a + limit
  OBVIOUS
<1>2. p \in Nat /\ p # 0
  <2>1. JL!TotalPages(N, limit) \in Nat
    <3>1. N + limit - 1 \in Nat
      OBVIOUS
    <3> QED
      BY <3>1 DEF JL!TotalPages
  <2> QED
    BY <2>1
<1>3. (q + 1) * limit = a + limit
  BY <1>1
<1>4. CASE p = q + 1
  BY <1>1, <1>3, <1>4
<1>5. CASE p <= q
  <2>1. p * limit <= a
    BY <1>1, <1>2, <1>5
  <2> QED
    BY <1>1, <1>2, <1>5, <2>1
<1>6. CASE p >= q + 2
  <2>1. (p - 1) * limit >= (q + 1) * limit /\ (p - 1) * limit \in Nat
    BY <1>1, <1>2, <1>6
  <2> QED
    BY <1>1, <1>2, <1>3, <1>6, <2>1
<1> QED
  BY <1>1, <1>2, <1>4, <1>5, <1>6

LEMMA PageIsInRange ==
  ASSUME NEW N \in Nat, NEW limit \in Nat \ {0}, NEW n \in 1 .. N
  PROVE  /\ ((n - 1) \div limit) + 1 \in 1 .. JL!TotalPages(N, limit)
         /\ JL!TotalPages(N, limit) \in Nat
         /\ n <= JL!TotalPages(N, limit) * limit
<1> DEFINE q == (n - 1) \div limit
           t == (N + limit - 1) \div limit
<1>1. q \in Nat /\ q * limit <= n - 1 /\ q * limit \in Nat
  OBVIOUS
<1>2. t \in Nat /\ N + limit - 1 < t * limit + limit /\ t * limit \in Nat
  <2>1. N + limit - 1 \in Nat
    OBVIOUS
  <2> QED
    BY <2>1
<1>3. q + 1 <= t
  <2> SUFFICES ASSUME t <= q PROVE FALSE
    BY <1>1, <1>2
  <2>1. t * limit <= q * limit
    BY <1>1, <1>2
  <2> QED
    BY <1>1, <1>2, <2>1
<1> QED
  BY <1>1, <1>2, <1>3 DEF JL!TotalPages

-----------------------------------------------------------------------------
(* Keys that are compared one after the other.                             *)

\* The first number that differs decides.
Lex(a, b) == \E n \in DOMAIN a : a[n] < b[n] /\ \A m \in 1 .. n - 1 : a[m] = b[m]

\* It is the first that differs that Lex finds.
LEMMA LexDecides ==
  ASSUME NEW N \in Nat, NEW a \in [1 .. N -> Int], NEW b \in [1 .. N -> Int],
         NEW n \in 1 .. N, a[n] # b[n], \A m \in 1 .. n - 1 : a[m] = b[m]
  PROVE  Lex(a, b) <=> a[n] < b[n]
<1>1. ASSUME a[n] < b[n] PROVE Lex(a, b)
  BY <1>1 DEF Lex
<1>2. ASSUME Lex(a, b) PROVE a[n] < b[n]
  <2>1. PICK k \in 1 .. N : a[k] < b[k] /\ \A m \in 1 .. k - 1 : a[m] = b[m]
    BY <1>2 DEF Lex
  <2>2. ~(n < k)
    <3> SUFFICES ASSUME n < k PROVE FALSE
      OBVIOUS
    <3>1. n \in 1 .. k - 1
      OBVIOUS
    <3> QED
      BY <2>1, <3>1
  <2>3. ~(k < n)
    <3> SUFFICES ASSUME k < n PROVE FALSE
      OBVIOUS
    <3>1. k \in 1 .. n - 1
      OBVIOUS
    <3>2. a[k] = b[k] /\ a[k] \in Int
      BY <3>1
    <3> QED
      BY <2>1, <3>2
  <2>4. n = k
    BY <2>2, <2>3
  <2> QED
    BY <2>1, <2>4
<1> QED
  BY <1>1, <1>2

LEMMA OneIsFirst ==
  ASSUME NEW N \in Nat \ {0}, NEW a \in [1 .. N -> Int], NEW b \in [1 .. N -> Int],
         a[N] # b[N]
  PROVE  Lex(a, b) <=> ~Lex(b, a)
<1> DEFINE D == {n \in 1 .. N : a[n] # b[n]}
<1>1. N \in D
  OBVIOUS
<1>2. D \subseteq 1 .. N /\ \A m \in 1 .. N : m \notin D => a[m] = b[m]
  OBVIOUS
<1>3. \A n \in D : a[n] # b[n]
  OBVIOUS
<1> HIDE DEF D
<1>4. D \in SUBSET Nat /\ D # {}
  BY <1>1, <1>2
<1>5. PICK n \in D : \A m \in D : n <= m
  BY <1>4, LeastNumber
<1>6. n \in 1 .. N /\ a[n] # b[n]
  BY <1>2, <1>3
<1>7. \A m \in 1 .. n - 1 : a[m] = b[m] /\ b[m] = a[m]
  <2> SUFFICES ASSUME NEW m \in 1 .. n - 1 PROVE a[m] = b[m]
    OBVIOUS
  <2>1. m \in 1 .. N /\ ~(n <= m)
    BY <1>6
  <2> QED
    BY <1>2, <1>5, <2>1
<1>8. Lex(a, b) <=> a[n] < b[n]
  BY <1>6, <1>7, LexDecides
<1>9. Lex(b, a) <=> b[n] < a[n]
  BY <1>6, <1>7, LexDecides
<1>10. a[n] \in Int /\ b[n] \in Int
  BY <1>6
<1> QED
  BY <1>6, <1>8, <1>9, <1>10

LEMMA LexGoesOn ==
  ASSUME NEW N \in Nat, NEW a \in [1 .. N -> Int], NEW b \in [1 .. N -> Int],
         NEW c \in [1 .. N -> Int], Lex(a, b), Lex(b, c)
  PROVE  Lex(a, c)
<1>1. PICK n \in 1 .. N : a[n] < b[n] /\ \A m \in 1 .. n - 1 : a[m] = b[m]
  BY DEF Lex
<1>2. PICK k \in 1 .. N : b[k] < c[k] /\ \A m \in 1 .. k - 1 : b[m] = c[m]
  BY DEF Lex
<1>3. CASE n < k
  <2>1. \A m \in 1 .. n - 1 : m \in 1 .. n - 1 /\ m \in 1 .. k - 1
    BY <1>3
  <2>2. \A m \in 1 .. n - 1 : a[m] = c[m]
    BY <1>1, <1>2, <2>1
  <2>3. n \in 1 .. k - 1
    BY <1>3
  <2>4. a[n] < c[n]
    BY <1>1, <1>2, <2>3
  <2> QED
    BY <2>2, <2>4 DEF Lex
<1>4. CASE n = k
  <2>1. \A m \in 1 .. n - 1 : m \in 1 .. n - 1 /\ m \in 1 .. k - 1
    BY <1>4
  <2>2. \A m \in 1 .. n - 1 : a[m] = c[m]
    BY <1>1, <1>2, <2>1
  <2>3. a[n] \in Int /\ b[n] \in Int /\ c[n] \in Int
    OBVIOUS
  <2>4. a[n] < c[n]
    BY <1>1, <1>2, <1>4, <2>3
  <2> QED
    BY <2>2, <2>4 DEF Lex
<1>5. CASE k < n
  <2>1. \A m \in 1 .. k - 1 : m \in 1 .. n - 1 /\ m \in 1 .. k - 1
    BY <1>5
  <2>2. \A m \in 1 .. k - 1 : a[m] = c[m]
    BY <1>1, <1>2, <2>1
  <2>3. k \in 1 .. n - 1
    BY <1>5
  <2>4. a[k] < c[k]
    BY <1>1, <1>2, <2>3
  <2> QED
    BY <2>2, <2>4 DEF Lex
<1> QED
  BY <1>3, <1>4, <1>5

LEMMA LexOrders ==
  ASSUME NEW F, NEW N \in Nat \ {0}, NEW keys \in [F -> [1 .. N -> Int]],
         \A x, y \in F : x # y => keys[x][N] # keys[y][N]
  PROVE  Orders(F, {p \in F \X F : Lex(keys[p[1]], keys[p[2]])})
<1> DEFINE R == {p \in F \X F : Lex(keys[p[1]], keys[p[2]])}
<1>1. \A x, y \in F : <<x, y>> \in R <=> Lex(keys[x], keys[y])
  <2> SUFFICES ASSUME NEW x \in F, NEW y \in F
               PROVE  <<x, y>> \in R <=> Lex(keys[x], keys[y])
    OBVIOUS
  <2> QED
    OBVIOUS
<1>2. \A x \in F : keys[x] \in [1 .. N -> Int] /\ DOMAIN keys[x] = 1 .. N
  OBVIOUS
<1> HIDE DEF R
<1>3. ASSUME NEW x \in F, NEW y \in F, x # y
      PROVE  <<x, y>> \in R <=> <<y, x>> \notin R
  <2>1. PICK a \in [1 .. N -> Int], b \in [1 .. N -> Int] : a = keys[x] /\ b = keys[y]
    BY <1>2
  <2>2. a[N] # b[N]
    BY <1>3, <2>1
  <2>3. Lex(a, b) <=> ~Lex(b, a)
    BY <2>2, OneIsFirst
  <2> QED
    BY <1>1, <2>1, <2>3
<1>4. ASSUME NEW x \in F PROVE <<x, x>> \notin R
  BY <1>1, <1>2 DEF Lex
<1>5. ASSUME NEW x \in F, NEW y \in F, NEW z \in F, <<x, y>> \in R, <<y, z>> \in R
      PROVE  <<x, z>> \in R
  <2>1. PICK a \in [1 .. N -> Int], b \in [1 .. N -> Int], c \in [1 .. N -> Int] :
          a = keys[x] /\ b = keys[y] /\ c = keys[z]
    BY <1>2
  <2>2. Lex(a, b) /\ Lex(b, c)
    BY <1>1, <1>5, <2>1
  <2>3. Lex(a, c)
    BY <2>2, LexGoesOn
  <2> QED
    BY <1>1, <2>1, <2>3
<1> QED
  BY <1>3, <1>4, <1>5 DEF Orders, R

-----------------------------------------------------------------------------
(* The jobs as records, and the keys that sort them.                       *)

JobRecords == [topic : ListTopics, status : Statuses, priority : {0, 1}, created : Nat, updated : Nat]

LEMMA ListNamesAgree ==
  ASSUME NEW S PROVE JL!Cardinality(S) = Cardinality(S) /\ JL!Range(S) = Range(S)
BY DEF JL!Cardinality, Cardinality, JL!Range, Range, JL!IsFiniteSet, IsFiniteSet

LEMMA TopicsAreRanked ==
  ASSUME NEW t \in ListTopics
  PROVE  JL!TopicRank(t) \in Int
<1> DEFINE N == Cardinality(ListTopics)
           seq == JL!SetToSeq(ListTopics)
<1>1. N \in Nat /\ IsFiniteSet(1 .. N) /\ Cardinality(1 .. N) = N /\ ExistsBijection(1 .. N, ListTopics)
  BY FS_CardinalityType, FS_Interval, ListAssumption
<1>2. \E f \in [1 .. N -> ListTopics] : JL!IsInjective(f)
  <2>1. PICK f \in Bijection(1 .. N, ListTopics) : TRUE
    BY <1>1 DEF ExistsBijection
  <2>2. f \in [1 .. N -> ListTopics] /\ \A a, b \in 1 .. N : f[a] = f[b] => a = b
    BY <2>1 DEF Bijection, Injection, IsInjective
  <2> QED
    BY <2>2 DEF JL!IsInjective
<1>3. seq \in [1 .. N -> ListTopics] /\ JL!IsInjective(seq)
  BY <1>2, ListNamesAgree DEF JL!SetToSeq
<1> HIDE DEF seq
<1>4. seq \in Injection(1 .. N, ListTopics)
  BY <1>3 DEF JL!IsInjective, Injection, IsInjective
<1>5. seq \in Surjection(1 .. N, ListTopics)
  BY <1>1, <1>4, FS_Injection, ListAssumption
<1>6. \E n \in 1 .. N : seq[n] = t
  BY <1>5 DEF Surjection
<1>7. JL!TopicRank(t) \in 1 .. N
  BY <1>6, ListNamesAgree DEF JL!TopicRank, seq
<1> QED
  BY <1>1, <1>7

\* The keys of a job (Before), of its record.
KeyOf(r, c) ==
  LET up == CASE c.field = "created" -> r.created
              [] c.field = "updated" -> r.updated
              [] c.field = "priority" -> r.priority
              [] c.field = "topic" -> JL!TopicRank(r.topic)
  IN  IF c.desc THEN 1000 - up ELSE up

KeysOf(r, k, s) ==
  [n \in DOMAIN JL!Criteria(s) |-> KeyOf(r, JL!Criteria(s)[n])] \o <<r.created, k>>

LEMMA Joined ==
  ASSUME NEW a \in Seq(Int), NEW x \in Int, NEW y \in Int
  PROVE  /\ Len(a) + 2 \in Nat \ {0}
         /\ a \o <<x, y>> \in [1 .. Len(a) + 2 -> Int]
         /\ (a \o <<x, y>>)[Len(a) + 2] = y
<1> DEFINE b == <<x, y>>
           c == a \o b
<1>1. b \in Seq(Int) /\ Len(b) = 2 /\ b[2] = y
  OBVIOUS
<1>2. Len(a) \in Nat
  OBVIOUS
<1> HIDE DEF b
<1>3. /\ c \in Seq(Int) /\ Len(c) = Len(a) + Len(b)
      /\ \A i \in 1 .. Len(a) + Len(b) : c[i] = IF i <= Len(a) THEN a[i] ELSE b[i - Len(a)]
  BY <1>1, ConcatProperties
<1> HIDE DEF c
<1>4. Len(c) = Len(a) + 2 /\ Len(a) + 2 \in 1 .. Len(a) + Len(b) /\ Len(a) + 2 - Len(a) = 2
      /\ ~(Len(a) + 2 <= Len(a))
  BY <1>1, <1>2, <1>3
<1>5. c[Len(a) + 2] = y
  BY <1>1, <1>3, <1>4
<1>6. c \in [1 .. Len(c) -> Int]
  BY <1>3
<1>7. Len(a) + 2 \in Nat \ {0} /\ c \in [1 .. Len(a) + 2 -> Int]
  BY <1>2, <1>4, <1>6
<1> QED
  BY <1>5, <1>7 DEF c, b

LEMMA KeysAreNumbers ==
  ASSUME NEW s \in Sorts, NEW r \in JobRecords, NEW k \in Nat
  PROVE  LET N == Len(JL!Criteria(s)) + 2
         IN  N \in Nat \ {0} /\ KeysOf(r, k, s) \in [1 .. N -> Int] /\ KeysOf(r, k, s)[N] = k
<1> DEFINE C == JL!Criteria(s)
           M == Len(C)
<1>1. C \in Seq(Criterion)
  <2>1. CASE s = <<>>
    <3>1. [field |-> "created", desc |-> TRUE] \in Criterion
      BY DEF Criterion
    <3> QED
      BY <2>1, <3>1 DEF JL!Criteria
  <2>2. CASE s # <<>>
    BY <2>2, ListAssumption DEF JL!Criteria
  <2> QED
    BY <2>1, <2>2
<1>2. M \in Nat /\ C \in [1 .. M -> Criterion]
  BY <1>1
<1> HIDE DEF C, M
<1>3. ASSUME NEW c \in Criterion PROVE KeyOf(r, c) \in Int
  <2> DEFINE up == CASE c.field = "created" -> r.created
                     [] c.field = "updated" -> r.updated
                     [] c.field = "priority" -> r.priority
                     [] c.field = "topic" -> JL!TopicRank(r.topic)
  <2>1. /\ r.created \in Nat /\ r.updated \in Nat /\ r.priority \in {0, 1}
        /\ JL!TopicRank(r.topic) \in Int
    BY TopicsAreRanked DEF JobRecords
  <2>2. c.field \in {"created", "updated", "priority", "topic"} /\ c.desc \in BOOLEAN
    BY DEF Criterion
  <2>3. up \in Int
    BY <2>1, <2>2
  <2>4. KeyOf(r, c) = IF c.desc THEN 1000 - up ELSE up
    BY DEF KeyOf
  <2> HIDE DEF up
  <2>5. CASE c.desc = TRUE
    BY <2>3, <2>4, <2>5
  <2>6. CASE c.desc = FALSE
    BY <2>3, <2>4, <2>6
  <2> QED
    BY <2>2, <2>5, <2>6
<1> DEFINE keys == [n \in 1 .. M |-> KeyOf(r, C[n])]
<1>4. keys \in Seq(Int) /\ Len(keys) = M
  BY <1>2, <1>3
<1>5. KeysOf(r, k, s) = keys \o <<r.created, k>>
  <2>1. DOMAIN C = 1 .. M
    BY <1>2
  <2> QED
    BY <2>1 DEF KeysOf, C
<1> HIDE DEF keys
<1>6. r.created \in Int /\ k \in Int
  BY DEF JobRecords
<1>7. /\ M + 2 \in Nat \ {0} /\ KeysOf(r, k, s) \in [1 .. M + 2 -> Int]
      /\ KeysOf(r, k, s)[M + 2] = k
  BY <1>4, <1>5, <1>6, Joined
<1> QED
  BY <1>7 DEF M, C

-----------------------------------------------------------------------------
(* The list is sorted, and a page is a part of it.                         *)

JobsInv ==
  /\ DOMAIN jobs \subseteq 1 .. MaxJobs /\ jobs \in [DOMAIN jobs -> JobRecords] /\ now \in Nat

\* The jobs of S in the order of s (Before).
Order(js, S, s) == {p \in S \X S : Lex(KeysOf(js[p[1]], p[1], s), KeysOf(js[p[2]], p[2], s))}

LEMMA BeforeIsLex ==
  ASSUME NEW i, NEW j, NEW s
  PROVE  JL!Before(i, j, s) <=> Lex(KeysOf(jobs[i], i, s), KeysOf(jobs[j], j, s))
BY DEF JL!Before, JL!Key, Lex, KeysOf, KeyOf

LEMMA ListIsOrdered ==
  ASSUME JobsInv, NEW s \in Sorts, NEW S \in SUBSET DOMAIN jobs
  PROVE  /\ Orders(S, Order(jobs, S, s)) /\ IsFiniteSet(S)
         /\ \A i, j \in S : <<i, j>> \in Order(jobs, S, s) <=> JL!Before(i, j, s)
<1>1. IsFiniteSet(S)
  <2>1. 1 \in Int /\ MaxJobs \in Int /\ S \subseteq 1 .. MaxJobs
    BY ListAssumption DEF JobsInv
  <2>2. IsFiniteSet(1 .. MaxJobs)
    BY <2>1, FS_Interval
  <2> QED
    BY <2>1, <2>2, FS_Subset
<1>2. \A i, j \in S : <<i, j>> \in Order(jobs, S, s) <=> JL!Before(i, j, s)
  BY BeforeIsLex DEF Order
<1> DEFINE N == Len(JL!Criteria(s)) + 2
           keys == [k \in S |-> KeysOf(jobs[k], k, s)]
<1>3. ASSUME NEW k \in S
      PROVE  N \in Nat \ {0} /\ KeysOf(jobs[k], k, s) \in [1 .. N -> Int] /\ KeysOf(jobs[k], k, s)[N] = k
  BY KeysAreNumbers DEF JobsInv
<1>4. CASE S = {}
  BY <1>1, <1>4 DEF Orders
<1>5. CASE S # {}
  <2> HIDE DEF N
  <2>1. N \in Nat \ {0} /\ keys \in [S -> [1 .. N -> Int]]
    BY <1>3, <1>5
  <2>2. \A x, y \in S : x # y => keys[x][N] # keys[y][N]
    BY <1>3
  <2>3. Order(jobs, S, s) = {p \in S \X S : Lex(keys[p[1]], keys[p[2]])}
    BY DEF Order
  <2> HIDE DEF keys
  <2>4. Orders(S, {p \in S \X S : Lex(keys[p[1]], keys[p[2]])})
    BY <2>1, <2>2, LexOrders
  <2> QED
    BY <1>1, <1>2, <2>3, <2>4
<1> QED
  BY <1>4, <1>5

\* The number of jobs before j in a list.
Rank(f, s, j) == Cardinality({i \in JL!Filtered(f) : JL!Before(i, j, s)})

LEMMA ListIsSorted ==
  ASSUME JobsInv, NEW f \in Filters, NEW s \in Sorts
  PROVE  LET F == JL!Filtered(f)
             list == JL!Sorted(f, s)
         IN  /\ list \in Seq(F) /\ Len(list) \in Nat
             /\ \A m, n \in 1 .. Len(list) : list[m] = list[n] => m = n
             /\ \A j \in F : \E n \in 1 .. Len(list) : list[n] = j /\ Rank(f, s, j) = n - 1
<1> DEFINE F == JL!Filtered(f)
           R == Order(jobs, F, s)
           list == JL!Sorted(f, s)
<1>1. F \in SUBSET DOMAIN jobs
  BY DEF JL!Filtered, JL!Exists
<1> HIDE DEF F
<1>2. /\ Orders(F, R) /\ IsFiniteSet(F) /\ Cardinality(F) \in Nat
      /\ \A i, j \in F : <<i, j>> \in R <=> JL!Before(i, j, s)
  BY <1>1, ListIsOrdered, FS_CardinalityType
<1> HIDE DEF R
<1>3. ASSUME NEW l
      PROVE  Lists(l, F, R) <=> /\ l \in JL!SetToSeqs(F)
                                /\ \A m, n \in DOMAIN l : m < n => JL!Before(l[m], l[n], s)
  <2> DEFINE D == 1 .. Cardinality(F)
  <2>1. l \in JL!SetToSeqs(F) <=> l \in [D -> F] /\ \A i, j \in D : i # j => l[i] # l[j]
    BY ListNamesAgree DEF JL!SetToSeqs
  <2>2. ASSUME l \in [D -> F], NEW m \in D, NEW n \in D
        PROVE  <<l[m], l[n]>> \in R <=> JL!Before(l[m], l[n], s)
    BY <1>2, <2>2
  <2>3. ASSUME l \in [D -> F], \A m, n \in D : m < n => <<l[m], l[n]>> \in R
        PROVE  \A i, j \in D : i # j => l[i] # l[j]
    <3> SUFFICES ASSUME NEW i \in D, NEW j \in D, i < j PROVE l[i] # l[j]
      BY <1>2
    <3> QED
      BY <1>2, <2>3 DEF Orders
  <2> HIDE DEF D
  <2>4. Lists(l, F, R) <=> l \in [D -> F] /\ \A m, n \in D : m < n => <<l[m], l[n]>> \in R
    BY DEF Lists, D
  <2>5. l \in [D -> F] => DOMAIN l = D
    OBVIOUS
  <2> QED
    BY <2>1, <2>2, <2>3, <2>4, <2>5
<1>4. Lists(list, F, R)
  <2>1. \E l : Lists(l, F, R)
    BY <1>2, SortExists
  <2>2. list = CHOOSE l \in JL!SetToSeqs(F) : \A m, n \in DOMAIN l : m < n => JL!Before(l[m], l[n], s)
    BY DEF JL!Sorted, F
  <2> HIDE DEF list
  <2> QED
    BY <1>3, <2>1, <2>2
<1> HIDE DEF list
<1>5. list \in Seq(F) /\ Len(list) = Cardinality(F)
  BY <1>2, <1>4 DEF Lists
<1>6. ASSUME NEW j \in F PROVE Rank(f, s, j) = Cardinality(Preceding(F, R, j))
  <2>1. Preceding(F, R, j) = {i \in F : JL!Before(i, j, s)}
    BY <1>2 DEF Preceding
  <2> QED
    BY <2>1 DEF Rank, F
<1>7. \A j \in F : \E n \in 1 .. Len(list) : list[n] = j /\ Rank(f, s, j) = n - 1
  BY <1>2, <1>4, <1>5, <1>6, PlaceIsRank
<1>8. \A m, n \in 1 .. Len(list) : list[m] = list[n] => m = n
  <2> SUFFICES ASSUME NEW m \in 1 .. Len(list), NEW n \in 1 .. Len(list), m < n PROVE list[m] # list[n]
    BY <1>2, <1>5
  <2> QED
    BY <1>2, <1>4, <1>5 DEF Lists, Orders
<1> QED
  BY <1>2, <1>5, <1>7, <1>8 DEF F, list

LEMMA PageHas ==
  ASSUME NEW S, NEW list \in Seq(S), NEW limit \in Nat \ {0}, NEW p \in Nat \ {0}, NEW n \in 1 .. Len(list),
         \A m \in 1 .. Len(list) : list[m] = list[n] => m = n
  PROVE  list[n] \in JL!Range(JL!Page(list, p, limit)) <=> (p - 1) * limit < n /\ n <= p * limit
<1> DEFINE start == (p - 1) * limit
           end == IF start + limit > Len(list) THEN Len(list) ELSE start + limit
           page == SubSeq(list, start + 1, end)
<1>1. /\ start \in Nat /\ p * limit = start + limit /\ Len(list) \in Nat
      /\ JL!Page(list, p, limit) = IF start < Len(list) THEN page ELSE <<>>
  BY DEF JL!Page
<1> HIDE DEF start
<1>2. CASE ~(start < Len(list))
  <2>1. JL!Range(JL!Page(list, p, limit)) = {}
    BY <1>1, <1>2 DEF JL!Range
  <2> QED
    BY <1>1, <1>2, <2>1 DEF start
<1>3. CASE start < Len(list)
  <2>1. end \in Nat /\ end <= Len(list) /\ end <= start + limit /\ start + 1 <= end
    BY <1>1, <1>3
  <2>2. n <= end <=> n <= start + limit
    BY <1>1
  <2> HIDE DEF end
  <2>3. \A i \in start + 1 .. end : list[i] \in S
    BY <1>1, <2>1
  <2>4. /\ page \in Seq(S) /\ Len(page) = end - start
        /\ \A i \in 1 .. end - start : page[i] = list[start + i]
    <3>1. start + 1 \in Int /\ end \in Int /\ end - (start + 1) + 1 = end - start
      BY <1>1, <2>1
    <3>2. /\ page \in Seq(S) /\ Len(page) = end - (start + 1) + 1
          /\ \A i \in 1 .. end - (start + 1) + 1 : page[i] = list[(start + 1) + i - 1]
      BY <2>1, <2>3, <3>1, SubSeqProperties
    <3>3. \A i \in 1 .. end - start : (start + 1) + i - 1 = start + i
      BY <1>1, <2>1
    <3> QED
      BY <3>1, <3>2, <3>3
  <2> HIDE DEF page
  <2>5. DOMAIN page = 1 .. end - start
    BY <2>4
  <2>6. list[n] \in JL!Range(page) <=> start < n /\ n <= end
    <3>1. ASSUME list[n] \in JL!Range(page) PROVE start < n /\ n <= end
      <4>1. PICK i \in 1 .. end - start : page[i] = list[n]
        BY <2>5, <3>1 DEF JL!Range
      <4>2. start + i \in 1 .. Len(list) /\ list[start + i] = list[n]
        BY <1>1, <2>1, <2>4, <4>1
      <4> QED
        BY <1>1, <2>1, <4>1, <4>2
    <3>2. ASSUME start < n, n <= end PROVE list[n] \in JL!Range(page)
      <4>1. n - start \in 1 .. end - start /\ start + (n - start) = n
        BY <1>1, <2>1, <3>2
      <4>2. page[n - start] = list[n]
        BY <2>4, <4>1
      <4> QED
        BY <2>5, <4>1, <4>2 DEF JL!Range
    <3> QED
      BY <3>1, <3>2
  <2> QED
    BY <1>1, <1>3, <2>2, <2>6 DEF start
<1> QED
  BY <1>2, <1>3

-----------------------------------------------------------------------------
(* A client that reads one page after the other.                           *)

\* What a client has read, and what it will read.
ListStates ==
  [reading : {TRUE}, filter : Filters, sort : Sorts, limit : Limits, page : Nat \ {0},
   seen : SUBSET Nat, before : SUBSET Nat, calm : BOOLEAN, over : BOOLEAN]

\* The jobs js that a filter keeps, and the number of them before j.
Kept(js, f) ==
  {j \in DOMAIN js : f.status \in {JL!NoFilter, js[j].status} /\ f.topic \in {JL!NoFilter, js[j].topic}}
Place(js, f, s, j) ==
  Cardinality({i \in Kept(js, f) : Lex(KeysOf(js[i], i, s), KeysOf(js[j], j, s))})

\* No job of the list is behind the next page without having been seen.
NothingSkipped(js, c) ==
  /\ c.before \subseteq Kept(js, c.filter)
  /\ c.over = TRUE => c.before \subseteq c.seen
  /\ \A j \in c.before \ c.seen : (c.page - 1) * c.limit <= Place(js, c.filter, c.sort, j)

ClientInv ==
  client = JL!NoList \/ (client \in ListStates /\ (client.calm = TRUE => NothingSkipped(jobs, client)))

LEMMA PagesFollow ==
  ASSUME JobsInv, ClientInv
  PROVE  JL!PagesAreRight
<1>1. JL!OrderIsTotal
  <2> SUFFICES ASSUME NEW s \in Sorts, NEW i \in JL!Exists, NEW j \in JL!Exists, i # j
               PROVE  JL!Before(i, j, s) <=> ~JL!Before(j, i, s)
    BY DEF JL!OrderIsTotal
  <2>1. PICK S : S \in SUBSET DOMAIN jobs /\ i \in S /\ j \in S
    BY DEF JL!Exists
  <2>2. PICK R : R = Order(jobs, S, s)
    OBVIOUS
  <2>3. Orders(S, R) /\ \A x, y \in S : <<x, y>> \in R <=> JL!Before(x, y, s)
    BY <2>1, <2>2, ListIsOrdered
  <2>4. <<i, j>> \in R <=> <<j, i>> \notin R
    BY <2>1, <2>3 DEF Orders
  <2>5. (<<i, j>> \in R <=> JL!Before(i, j, s)) /\ (<<j, i>> \in R <=> JL!Before(j, i, s))
    BY <2>1, <2>3
  <2> QED
    BY <2>4, <2>5
<1>2. JL!EachJobOnItsPage
  <2> SUFFICES ASSUME NEW f \in Filters, NEW s \in Sorts, NEW limit \in Limits, NEW j \in JL!Filtered(f)
               PROVE  {p \in 1 .. JL!TotalPages(Len(JL!Sorted(f, s)), limit) + 1 :
                         j \in JL!Range(JL!Page(JL!Sorted(f, s), p, limit))}
                        = {(Rank(f, s, j) \div limit) + 1}
    BY ListNamesAgree DEF JL!EachJobOnItsPage, Rank
  <2> DEFINE list == JL!Sorted(f, s)
             F == JL!Filtered(f)
             N == Len(list)
             T == JL!TotalPages(N, limit)
  <2>1. /\ list \in Seq(F) /\ N \in Nat
        /\ \A m, n \in 1 .. N : list[m] = list[n] => m = n
        /\ \E n \in 1 .. N : list[n] = j /\ Rank(f, s, j) = n - 1
    BY ListIsSorted
  <2> HIDE DEF list, F
  <2>2. PICK n \in 1 .. N : list[n] = j /\ Rank(f, s, j) = n - 1
    BY <2>1
  <2>3. limit \in Nat \ {0}
    BY ListAssumption
  <2>4. (n - 1) \div limit + 1 \in 1 .. T /\ T \in Nat
    BY <2>1, <2>3, PageIsInRange
  <2>5. ASSUME NEW p \in 1 .. T + 1
        PROVE  j \in JL!Range(JL!Page(list, p, limit)) <=> p = ((n - 1) \div limit) + 1
    <3>1. p \in Nat \ {0}
      BY <2>4
    <3>2. j \in JL!Range(JL!Page(list, p, limit)) <=> (p - 1) * limit < n /\ n <= p * limit
      BY <2>1, <2>2, <2>3, <3>1, PageHas
    <3> QED
      BY <2>1, <2>3, <3>2, PagesDivide
  <2>6. {p \in 1 .. T + 1 : j \in JL!Range(JL!Page(list, p, limit))} = {((n - 1) \div limit) + 1}
    <3> DEFINE q == ((n - 1) \div limit) + 1
    <3>1. q \in 1 .. T + 1
      BY <2>4
    <3> HIDE DEF q, T
    <3> QED
      BY <2>5, <3>1 DEF q
  <2> QED
    BY <2>2, <2>6 DEF list
<1>3. JL!CreationsHideNothing
  <2> SUFFICES ASSUME client.reading = TRUE, client.over = TRUE, client.calm = TRUE
               PROVE  client.before \subseteq client.seen
    <3>1. client = JL!NoList => client.reading = FALSE
      BY DEF JL!NoList
    <3>2. CASE client \in ListStates
      BY <3>2 DEF JL!CreationsHideNothing, ListStates
    <3>3. CASE client.reading = FALSE
      BY <3>3 DEF JL!CreationsHideNothing
    <3> QED
      BY <3>1, <3>2, <3>3 DEF ClientInv
  <2>1. client # JL!NoList
    BY DEF JL!NoList
  <2> QED
    BY <2>1 DEF ClientInv, NothingSkipped
<1> QED
  BY <1>1, <1>2, <1>3 DEF JL!PagesAreRight

LEMMA KeptIsFiltered ==
  ASSUME NEW f, NEW s, NEW j
  PROVE  JL!Filtered(f) = Kept(jobs, f) /\ Rank(f, s, j) = Place(jobs, f, s, j)
<1>1. JL!Filtered(f) = Kept(jobs, f)
  BY DEF JL!Filtered, JL!Matches, JL!Exists, Kept
<1>2. {i \in JL!Filtered(f) : JL!Before(i, j, s)}
        = {i \in Kept(jobs, f) : Lex(KeysOf(jobs[i], i, s), KeysOf(jobs[j], j, s))}
  BY <1>1, BeforeIsLex
<1> QED
  BY <1>1, <1>2 DEF Rank, Place

\* A creation moves no job forward.
LEMMA CreationsPush ==
  ASSUME NEW js, NEW after, DOMAIN after \subseteq 1 .. MaxJobs, DOMAIN js \subseteq DOMAIN after,
         \A k \in DOMAIN js : after[k] = js[k], NEW f, NEW s
  PROVE  /\ Kept(js, f) \subseteq Kept(after, f)
         /\ \A j \in Kept(js, f) : /\ Place(js, f, s, j) \in Nat /\ Place(after, f, s, j) \in Nat
                                   /\ Place(js, f, s, j) <= Place(after, f, s, j)
<1>1. Kept(js, f) \subseteq Kept(after, f)
  BY DEF Kept
<1>2. ASSUME NEW j \in Kept(js, f)
      PROVE  /\ Place(js, f, s, j) \in Nat /\ Place(after, f, s, j) \in Nat
             /\ Place(js, f, s, j) <= Place(after, f, s, j)
  <2> DEFINE A == {i \in Kept(js, f) : Lex(KeysOf(js[i], i, s), KeysOf(js[j], j, s))}
             B == {i \in Kept(after, f) : Lex(KeysOf(after[i], i, s), KeysOf(after[j], j, s))}
  <2>1. j \in DOMAIN js /\ \A i \in Kept(js, f) : after[i] = js[i]
    BY DEF Kept
  <2>2. A \subseteq B
    BY <1>1, <2>1
  <2>3. B \subseteq DOMAIN after
    BY DEF Kept
  <2>4. 1 \in Int /\ MaxJobs \in Int
    BY ListAssumption
  <2>5. IsFiniteSet(1 .. MaxJobs) /\ B \subseteq 1 .. MaxJobs
    BY <2>3, <2>4, FS_Interval
  <2> HIDE DEF A, B
  <2>6. IsFiniteSet(B) /\ IsFiniteSet(A) /\ Cardinality(A) <= Cardinality(B)
    BY <2>2, <2>5, FS_Subset
  <2>7. Cardinality(A) \in Nat /\ Cardinality(B) \in Nat
    BY <2>6, FS_CardinalityType
  <2> QED
    BY <2>6, <2>7 DEF A, B, Place
<1> QED
  BY <1>1, <1>2

LEMMA StateIsTyped ==
  ASSUME NEW c \in ListStates
  PROVE  /\ c.filter \in Filters /\ c.sort \in Sorts /\ c.limit \in Nat \ {0} /\ c.page \in Nat \ {0}
         /\ c.seen \in SUBSET Nat /\ c.before \in SUBSET Nat
         /\ (c.page - 1) * c.limit \in Int
<1>1. /\ c.filter \in Filters /\ c.sort \in Sorts /\ c.limit \in Nat \ {0} /\ c.page \in Nat \ {0}
      /\ c.seen \in SUBSET Nat /\ c.before \in SUBSET Nat
  BY ListAssumption DEF ListStates
<1> QED
  BY <1>1

LEMMA NothingIsLost ==
  ASSUME NEW js, NEW after, DOMAIN after \subseteq 1 .. MaxJobs, DOMAIN js \subseteq DOMAIN after,
         \A k \in DOMAIN js : after[k] = js[k], NEW c \in ListStates, NothingSkipped(js, c)
  PROVE  NothingSkipped(after, c)
<1>1. c.before \subseteq Kept(js, c.filter)
  BY DEF NothingSkipped
<1>2. (c.page - 1) * c.limit \in Int
  BY StateIsTyped
<1> DEFINE v == (c.page - 1) * c.limit
<1>3. c.before \subseteq Kept(after, c.filter)
  BY <1>1, CreationsPush
<1>4. ASSUME NEW j \in c.before \ c.seen PROVE v <= Place(after, c.filter, c.sort, j)
  <2>1. v <= Place(js, c.filter, c.sort, j)
    BY DEF NothingSkipped
  <2> HIDE DEF v
  <2>2. /\ Place(js, c.filter, c.sort, j) \in Nat /\ Place(after, c.filter, c.sort, j) \in Nat
        /\ Place(js, c.filter, c.sort, j) <= Place(after, c.filter, c.sort, j)
    BY <1>1, CreationsPush
  <2>3. v \in Int
    BY <1>2 DEF v
  <2> QED
    BY <2>1, <2>2, <2>3
<1> QED
  BY <1>3, <1>4 DEF NothingSkipped

\* A request for the next page.
LEMMA PageIsSeen ==
  ASSUME JobsInv, NEW c \in ListStates, NothingSkipped(jobs, c), NEW d \in ListStates,
         c.over = FALSE,
         d.filter = c.filter, d.sort = c.sort, d.limit = c.limit, d.before = c.before, d.page = c.page + 1,
         d.seen = c.seen \cup JL!Range(JL!Page(JL!Sorted(c.filter, c.sort), c.page, c.limit)),
         (d.over = TRUE) <=> c.page >= JL!TotalPages(Len(JL!Sorted(c.filter, c.sort)), c.limit)
  PROVE  NothingSkipped(jobs, d)
<1> DEFINE list == JL!Sorted(c.filter, c.sort)
           F == JL!Filtered(c.filter)
           N == Len(list)
<1>1. /\ c.filter \in Filters /\ c.sort \in Sorts /\ c.limit \in Nat \ {0} /\ c.page \in Nat \ {0}
      /\ c.seen \in SUBSET Nat /\ c.before \in SUBSET Nat
  BY StateIsTyped
<1>2. /\ list \in Seq(F) /\ N \in Nat
      /\ \A m, n \in 1 .. N : list[m] = list[n] => m = n
      /\ \A j \in F : \E n \in 1 .. N : list[n] = j /\ Rank(c.filter, c.sort, j) = n - 1
  BY <1>1, ListIsSorted
<1>3. F = Kept(jobs, c.filter) /\ c.before \subseteq F
  BY KeptIsFiltered DEF NothingSkipped
<1> HIDE DEF list, F
<1>4. ASSUME NEW j \in c.before, j \notin d.seen
      PROVE  /\ d.over = FALSE
             /\ (d.page - 1) * d.limit <= Place(jobs, d.filter, d.sort, j)
  <2>1. PICK n \in 1 .. N : list[n] = j /\ Rank(c.filter, c.sort, j) = n - 1
    BY <1>2, <1>3
  <2>2. (c.page - 1) * c.limit <= n - 1
    BY <1>4, <2>1, KeptIsFiltered DEF NothingSkipped
  <2>3. j \notin JL!Range(JL!Page(list, c.page, c.limit))
    BY <1>4 DEF list
  <2>4. ~((c.page - 1) * c.limit < n /\ n <= c.page * c.limit)
    <3>1. \A m \in 1 .. N : list[m] = list[n] => m = n
      BY <1>2
    <3>2. list[n] \in JL!Range(JL!Page(list, c.page, c.limit))
            <=> (c.page - 1) * c.limit < n /\ n <= c.page * c.limit
      BY <1>1, <1>2, <3>1, PageHas
    <3> QED
      BY <2>1, <2>3, <3>2
  <2>5. (c.page - 1) * c.limit \in Int /\ c.page * c.limit \in Nat
    BY <1>1
  <2>6. c.page * c.limit <= n - 1
    <3> DEFINE a == (c.page - 1) * c.limit
               b == c.page * c.limit
    <3>1. a \in Int /\ b \in Nat /\ a <= n - 1 /\ ~(a < n /\ n <= b) /\ n \in Nat
      BY <1>2, <2>2, <2>4, <2>5
    <3> HIDE DEF a, b
    <3>2. b <= n - 1
      BY <3>1
    <3> QED
      BY <3>2 DEF b
  <2>7. ~(c.page >= JL!TotalPages(N, c.limit))
    <3>1. n <= JL!TotalPages(N, c.limit) * c.limit /\ JL!TotalPages(N, c.limit) \in Nat
      BY <1>1, <1>2, PageIsInRange
    <3>2. ASSUME c.page >= JL!TotalPages(N, c.limit) PROVE FALSE
      <4>1. JL!TotalPages(N, c.limit) * c.limit <= c.page * c.limit /\ JL!TotalPages(N, c.limit) * c.limit \in Nat
        BY <1>1, <3>1, <3>2
      <4> QED
        BY <1>2, <2>5, <2>6, <3>1, <4>1
    <3> QED
      BY <3>2
  <2>8. d.over = FALSE
    <3>1. d.over \in BOOLEAN
      BY DEF ListStates
    <3>2. d.over # TRUE
      BY <2>7 DEF list
    <3> QED
      BY <3>1, <3>2
  <2>9. (d.page - 1) * d.limit = c.page * c.limit
    BY <1>1
  <2> QED
    BY <2>1, <2>6, <2>8, <2>9, KeptIsFiltered
<1> QED
  BY <1>3, <1>4 DEF NothingSkipped

LEMMA ListBegins == JL!Init => JobsInv /\ ClientInv
BY DEF JL!Init, JobsInv, ClientInv

LEMMA JobsKeepTypes ==
  ASSUME JobsInv, [JL!Next]_JL!vars
  PROVE  JobsInv'
<1>1. ASSUME JL!Create PROVE JobsInv'
  <2>1. PICK j \in (1 .. MaxJobs) \ JL!Exists, t \in ListTopics, s \in Statuses, p \in {0, 1} :
          jobs' = [k \in JL!Exists \cup {j} |->
                    IF k = j THEN [topic |-> t, status |-> s, priority |-> p, created |-> now, updated |-> now]
                    ELSE jobs[k]]
    BY <1>1 DEF JL!Create
  <2>2. [topic |-> t, status |-> s, priority |-> p, created |-> now, updated |-> now] \in JobRecords
    BY DEF JobRecords, JobsInv
  <2>3. JL!Exists = DOMAIN jobs /\ DOMAIN jobs' = DOMAIN jobs \cup {j} /\ now' = now
    BY <1>1, <2>1 DEF JL!Exists, JL!Create
  <2>4. \A k \in DOMAIN jobs' : jobs'[k] \in JobRecords
    BY <2>1, <2>2, <2>3 DEF JobsInv
  <2>5. jobs' = [k \in DOMAIN jobs' |-> jobs'[k]]
    BY <2>1
  <2>6. DOMAIN jobs' \subseteq 1 .. MaxJobs
    BY <2>3 DEF JobsInv
  <2> QED
    BY <2>3, <2>4, <2>5, <2>6 DEF JobsInv
<1>2. ASSUME NEW j \in JL!Exists, JL!Change(j) PROVE JobsInv'
  <2>1. PICK s \in Statuses : jobs' = [jobs EXCEPT ![j].status = s, ![j].updated = now]
    BY <1>2 DEF JL!Change
  <2>2. j \in DOMAIN jobs /\ jobs[j] \in JobRecords /\ now \in Nat /\ now' = now
    BY <1>2 DEF JL!Exists, JobsInv, JL!Change
  <2>3. DOMAIN jobs' = DOMAIN jobs /\ \A k \in DOMAIN jobs : k # j => jobs'[k] = jobs[k]
    BY <2>1
  <2>4. jobs'[j] = [[jobs[j] EXCEPT !.status = s] EXCEPT !.updated = now]
    BY <2>1, <2>2
  <2>5. jobs'[j] \in JobRecords
    BY <2>2, <2>4 DEF JobRecords
  <2>6. \A k \in DOMAIN jobs' : jobs'[k] \in JobRecords
    BY <2>3, <2>5 DEF JobsInv
  <2>7. jobs' = [k \in DOMAIN jobs' |-> jobs'[k]]
    BY <2>1
  <2> QED
    BY <2>2, <2>3, <2>6, <2>7 DEF JobsInv
<1>3. ASSUME NEW j \in JL!Exists, JL!Delete(j) PROVE JobsInv'
  <2>1. jobs' = [k \in DOMAIN jobs \ {j} |-> jobs[k]] /\ now' = now
    BY <1>3 DEF JL!Exists, JL!Delete
  <2> QED
    BY <2>1 DEF JobsInv
<1>4. ASSUME jobs' = jobs, now' = now \/ now' = now + 1 PROVE JobsInv'
  BY <1>4 DEF JobsInv
<1> QED
  BY <1>1, <1>2, <1>3, <1>4 DEF JL!Next, JL!vars, JL!Begin, JL!Ask, JL!Finish, JL!Tick

LEMMA PageIsOfTheList ==
  ASSUME NEW S, NEW list \in Seq(S), NEW limit \in Nat \ {0}, NEW p \in Nat \ {0}
  PROVE  JL!Range(JL!Page(list, p, limit)) \subseteq S
<1> DEFINE start == (p - 1) * limit
           end == IF start + limit > Len(list) THEN Len(list) ELSE start + limit
<1>1. /\ start \in Nat /\ Len(list) \in Nat
      /\ JL!Page(list, p, limit) = IF start < Len(list) THEN SubSeq(list, start + 1, end) ELSE <<>>
  BY DEF JL!Page
<1> HIDE DEF start
<1>2. end \in Int /\ end <= Len(list) /\ start + 1 \in Int
  BY <1>1
<1> HIDE DEF end
<1>3. \A i \in start + 1 .. end : list[i] \in S
  BY <1>1, <1>2
<1>4. JL!Page(list, p, limit) \in Seq(S)
  <2>1. SubSeq(list, start + 1, end) \in Seq(S)
    BY <1>2, <1>3, SubSeqProperties
  <2> QED
    BY <1>1, <2>1
<1> QED
  BY <1>4 DEF JL!Range

LEMMA ClientIsAnswered ==
  ASSUME JobsInv, ClientInv, JL!Ask
  PROVE  ClientInv'
<1>1. client.reading # FALSE /\ client.over # TRUE /\ jobs' = jobs
  BY Zenon DEF JL!Ask
<1>2. client # JL!NoList
  <2>1. JL!NoList.reading = FALSE
    BY DEF JL!NoList
  <2> QED
    BY <1>1, <2>1
<1>3. PICK c \in ListStates : c = client
  BY <1>2 DEF ClientInv
<1> DEFINE list == JL!Sorted(c.filter, c.sort)
           seen == c.seen \cup JL!Range(JL!Page(list, c.page, c.limit))
           over == c.page >= JL!TotalPages(Len(list), c.limit)
<1>4. /\ c.filter \in Filters /\ c.sort \in Sorts /\ c.limit \in Nat \ {0} /\ c.page \in Nat \ {0}
      /\ c.seen \in SUBSET Nat /\ c.before \in SUBSET Nat /\ c.over = FALSE
  <2>1. c.over \in BOOLEAN
    BY DEF ListStates
  <2> QED
    BY <1>1, <1>3, <2>1, StateIsTyped
<1>5. list \in Seq(JL!Filtered(c.filter)) /\ Len(list) \in Nat /\ JL!Filtered(c.filter) \subseteq Nat
  <2>1. JL!Filtered(c.filter) \subseteq Nat
    BY DEF JL!Filtered, JL!Exists, JobsInv
  <2> QED
    BY <1>4, <2>1, ListIsSorted
<1>6. seen \in SUBSET Nat
  <2> HIDE DEF list
  <2>1. JL!Range(JL!Page(list, c.page, c.limit)) \subseteq JL!Filtered(c.filter)
    BY <1>4, <1>5, PageIsOfTheList
  <2> QED
    BY <1>4, <1>5, <2>1
<1>7. client' = [c EXCEPT !.seen = seen, !.over = over, !.page = c.page + 1]
  BY <1>3 DEF JL!Ask
<1>8. over \in BOOLEAN
  <2> HIDE DEF list
  <2> QED
    BY DEF over
<1> HIDE DEF seen, over, list
<1>9. PICK b \in BOOLEAN : b = over
  BY <1>8
<1>10. PICK d : d = [[[c EXCEPT !.seen = seen] EXCEPT !.over = b] EXCEPT !.page = c.page + 1]
  OBVIOUS
<1>11. /\ d \in ListStates /\ d.filter = c.filter /\ d.sort = c.sort /\ d.limit = c.limit
       /\ d.before = c.before /\ d.calm = c.calm /\ d.seen = seen /\ d.over = b /\ d.page = c.page + 1
  <2>1. PICK page \in Nat \ {0} : page = c.page + 1
    BY <1>4
  <2>2. PICK a : a = [c EXCEPT !.seen = seen]
    OBVIOUS
  <2>3. /\ a \in ListStates /\ a.filter = c.filter /\ a.sort = c.sort /\ a.limit = c.limit
        /\ a.before = c.before /\ a.calm = c.calm /\ a.seen = seen
    BY <1>6, <2>2 DEF ListStates
  <2>4. PICK e : e = [a EXCEPT !.over = b]
    OBVIOUS
  <2>5. /\ e \in ListStates /\ e.filter = c.filter /\ e.sort = c.sort /\ e.limit = c.limit
        /\ e.before = c.before /\ e.calm = c.calm /\ e.seen = seen /\ e.over = b
    BY <2>3, <2>4 DEF ListStates
  <2>6. d = [e EXCEPT !.page = page]
    BY <1>10, <2>1, <2>2, <2>4
  <2>7. /\ d \in ListStates /\ d.filter = c.filter /\ d.sort = c.sort /\ d.limit = c.limit
        /\ d.before = c.before /\ d.calm = c.calm /\ d.seen = seen /\ d.over = b /\ d.page = page
    BY <2>5, <2>6 DEF ListStates
  <2> QED
    BY <2>1, <2>7
<1>12. client' = d
  BY <1>7, <1>9, <1>10
<1>13. ASSUME d.calm = TRUE PROVE NothingSkipped(jobs', d)
  <2>1. NothingSkipped(jobs, c)
    BY <1>2, <1>3, <1>11, <1>13 DEF ClientInv
  <2>2. (d.over = TRUE) <=> c.page >= JL!TotalPages(Len(JL!Sorted(c.filter, c.sort)), c.limit)
    BY <1>9, <1>11 DEF over, list
  <2>3. d.seen = c.seen \cup JL!Range(JL!Page(JL!Sorted(c.filter, c.sort), c.page, c.limit))
    BY <1>11 DEF seen, list
  <2>4. NothingSkipped(jobs, d)
    BY <1>4, <1>11, <2>1, <2>2, <2>3, PageIsSeen
  <2> QED
    BY <1>1, <2>4
<1> QED
  BY <1>11, <1>12, <1>13 DEF ClientInv

LEMMA ClientBegins ==
  ASSUME JobsInv, NEW f \in Filters, NEW s \in Sorts, NEW limit \in Limits, JL!Begin(f, s, limit)
  PROVE  ClientInv'
<1> DEFINE F == JL!Filtered(f)
<1>1. F \subseteq Nat /\ F = Kept(jobs, f)
  BY KeptIsFiltered DEF JL!Filtered, JL!Exists, JobsInv
<1>2. PICK d : d = [reading |-> TRUE, filter |-> f, sort |-> s, limit |-> limit, page |-> 1,
                    seen |-> {}, before |-> F, calm |-> TRUE, over |-> FALSE]
  OBVIOUS
<1>3. client' = d /\ jobs' = jobs
  BY <1>2 DEF JL!Begin
<1> HIDE DEF F
<1>4. /\ d \in ListStates /\ d.filter = f /\ d.sort = s /\ d.limit = limit /\ d.page = 1
      /\ d.before = F /\ d.over = FALSE
  BY <1>1, <1>2 DEF ListStates
<1>5. \A j \in F : (1 - 1) * limit <= Place(jobs, f, s, j)
  <2>1. \A j \in F : Place(jobs, f, s, j) \in Nat
    <3>1. DOMAIN jobs \subseteq 1 .. MaxJobs
      BY DEF JobsInv
    <3> QED
      BY <1>1, <3>1, CreationsPush
  <2>2. (1 - 1) * limit = 0
    BY ListAssumption
  <2> QED
    BY <2>1, <2>2
<1>6. NothingSkipped(jobs, d)
  BY <1>1, <1>4, <1>5 DEF NothingSkipped
<1> QED
  BY <1>3, <1>4, <1>6 DEF ClientInv

LEMMA ClientKeeps ==
  ASSUME JobsInv, JobsInv', ClientInv, [JL!Next]_JL!vars
  PROVE  ClientInv'
<1>1. ASSUME client' = client, DOMAIN jobs \subseteq DOMAIN jobs', \A k \in DOMAIN jobs : jobs'[k] = jobs[k]
      PROVE  ClientInv'
  <2>1. CASE client = JL!NoList
    BY <1>1, <2>1 DEF ClientInv
  <2>2. CASE client # JL!NoList
    <3>1. PICK c \in ListStates : c = client
      BY <2>2 DEF ClientInv
    <3>2. ASSUME c.calm = TRUE PROVE NothingSkipped(jobs', c)
      <4>1. NothingSkipped(jobs, c)
        BY <2>2, <3>1, <3>2 DEF ClientInv
      <4>2. DOMAIN jobs' \subseteq 1 .. MaxJobs
        BY DEF JobsInv
      <4> QED
        BY <1>1, <4>1, <4>2, NothingIsLost
    <3> QED
      BY <1>1, <3>1, <3>2 DEF ClientInv
  <2> QED
    BY <2>1, <2>2
<1>2. ASSUME JL!Create PROVE ClientInv'
  <2>1. PICK j \in (1 .. MaxJobs) \ JL!Exists, t \in ListTopics, s \in Statuses, p \in {0, 1} :
          jobs' = [k \in JL!Exists \cup {j} |->
                    IF k = j THEN [topic |-> t, status |-> s, priority |-> p, created |-> now, updated |-> now]
                    ELSE jobs[k]]
    BY <1>2 DEF JL!Create
  <2>2. client' = client /\ DOMAIN jobs \subseteq DOMAIN jobs' /\ \A k \in DOMAIN jobs : jobs'[k] = jobs[k]
    BY <1>2, <2>1 DEF JL!Exists, JL!Create
  <2> QED
    BY <1>1, <2>2
<1>3. ASSUME JL!Disturb PROVE ClientInv'
  <2>1. CASE client = JL!NoList
    <3>1. JL!NoList.reading = FALSE
      BY DEF JL!NoList
    <3>2. client.reading = FALSE
      BY <2>1, <3>1
    <3>3. client' = client
      BY <1>3, <3>2 DEF JL!Disturb
    <3> QED
      BY <2>1, <3>3 DEF ClientInv
  <2>2. CASE client # JL!NoList
    <3>1. PICK c \in ListStates : c = client
      BY <2>2 DEF ClientInv
    <3>2. c.reading = TRUE
      BY DEF ListStates
    <3>3. client' = [c EXCEPT !.calm = FALSE]
      BY <1>3, <3>1, <3>2 DEF JL!Disturb
    <3>4. [c EXCEPT !.calm = FALSE] \in ListStates /\ [c EXCEPT !.calm = FALSE].calm = FALSE
      BY DEF ListStates
    <3> QED
      BY <3>3, <3>4 DEF ClientInv
  <2> QED
    BY <2>1, <2>2
<1>4. ASSUME JL!Finish PROVE ClientInv'
  BY <1>4 DEF JL!Finish, ClientInv
<1>5. ASSUME JL!Tick \/ UNCHANGED JL!vars PROVE ClientInv'
  <2>1. client' = client /\ jobs' = jobs
    BY <1>5 DEF JL!Tick, JL!vars
  <2> QED
    BY <1>1, <2>1
<1>6. ASSUME JL!Ask PROVE ClientInv'
  BY <1>6, ClientIsAnswered
<1>7. ASSUME NEW f \in Filters, NEW s \in Sorts, NEW limit \in Limits, JL!Begin(f, s, limit) PROVE ClientInv'
  BY <1>7, ClientBegins
<1>8. ASSUME NEW j \in JL!Exists, JL!Change(j) \/ JL!Delete(j) PROVE ClientInv'
  BY <1>3, <1>8 DEF JL!Change, JL!Delete
<1> QED
  BY <1>2, <1>4, <1>5, <1>6, <1>7, <1>8 DEF JL!Next

\* A client that reads the list page by page reads the whole list, however many jobs are created
\* meanwhile: for any sort, filter and size of the pages (Service.GetJobs).
THEOREM PagesAreTheList == JL!Spec => []PagesAreRight
<1>1. JL!Init => JobsInv /\ ClientInv
  BY ListBegins
<1>2. JobsInv /\ ClientInv /\ [JL!Next]_JL!vars => JobsInv' /\ ClientInv'
  BY JobsKeepTypes, ClientKeeps
<1>3. JobsInv /\ ClientInv => PagesAreRight
  BY PagesFollow DEF PagesAreRight
<1> QED
  BY <1>1, <1>2, <1>3, PTL DEF JL!Spec
=============================================================================
