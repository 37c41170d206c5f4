----------------------------- MODULE QueueIndex -----------------------------
(***************************************************************************)
(* The index of the queued jobs (service/queue.go): a binary heap of all   *)
(* the jobs and one for each topic, whose entries know their positions so  *)
(* that a job can be removed from the middle.  Every swap must move both   *)
(* positions, a search pops jobs and pushes them back, and a heap that     *)
(* loses its order gives the wrong job without any error.                  *)
(*                                                                         *)
(* Module Scheduler takes for granted what is checked here: that `first'   *)
(* answers with the first jobs in pull order.  A job is the rank it has in *)
(* that order (compareQueueEntries); indices begin at 1.                   *)
(***************************************************************************)
EXTENDS Naturals, Sequences, FiniteSets

CONSTANTS
  Jobs,      \* a set of natural numbers: their ranks
  Topics,
  TopicOf,   \* job -> topic
  MaxFirst   \* bound: jobs asked for at once

VARIABLES
  all,      \* the heap of all topics
  byTopic,  \* topic -> its heap (none when it is empty)
  answer    \* history: the last call of first, and its answer

vars == <<all, byTopic, answer>>
Any == "*"

\* A heap: its entries, and the position of each of them (0 for a job without entry).
EmptyHeap == [at |-> <<>>, pos |-> [j \in Jobs |-> 0]]
In(h) == {h.at[i] : i \in DOMAIN h.at}

Init ==
  /\ all = EmptyHeap
  /\ byTopic = [t \in Topics |-> EmptyHeap]
  /\ answer = [topic |-> Any, n |-> 0, of |-> {}, jobs |-> <<>>]

-----------------------------------------------------------------------------
(* jobHeap, and the algorithms of container/heap.                          *)

Less(h, a, b) == h.at[a] < h.at[b]

Swap(h, a, b) ==
  [at |-> [h.at EXCEPT ![a] = h.at[b], ![b] = h.at[a]],
   pos |-> [h.pos EXCEPT ![h.at[a]] = b, ![h.at[b]] = a]]

\* jobHeap.Push and Pop
Append1(h, j) == [at |-> Append(h.at, j), pos |-> [h.pos EXCEPT ![j] = Len(h.at) + 1]]
DropLast(h) == [h EXCEPT !.at = SubSeq(@, 1, Len(@) - 1)]

\* A loop is the function of its turns; a turn that stops it repeats its state.
UpTurn(c) ==
  IF c.i > 1 /\ Less(c.h, c.i, c.i \div 2)
    THEN [h |-> Swap(c.h, c.i, c.i \div 2), i |-> c.i \div 2] ELSE c

Up(h, i) ==
  LET turns[k \in Nat] == IF k = 0 THEN [h |-> h, i |-> i] ELSE UpTurn(turns[k - 1])
  IN  turns[i].h

\* The first of two children.
FirstChild(h, i, n) ==
  IF 2 * i + 1 <= n /\ Less(h, 2 * i + 1, 2 * i) THEN 2 * i + 1 ELSE 2 * i

DownTurn(c, n) ==
  LET child == FirstChild(c.h, c.i, n)
  IN  IF 2 * c.i <= n /\ Less(c.h, child, c.i)
        THEN [h |-> Swap(c.h, c.i, child), i |-> child] ELSE c

Down(h, i, n) ==
  LET turns[k \in Nat] == IF k = 0 THEN [h |-> h, i |-> i] ELSE DownTurn(turns[k - 1], n)
  IN  turns[n].h

HeapPush(h, j) == Up(Append1(h, j), Len(h.at) + 1)

HeapPop(h) ==
  LET n == Len(h.at)
  IN  DropLast(Down(Swap(h, 1, n), 1, n - 1))

\* Mutant: the entry that fills the hole only goes down.
HeapRemoveDown(h, i) ==
  LET n == Len(h.at)
  IN  DropLast(IF i = n THEN h ELSE Down(Swap(h, i, n), i, n - 1))

\* heap.Remove: the last entry fills the hole, and goes down, or else up.
HeapRemove(h, i) ==
  LET n == Len(h.at)
      moved == Down(Swap(h, i, n), i, n - 1)
  IN  DropLast(IF i = n THEN h
               ELSE IF moved.at[i] # h.at[n] THEN moved ELSE Up(moved, i))

-----------------------------------------------------------------------------
(* queuedJobs.                                                             *)

\* A job without entry has no position: an entry is new each time.
Forget(h, j) == [h EXCEPT !.pos[j] = 0]

Add(j) ==
  /\ j \notin In(all)
  /\ all' = HeapPush(all, j)
  /\ byTopic' = [byTopic EXCEPT ![TopicOf[j]] = HeapPush(@, j)]
  /\ UNCHANGED answer

Remove(j) ==
  /\ j \in In(all)
  /\ all' = Forget(HeapRemove(all, all.pos[j]), j)
  /\ byTopic' = [byTopic EXCEPT ![TopicOf[j]] = Forget(HeapRemove(@, @.pos[j]), j)]
  /\ UNCHANGED answer

\* n times the first, ...
PopTurn(c) ==
  IF c.heap.at = <<>> THEN c
  ELSE [heap |-> HeapPop(c.heap), jobs |-> Append(c.jobs, c.heap.at[1])]

Popped(h, n) ==
  LET turns[k \in Nat] == IF k = 0 THEN [heap |-> h, jobs |-> <<>>] ELSE PopTurn(turns[k - 1])
  IN  turns[n]

\* ... that are pushed back.
PushTurn(c) ==
  IF c.jobs = <<>> THEN c ELSE [heap |-> HeapPush(c.heap, Head(c.jobs)), jobs |-> Tail(c.jobs)]

PushedBack(h, jobs) ==
  LET turns[k \in Nat] == IF k = 0 THEN [heap |-> h, jobs |-> jobs] ELSE PushTurn(turns[k - 1])
  IN  turns[Len(jobs)].heap

First(topic, n) ==
  LET h == IF topic = Any THEN all ELSE byTopic[topic]
      popped == Popped(h, n)
      after == PushedBack(popped.heap, popped.jobs)
  IN  /\ answer' = [topic |-> topic, n |-> n, of |-> In(all), jobs |-> popped.jobs]
      /\ IF topic = Any THEN all' = after /\ byTopic' = byTopic
                        ELSE all' = all /\ byTopic' = [byTopic EXCEPT ![topic] = after]

Next ==
  \/ \E j \in Jobs : Add(j) \/ Remove(j)
  \/ \E topic \in Topics \cup {Any}, n \in 0 .. MaxFirst : First(topic, n)

Spec == Init /\ [][Next]_vars

-----------------------------------------------------------------------------
Heaps == {all} \cup {byTopic[t] : t \in Topics}

\* Every entry knows its positions: a removal never takes another job out.
PositionsAreRight == \A h \in Heaps : \A i \in DOMAIN h.at : h.pos[h.at[i]] = i

\* A job is before its children, after any removals from the middle.
HeapOrder == \A h \in Heaps : \A i \in DOMAIN h.at : i > 1 => ~Less(h, i, i \div 2)

\* The two indexes have the same jobs, once each.
IndexesAgree ==
  /\ \A t \in Topics : In(byTopic[t]) = {j \in In(all) : TopicOf[j] = t}
  /\ \A h \in Heaps : Cardinality(In(h)) = Len(h.at)

\* The answer of first is the beginning of the queue in pull order: no job that was left
\* out comes before one that was given.
AnswerIsFirst ==
  LET asked == {j \in answer.of : answer.topic \in {Any, TopicOf[j]}}
      given == {answer.jobs[i] : i \in DOMAIN answer.jobs}
  IN  /\ Len(answer.jobs) = IF answer.n < Cardinality(asked) THEN answer.n ELSE Cardinality(asked)
      /\ given \subseteq asked
      /\ \A i, k \in DOMAIN answer.jobs : i < k => answer.jobs[i] < answer.jobs[k]
      /\ \A j \in given, k \in asked \ given : j < k

\* The index gives the queued jobs in pull order, whatever was added and removed.
IndexIsRight == PositionsAreRight /\ HeapOrder /\ IndexesAgree /\ AnswerIsFirst
=============================================================================
