--------------------------- MODULE PriorityQueue ----------------------------
(***************************************************************************)
(* The priority queue of the retries and of the delayed jobs (pq/pq.go): a *)
(* linked list of nodes, kept in order by its insertions.                  *)
(*                                                                         *)
(* A priority is the opposite of a time, so that "at least as urgent as    *)
(* now" is "due".  A value is in the queue once at most: the service puts  *)
(* a job there when it enters the state that the queue stands for.         *)
(***************************************************************************)
EXTENDS Naturals, FiniteSets

CONSTANTS
  Values, Priorities,
  MaxTickets  \* bound: insertions

Nil == 0
NoValue == "none"

VARIABLES
  node,    \* the nodes that were allocated: value, priority, next
  head,
  length,
  out      \* history: what the last dequeue returned

vars == <<node, head, length, out>>

Allocated == DOMAIN node

\* The nodes from n on: those that a walk along the links cannot miss.
Follows(S) == \A m \in S : node[m].next \in S \cup {Nil}
Chain(n) ==
  {m \in Allocated : n # Nil /\ \A S \in SUBSET Allocated : n \in S /\ Follows(S) => m \in S}

Queued == {node[n].value : n \in Chain(head)}

Init == node = [n \in {} |-> Nil] /\ head = Nil /\ length = 0 /\ out = NoValue

-----------------------------------------------------------------------------
\* Where the walk of Enqueue stops: at the last node that is not less urgent.
LastNotLessUrgent(p) ==
  CHOOSE n \in Chain(head) :
    /\ node[n].priority >= p
    /\ node[n].next = Nil \/ node[node[n].next].priority < p

WithNode(n, v, p, next) ==
  [m \in Allocated \cup {n} |-> IF m = n THEN [value |-> v, priority |-> p, next |-> next] ELSE node[m]]

\* Mutant: a value goes before its equals.
LastMoreUrgent(p) ==
  CHOOSE n \in Chain(head) :
    /\ node[n].priority > p
    /\ node[n].next = Nil \/ node[node[n].next].priority <= p

EnqueueBeforeEquals(v, p) ==
  /\ v \notin Queued /\ Cardinality(Allocated) < MaxTickets
  /\ LET n == Cardinality(Allocated) + 1
         last == LastMoreUrgent(p)
     IN  IF head = Nil \/ node[head].priority <= p
           THEN node' = WithNode(n, v, p, head) /\ head' = n
           ELSE node' = [WithNode(n, v, p, node[last].next) EXCEPT ![last].next = n] /\ head' = head
  /\ length' = length + 1
  /\ UNCHANGED out

Enqueue(v, p) ==
  /\ v \notin Queued /\ Cardinality(Allocated) < MaxTickets
  /\ LET n == Cardinality(Allocated) + 1
         last == LastNotLessUrgent(p)
     IN  IF head = Nil \/ node[head].priority < p
           THEN node' = WithNode(n, v, p, head) /\ head' = n
           ELSE node' = [WithNode(n, v, p, node[last].next) EXCEPT ![last].next = n] /\ head' = head
  /\ length' = length + 1
  /\ UNCHANGED out

DequeueWithPriority(min) ==
  IF head = Nil \/ node[head].priority < min
    THEN out' = NoValue /\ UNCHANGED <<node, head, length>>
    ELSE /\ out' = node[head].value
         /\ head' = node[head].next
         /\ length' = length - 1
         /\ UNCHANGED node

\* The value is not there, is at the head, or after some node.
Remove(v) ==
  \/ /\ v \notin Queued
     /\ UNCHANGED <<node, head, length, out>>
  \/ /\ head # Nil /\ node[head].value = v
     /\ head' = node[head].next
     /\ length' = length - 1
     /\ UNCHANGED <<node, out>>
  \/ \E n \in Chain(head) :
       /\ node[n].next # Nil /\ node[node[n].next].value = v
       /\ node' = [node EXCEPT ![n].next = node[node[n].next].next]
       /\ length' = length - 1
       /\ UNCHANGED <<head, out>>

Clear == head' = Nil /\ length' = 0 /\ UNCHANGED <<node, out>>

Next ==
  \/ \E v \in Values, p \in Priorities : Enqueue(v, p)
  \/ \E min \in Priorities : DequeueWithPriority(min)
  \/ \E v \in Values : Remove(v)
  \/ Clear

Spec == Init /\ [][Next]_vars

-----------------------------------------------------------------------------
\* A node is its own ticket: it is allocated by the insertion.
Waiting == {[value |-> node[n].value, priority |-> node[n].priority, ticket |-> n] : n \in Chain(head)}

DQ == INSTANCE DelayQueue WITH waiting <- Waiting, size <- length, Tickets <- 1 .. MaxTickets

\* The list gives its jobs in the order of a delay queue, insertions and removals in any
\* order included, and counts them.
ImplementsDelayQueue == DQ!Spec
=============================================================================
