----------------------------- MODULE DelayQueue -----------------------------
(***************************************************************************)
(* What a priority queue promises to the service: a bag of jobs from which *)
(* the most urgent one leaves first, and of two equally urgent ones the    *)
(* one that came first.                                                    *)
(***************************************************************************)
EXTENDS Naturals, FiniteSets

CONSTANTS
  Values, Priorities,
  Tickets  \* numbers, given in the order of the arrivals

NoValue == "none"

VARIABLES
  waiting,  \* the entries: what waits, how urgent it is, and its ticket
  out,      \* the value that the last dequeue returned
  size      \* what Len returns

vars == <<waiting, out, size>>

\* e leaves before f.
Before(e, f) == e.priority > f.priority \/ (e.priority = f.priority /\ e.ticket < f.ticket)

Init == waiting = {} /\ out = NoValue /\ size = 0

Enter(v, p, n) ==
  /\ \A e \in waiting : e.ticket < n
  /\ waiting' = waiting \cup {[value |-> v, priority |-> p, ticket |-> n]}
  /\ UNCHANGED out

Leave(e) ==
  /\ \A f \in waiting \ {e} : Before(e, f)
  /\ waiting' = waiting \ {e}
  /\ out' = e.value

\* Nothing is urgent enough.
Refuse == out' = NoValue /\ UNCHANGED waiting

Cancel(v) ==
  /\ waiting' = {e \in waiting : e.value # v}
  /\ UNCHANGED out

Clear == waiting' = {} /\ UNCHANGED out

Next ==
  /\ \/ Refuse
     \/ Clear
     \/ \E e \in waiting : Leave(e)
     \/ \E v \in Values : Cancel(v)
     \/ \E v \in Values, p \in Priorities, n \in Tickets : Enter(v, p, n)
  /\ size' = Cardinality(waiting')

Spec == Init /\ [][Next]_vars
=============================================================================
