----------------------------- MODULE DelayParts -----------------------------
(***************************************************************************)
(* The linked list of the hidden and the delayed jobs, with its property   *)
(* under its own name.                                                     *)
(***************************************************************************)
EXTENDS Integers

CONSTANTS Values, Priorities, MaxTickets
VARIABLES node, head, length, out

PQ == INSTANCE PriorityQueue

ASSUME QueueAssumption == Priorities \in SUBSET Int /\ MaxTickets \in Nat

\* The linked list of pq.go is a delay queue.
ImplementsDelayQueue == PQ!ImplementsDelayQueue
=============================================================================
