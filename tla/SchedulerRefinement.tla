------------------------- MODULE SchedulerRefinement -------------------------
(* The scheduler implements JobQueue: the queues of the scheduler are the   *)
(* phases of the abstract job, its locks are the exclusion.                 *)
EXTENDS Scheduler

PhaseOf(j) ==
  CASE job[j].state \in {"Delayed", "Pending", "Hidden"}       -> "waiting"
    [] job[j].state = "Queued"                                 -> "ready"
    [] job[j].state = "Running"                                -> "leased"
    [] job[j].state \in {"Succeeded", "Failed", "Canceled"}    -> "done"
    [] job[j].state = "NoState"                                ->
         IF j < nextId THEN "gone" ELSE "none"

JQ == INSTANCE JobQueue WITH
        Jobs   <- JobIds,
        phase  <- [j \in JobIds |-> PhaseOf(j)],
        needs  <- [j \in JobIds |-> job[j].res],
        exempt <- stripped

\* Every step of the scheduler is a step of the abstract queue, or changes nothing
\* a client can tell.
ImplementsJobQueue == JQ!JQSpec
=============================================================================
