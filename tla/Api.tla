--------------------------------- MODULE Api ---------------------------------
(***************************************************************************)
(* The requests of the workers (web/apijobs.go), on the queue the service  *)
(* promises them (JobQueue): what an accepted request does, and what is    *)
(* answered.  A request that is refused changes nothing.                   *)
(*                                                                         *)
(* A request names a job, not a run of it: it is accepted if the job is    *)
(* running, whoever runs it.                                               *)
(***************************************************************************)
EXTENDS JobQueue

CONSTANT MaxRetry  \* jobs.retryPolicy.maxRetry

VARIABLE fails     \* Job.GetCountFaillures

apiVars == <<jqVars, fails>>

ApiInit == JQInit /\ fails = [j \in Jobs |-> 0]

Refused == UNCHANGED apiVars

CreateJob(j, R) == Submit(j, R) /\ UNCHANGED fails

\* The answer is 404 when no job is ready.
PullJob(j) == Lease({j}) /\ UNCHANGED fails

SetJobAsSuccessful(j) == Finish(j) /\ UNCHANGED fails

CancelJob(j) == GiveBack(j) /\ UNCHANGED fails

\* The answer is then "job reached max retry".
ReachesMaxRetry(j) == fails[j] + 1 >= MaxRetry

FailJob(j) ==
  /\ fails' = [fails EXCEPT ![j] = @ + 1]
  /\ IF ReachesMaxRetry(j) THEN Finish(j) ELSE GiveBack(j)

DeleteAllJobs ==
  /\ Forget({j \in Jobs : phase[j] # "none"})
  /\ UNCHANGED fails

\* The visibility check of the service fails a run in the same way.
RunTimesOut(j) == FailJob(j)

\* The service offers a job that waits: at its first scheduling, its retry, or when a
\* resource is free.
OfferJob(j) ==
  /\ phase[j] = "waiting"
  /\ Serve /\ phase'[j] = "ready"
  /\ UNCHANGED fails
=============================================================================
