------------------------------- MODULE MCCounts -------------------------------
(***************************************************************************)
(* Who counts the jobs, for TLC: the metrics of the server, and the        *)
(* consumers of the load test.  They share no state: the start chooses the *)
(* part that moves, and the other one has nothing to do.                   *)
(***************************************************************************)
EXTENDS MCServiceMetrics, Counts

VARIABLE part  \* the part that moves

\* Two workers of each kind, which answer, with an older job and one job to create; then
\* one worker of each kind, which does not always answer, with two jobs to create.
TestSettings ==
  {[level |-> 2, workers |-> 2, old |-> {"j"}], [level |-> 3, workers |-> 1, old |-> {}]}

testVars == <<phase, needs, exempt, fails, settings, faulty, main, tasks, producer,
              producerCompleted, producerErrors, consumer, jobsFailures, noted, counted>>

NoLoadTest ==
  /\ settings = [level |-> 0, workers |-> 0, old |-> {}] /\ faulty = FALSE
  /\ LT!ApiInit
  /\ main = "over" /\ tasks = 0
  /\ producer = <<>> /\ producerCompleted = 0 /\ producerErrors = 0 /\ consumer = <<>>
  /\ jobsFailures = fails /\ noted = fails /\ counted = fails

CountsInit ==
  /\ Init
  /\ \/ part = "metrics" /\ NoLoadTest
     \/ part = "load test" /\ LT!LTInit

CountsNext ==
  /\ UNCHANGED part
  /\ \/ part = "metrics" /\ Next /\ UNCHANGED testVars
     \/ part = "load test" /\ LT!LTNext /\ UNCHANGED vars

CountsSpec == CountsInit /\ [][CountsNext]_<<part, vars, testVars>> /\ LT!LTFairness
=============================================================================
