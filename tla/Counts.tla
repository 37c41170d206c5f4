------------------------------- MODULE Counts -------------------------------
(***************************************************************************)
(* Who counts the jobs: the metrics of the server, beside the consumers of *)
(* the load test.  They share no state: the load test has its own jobs.    *)
(***************************************************************************)
EXTENDS ServiceMetrics

CONSTANTS Jobs, TestResources, Settings
VARIABLES
  phase, needs, exempt, fails,   \* of Api
  settings, faulty, main, tasks, producer, producerCompleted, producerErrors,
  consumer, jobsFailures, noted, counted  \* of LoadTest

LT == INSTANCE LoadTest WITH Resources <- TestResources

\* The consumers count each job as completed once at most (loadtest.go:740).
EachEndCountsOnce == LT!EachEndCountsOnce

\* The load test ends (run_load_test).
TestEnds == LT!TestEnds
=============================================================================
