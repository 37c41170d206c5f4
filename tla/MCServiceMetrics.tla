-------------------------- MODULE MCServiceMetrics --------------------------
(* Instances of ServiceMetrics for TLC. *)
EXTENDS ServiceMetrics

\* The first two jobs need r1, the last two r2, in two topics.
MCNeeds == [j \in 1 .. MaxJobId |-> CASE j = 1 -> {"r1"} [] j = 2 -> {"r1", "r2"} [] OTHER -> {"r2"}]
\* The second job, which needs both, may fail until it is given up.
MCMaxFails == [j \in 1 .. MaxJobId |-> IF j = 2 THEN 2 ELSE 0]
MCTopicOf == [j \in 1 .. MaxJobId |-> IF j = 1 THEN "a" ELSE "b"]
=============================================================================
