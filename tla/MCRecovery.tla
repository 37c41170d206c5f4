----------------------------- MODULE MCRecovery -----------------------------
(* Instances of Recovery for TLC. *)
EXTENDS Recovery

\* The first two jobs need r1, the last two r2.
MCNeeds == [j \in JobIds |-> CASE j = 1 -> {"r1"} [] j = 2 -> {"r1", "r2"} [] OTHER -> {"r2"}]

\* The second job, which needs both, may fail once more than the crash explains; the others
\* may not.
MCMaxFails == [j \in JobIds |-> IF j = 2 THEN MaxRetry + MaxCrashes + 1 ELSE 0]
=============================================================================
