------------------------------- MODULE JobQueue ------------------------------
(***************************************************************************)
(* What minijob promises its clients, whatever the queues, timers and      *)
(* locks inside: a job is offered to the workers, leased to one of them at *)
(* a time, given back or finished, and jobs that need the same resource    *)
(* exclude each other from the moment they are offered (unless the admin   *)
(* API exempted one of them).                                              *)
(***************************************************************************)
EXTENDS Naturals

CONSTANTS Jobs, Resources

VARIABLES
  phase,   \* "none", "waiting", "ready" (offered), "leased", "done" or "gone"
  needs,   \* the resources of each job
  exempt   \* <<j, r>>: job j may not have r to itself

jqVars == <<phase, needs, exempt>>

Phases == {"none", "waiting", "ready", "leased", "done", "gone"}

Owns(ph) == {j \in Jobs : ph[j] \in {"ready", "leased"}}

Exclusive(ph, nd, ex) ==
  \A i, k \in Owns(ph) : \A r \in nd[i] \cap nd[k] :
    i # k => <<i, r>> \in ex \/ <<k, r>> \in ex

JQInit ==
  /\ phase = [j \in Jobs |-> "none"]
  /\ needs = [j \in Jobs |-> {}]
  /\ exempt = {}

\* After the main change of a step (ph), some waiting jobs are offered, and the
\* exclusion holds.
Offer(ph) ==
  \E T \in SUBSET {j \in Jobs : ph[j] = "waiting"} :
    /\ phase' = [j \in Jobs |-> IF j \in T THEN "ready" ELSE ph[j]]
    /\ Exclusive(phase', needs', exempt')

Submit(j, R) ==
  /\ phase[j] = "none"
  /\ needs' = [needs EXCEPT ![j] = R]
  /\ exempt' = exempt
  /\ Offer([phase EXCEPT ![j] = "waiting"])

Serve ==
  /\ exempt' \in SUBSET exempt
  /\ UNCHANGED needs
  /\ Offer(phase)

Lease(S) ==
  /\ \A j \in S : phase[j] = "ready"
  /\ phase' = [j \in Jobs |-> IF j \in S THEN "leased" ELSE phase[j]]
  /\ UNCHANGED <<needs, exempt>>

Finish(j) ==
  /\ phase[j] = "leased"
  /\ exempt' \in SUBSET exempt
  /\ UNCHANGED needs
  /\ Offer([phase EXCEPT ![j] = "done"])

GiveBack(j) ==
  /\ phase[j] = "leased"
  /\ exempt' \in SUBSET exempt
  /\ UNCHANGED needs
  /\ Offer([phase EXCEPT ![j] = "waiting"])

Forget(S) ==
  /\ \A j \in S : phase[j] # "none"
  /\ needs' = [j \in Jobs |-> IF j \in S THEN {} ELSE needs[j]]
  /\ exempt' \in SUBSET exempt
  /\ Offer([j \in Jobs |-> IF j \in S THEN "gone" ELSE phase[j]])

\* The admin API, and a restart, which settles who holds a contested resource.
Exempt(E) ==
  /\ \A p \in E : p[1] \in Owns(phase) /\ p[2] \in needs[p[1]]
  /\ exempt' = E
  /\ UNCHANGED needs
  /\ Offer(phase)

JQNext ==
  \/ \E j \in Jobs, R \in SUBSET Resources : Submit(j, R)
  \/ Serve
  \/ \E S \in SUBSET Jobs : Lease(S) \/ Forget(S)
  \/ \E j \in Jobs : Finish(j) \/ GiveBack(j)
  \/ \E E \in SUBSET (Jobs \X Resources) : Exempt(E)

JQSpec == JQInit /\ [][JQNext]_jqVars
=============================================================================
