----------------------------- MODULE Callbacks ------------------------------
(***************************************************************************)
(* The callbacks of the completed jobs (callback/callback.go): a goroutine *)
(* for each event that completes a job, a bounded number of them at work,  *)
(* a bounded number of attempts.  The service goes on with the job while   *)
(* its callback waits; nothing is saved, and a stop waits for none of it.  *)
(*                                                                         *)
(* The jobs all have a callback URL.  A receiver handles what it gets, but *)
(* its answer may be an error, or be lost.                                 *)
(***************************************************************************)
EXTENDS Naturals, FiniteSets

CONSTANTS
  Jobs,
  Slots,         \* maxConcurrentCallbacks
  MaxAttempts,   \* maxRetries + 1
  MaxCallbacks,  \* bound: callbacks
  MaxRestarts    \* bound: restarts of the process

Ids == 1 .. MaxCallbacks
Final == {"succeeded", "failed"}
Status == Final \cup {"canceled"}

VARIABLES
  state,     \* job -> its state
  callback,  \* the goroutines: job, status of its copy of the job, what it does, attempts
  received,  \* history: what the receivers were told of the jobs
  restarts

vars == <<state, callback, received, restarts>>

NoCallback == [job |-> "none", status |-> "none", does |-> "nothing", attempts |-> 0]
Used == {c \in Ids : callback[c].does # "nothing"}
AtWork == {c \in Ids : callback[c].does \in {"sending", "sleeping"}}

Init ==
  /\ state = [j \in Jobs |-> "running"]
  /\ callback = [c \in Ids |-> NoCallback]
  /\ received = {}
  /\ restarts = 0

-----------------------------------------------------------------------------
(* The service.                                                            *)

\* ExecuteCallbackAsync: a goroutine with a snapshot of the job.
ExecuteCallbackAsync(j, status) ==
  \E c \in Ids \ Used :
    /\ \A d \in Ids \ Used : c <= d
    /\ callback' = [callback EXCEPT ![c] =
         [job |-> j, status |-> status, does |-> "waiting", attempts |-> 0]]

\* The events Succeeded and Terminated.
Complete(j) ==
  /\ state[j] = "running"
  /\ \E s \in Final :
       /\ state' = [state EXCEPT ![j] = s]
       /\ ExecuteCallbackAsync(j, s)
  /\ UNCHANGED <<received, restarts>>

\* The event Canceled: the job is queued again right after.
Cancel(j) ==
  /\ state[j] = "running"
  /\ state' = [state EXCEPT ![j] = "queued"]
  /\ ExecuteCallbackAsync(j, "canceled")
  /\ UNCHANGED <<received, restarts>>

Start(j) ==
  /\ state[j] = "queued"
  /\ state' = [state EXCEPT ![j] = "running"]
  /\ UNCHANGED <<callback, received, restarts>>

\* A stop waits for no callback: those not done are lost.  The loaded jobs send none.
Restart ==
  /\ restarts < MaxRestarts
  /\ restarts' = restarts + 1
  /\ callback' = [c \in Ids |-> IF c \in Used THEN [callback[c] EXCEPT !.does = "done"] ELSE callback[c]]
  /\ UNCHANGED <<state, received>>

-----------------------------------------------------------------------------
(* The goroutines.                                                         *)

TakeSlot(c) ==
  /\ callback[c].does = "waiting"
  /\ Cardinality(AtWork) < Slots
  /\ callback' = [callback EXCEPT ![c].does = "sending"]
  /\ UNCHANGED <<state, received, restarts>>

\* A request with a copy of the job: it arrives or not; it is answered with success, or
\* with an error, or the answer is lost.  Then the goroutine ends, or sleeps.
Post(c, status, last) ==
  /\ callback[c].does = "sending"
  /\ \E arrives, answered \in BOOLEAN :
       /\ answered => arrives
       /\ received' = IF arrives THEN received \cup {[job |-> callback[c].job, status |-> status]}
                      ELSE received
       /\ callback' = [callback EXCEPT ![c].attempts = IF @ = MaxAttempts THEN @ ELSE @ + 1,
                                       ![c].does = IF answered \/ last THEN "done" ELSE "sleeping"]
  /\ UNCHANGED <<state, restarts>>

IsLast(c) == callback[c].attempts + 1 = MaxAttempts

\* Mutant: the payload is made when it is sent.
AttemptWithTheJob(c) == Post(c, state[callback[c].job], IsLast(c))

\* An attempt of sendCallback; after the last one the goroutine gives up.
Attempt(c) == Post(c, callback[c].status, IsLast(c))

\* After the delay between two attempts; the slot was kept.
WakeUp(c) ==
  /\ callback[c].does = "sleeping"
  /\ callback' = [callback EXCEPT ![c].does = "sending"]
  /\ UNCHANGED <<state, received, restarts>>

-----------------------------------------------------------------------------
Goroutine(c) == TakeSlot(c) \/ Attempt(c) \/ WakeUp(c)

Next ==
  \/ \E j \in Jobs : Complete(j) \/ Cancel(j) \/ Start(j)
  \/ Restart
  \/ \E c \in Ids : Goroutine(c)

Spec == Init /\ [][Next]_vars
-----------------------------------------------------------------------------
\* What a receiver is told of the end of a job is how the job ended, and a cancellation is
\* told as one: whatever happened to the job between the event and the last attempt.
ToldWhatHappened ==
  \A r \in received : r.status = "canceled" \/ (r.status \in Final /\ r.status = state[r.job])

\* A job's end makes one callback, in spite of the restarts that load the completed jobs.
EndIsToldOnce ==
  \A c, d \in Used :
    callback[c].job = callback[d].job /\ {callback[c].status, callback[d].status} \subseteq Final => c = d

\* The receivers are told of each end, once, and as it was.
EndsAreTold == ToldWhatHappened /\ EndIsToldOnce
=============================================================================
