----------------------------- MODULE ServerProofs -----------------------------
(***************************************************************************)
(* Theorems about the process: what a stop of one loop promises, for any   *)
(* loops and callers (module Lifecycle), what the goroutines it does not   *)
(* wait for tell the receivers (module Callbacks), and what a run leaves   *)
(* behind when it is over, for any requests, runs and changes (Server).    *)
(***************************************************************************)
EXTENDS Server, ProcessParts, TLAPS

-----------------------------------------------------------------------------
(* One loop and its stops.                                                 *)

(* What Begin and Stop learn under the mutex: a caller that read `started' *)
(* did so after a loop had begun, and one that did not has closed the door *)
(* on every loop that has not begun.                                       *)
StopOrder ==
  \A c \in Callers :
    /\ saw[c] => started
    /\ caller[c] # "new" /\ ~saw[c] => \A l \in Loops : loop[l] \in {"new", "refused"}
    /\ caller[c] = "waiting" => saw[c] /\ stop
    /\ caller[c] = "returned" /\ saw[c] => done

LifecycleInv == LC!TypeOK /\ LC!RunsOnce /\ StopOrder

LEMMA LifecycleBegins == LC!Init => LifecycleInv
BY DEF LC!Init, LifecycleInv, LC!TypeOK, LC!RunsOnce, StopOrder

LEMMA BeginPreserves == \A l \in Loops : LifecycleInv /\ LC!Begin(l) => LifecycleInv'
<1> SUFFICES ASSUME NEW l \in Loops, LifecycleInv, LC!Begin(l) PROVE LifecycleInv'
  OBVIOUS
<1>1. LC!TypeOK'
  <2>1. CASE started \/ stopped
    BY <2>1, SMTT(30) DEF LC!Begin, LifecycleInv, LC!TypeOK
  <2>2. CASE ~started /\ ~stopped
    <3>1. started' = TRUE
      BY <2>2 DEF LC!Begin
    <3>2. loop' = [loop EXCEPT ![l] = "running"]
      BY <2>2 DEF LC!Begin
    <3>3. loop'[l] = "running"
      BY <3>2 DEF LifecycleInv, LC!TypeOK
    <3>4. \A m \in Loops : loop'[m] = "ended" <=> loop[m] = "ended"
      BY <3>2, <3>3 DEF LC!Begin, LifecycleInv, LC!TypeOK
    <3> QED BY <3>1, <3>2, <3>3, <3>4 DEF LC!Begin, LifecycleInv, LC!TypeOK
  <2> QED BY <2>1, <2>2
<1>2. LC!RunsOnce'
  <2>1. CASE started \/ stopped
    BY <2>1, SMTT(30) DEF LC!Begin, LifecycleInv, LC!TypeOK, LC!RunsOnce
  <2>2. CASE ~started /\ ~stopped
    BY <2>2, SMTT(30) DEF LC!Begin, LifecycleInv, LC!TypeOK, LC!RunsOnce
  <2> QED BY <2>1, <2>2
<1>3. StopOrder'
  <2> SUFFICES ASSUME NEW c \in Callers
               PROVE  (/\ saw[c] => started
                       /\ caller[c] # "new" /\ ~saw[c] =>
                            \A m \in Loops : loop[m] \in {"new", "refused"}
                       /\ caller[c] = "waiting" => saw[c] /\ stop
                       /\ caller[c] = "returned" /\ saw[c] => done)'
    BY DEF StopOrder
  <2>1. CASE caller[c] = "new"
    BY <2>1, SMTT(30) DEF LC!Begin, LifecycleInv, LC!TypeOK, StopOrder
  \* This caller has set `stopped': no loop begins any more.
  <2>2. CASE caller[c] # "new"
    BY <2>2, SMTT(30) DEF LC!Begin, LifecycleInv, LC!TypeOK, StopOrder
  <2> QED BY <2>1, <2>2
<1> QED BY <1>1, <1>2, <1>3 DEF LifecycleInv

LEMMA EndPreserves == \A l \in Loops : LifecycleInv /\ LC!End(l) => LifecycleInv'
<1> SUFFICES ASSUME NEW l \in Loops, LifecycleInv, LC!End(l) PROVE LifecycleInv'
  OBVIOUS
<1>1. LC!TypeOK'
  BY SMTT(30) DEF LC!End, LifecycleInv, LC!TypeOK
<1>2. LC!RunsOnce'
  BY SMTT(30) DEF LC!End, LifecycleInv, LC!TypeOK, LC!RunsOnce
<1>3. StopOrder'
  BY SMTT(30) DEF LC!End, LifecycleInv, LC!TypeOK, StopOrder
<1> QED BY <1>1, <1>2, <1>3 DEF LifecycleInv

LEMMA StopPreserves ==
  \A c \in Callers :
    LifecycleInv /\ (LC!MarkStopped(c) \/ LC!CloseStop(c) \/ LC!WaitDone(c)) => LifecycleInv'
<1> SUFFICES ASSUME NEW c \in Callers, LifecycleInv,
                    LC!MarkStopped(c) \/ LC!CloseStop(c) \/ LC!WaitDone(c)
             PROVE  LifecycleInv'
  OBVIOUS
<1>1. CASE LC!MarkStopped(c)
  <2>1. LC!TypeOK' /\ LC!RunsOnce'
    BY <1>1, SMTT(30) DEF LC!MarkStopped, LifecycleInv, LC!TypeOK, LC!RunsOnce
  <2>2. StopOrder'
    BY <1>1, SMTT(30) DEF LC!MarkStopped, LifecycleInv, LC!TypeOK, StopOrder
  <2> QED BY <2>1, <2>2 DEF LifecycleInv
<1>2. CASE LC!CloseStop(c)
  <2>1. LC!TypeOK' /\ LC!RunsOnce'
    BY <1>2, SMTT(30) DEF LC!CloseStop, LifecycleInv, LC!TypeOK, LC!RunsOnce
  <2>2. StopOrder'
    BY <1>2, SMTT(30) DEF LC!CloseStop, LifecycleInv, LC!TypeOK, StopOrder
  <2> QED BY <2>1, <2>2 DEF LifecycleInv
<1>3. CASE LC!WaitDone(c)
  <2>1. LC!TypeOK' /\ LC!RunsOnce'
    BY <1>3, SMTT(30) DEF LC!WaitDone, LifecycleInv, LC!TypeOK, LC!RunsOnce
  <2>2. StopOrder'
    BY <1>3, SMTT(30) DEF LC!WaitDone, LifecycleInv, LC!TypeOK, StopOrder
  <2> QED BY <2>1, <2>2 DEF LifecycleInv
<1> QED BY <1>1, <1>2, <1>3

LEMMA StutterPreserves == LifecycleInv /\ UNCHANGED LC!vars => LifecycleInv'
BY DEF LC!vars, LifecycleInv, LC!TypeOK, LC!RunsOnce, StopOrder

\* The state keeps its shape, the loops and callers their order, in every reachable state.
THEOREM LifecycleInvariance == LC!Spec => []LifecycleInv
<1>1. LifecycleInv /\ [LC!Next]_LC!vars => LifecycleInv'
  BY BeginPreserves, EndPreserves, StopPreserves, StutterPreserves DEF LC!Next
<1> QED BY <1>1, LifecycleBegins, PTL DEF LC!Spec

\* The flags and the channels tell what the goroutines did.
THEOREM LifecycleTypeCorrect == LC!Spec => []LC!TypeOK
<1>1. LifecycleInv => LC!TypeOK
  BY DEF LifecycleInv
<1> QED BY <1>1, LifecycleInvariance, PTL

\* However many callers stop it, none returns while a loop runs or may still begin.
LEMMA NoLoopIsLeft == LifecycleInv => LC!NothingRunsAfterStop
<1> SUFFICES ASSUME LifecycleInv, NEW c \in Callers, caller[c] = "returned", NEW l \in Loops
             PROVE  loop[l] # "running"
  BY DEF LC!NothingRunsAfterStop
<1>1. CASE saw[c]
  <2>1. PICK m \in Loops : loop[m] = "ended"
    BY <1>1 DEF LifecycleInv, StopOrder, LC!TypeOK
  <2> QED BY <2>1 DEF LifecycleInv, LC!RunsOnce
<1>2. CASE ~saw[c]
  BY <1>2 DEF LifecycleInv, StopOrder
<1> QED BY <1>1, <1>2

\* Stop answers TRUE exactly when the loop did its last work.
LEMMA AnswersAreTrue == LifecycleInv => LC!StopTellsTheTruth
<1> SUFFICES ASSUME LifecycleInv, NEW c \in Callers, caller[c] = "returned"
             PROVE  saw[c] <=> \E l \in Loops : loop[l] = "ended"
  BY DEF LC!StopTellsTheTruth
<1>1. saw[c] => \E l \in Loops : loop[l] = "ended"
  BY DEF LifecycleInv, StopOrder, LC!TypeOK
<1>2. ~saw[c] => ~\E l \in Loops : loop[l] = "ended"
  BY DEF LifecycleInv, StopOrder
<1> QED BY <1>1, <1>2

\* A caller that waits saw a loop that had begun: it runs, and was told to stop, or is over.
LEMMA WaitersAreServed == LifecycleInv => LC!NobodyWaitsForNothing
<1> SUFFICES ASSUME LifecycleInv, NEW c \in Callers, caller[c] = "waiting", ~done
             PROVE  stop /\ \E l \in Loops : loop[l] = "running"
  BY DEF LC!NobodyWaitsForNothing
<1>1. stop /\ started
  BY DEF LifecycleInv, StopOrder
<1>2. \E l \in Loops : loop[l] \in {"running", "ended"}
  BY <1>1 DEF LifecycleInv, LC!TypeOK
<1> QED BY <1>1, <1>2 DEF LifecycleInv, LC!TypeOK

\* One loop runs, whoever calls Begin; it stops, and all who stop it learn what it did.
THEOREM StopsAreRight == LC!Spec => []StopIsRight
<1>1. LifecycleInv => StopIsRight
  BY NoLoopIsLeft, AnswersAreTrue, WaitersAreServed DEF LifecycleInv, StopIsRight, LC!StopIsRight
<1> QED BY <1>1, LifecycleInvariance, PTL

-----------------------------------------------------------------------------
(* The callbacks.                                                          *)

Goroutines ==
  [job : Jobs \cup {"none"}, status : CB!Status \cup {"none"},
   does : {"nothing", "waiting", "sending", "sleeping", "done"}, attempts : Nat]

CallbackTypes ==
  /\ state = [j \in Jobs |-> state[j]]
  /\ callback \in [CB!Ids -> Goroutines]
  /\ \A c \in CB!Used : callback[c].job \in Jobs
  /\ received \in SUBSET [job : Jobs, status : CB!Status]

\* The snapshot of a callback stays true: a job that succeeded or failed does nothing more.
SnapshotsAreTrue ==
  \A c \in CB!Used :
    /\ callback[c].status \in CB!Status
    /\ callback[c].status \in CB!Final => state[callback[c].job] = callback[c].status

CallbacksInv == CallbackTypes /\ SnapshotsAreTrue /\ CB!EndsAreTold

LEMMA CallbacksBegin == CB!Init => CallbacksInv
<1> SUFFICES ASSUME CB!Init PROVE CallbacksInv
  OBVIOUS
<1>1. CB!Used = {}
  BY DEF CB!Init, CB!Used, CB!NoCallback
<1>2. CallbackTypes
  BY <1>1 DEF CB!Init, CallbackTypes, Goroutines, CB!NoCallback
<1> QED
  BY <1>1, <1>2 DEF CB!Init, CallbacksInv, SnapshotsAreTrue, CB!EndsAreTold, CB!ToldWhatHappened,
                    CB!EndIsToldOnce

\* The event of a running job starts a goroutine with a snapshot of it.
LEMMA EventKeepsCallbacks ==
  ASSUME CallbacksInv, NEW j \in Jobs, NEW s \in CB!Status, NEW after, state[j] = "running",
         state' = [state EXCEPT ![j] = after], s \in CB!Final => after = s,
         CB!ExecuteCallbackAsync(j, s), UNCHANGED received
  PROVE  CallbacksInv'
<1>1. PICK c \in CB!Ids \ CB!Used :
        callback' = [callback EXCEPT ![c] =
          [job |-> j, status |-> s, does |-> "waiting", attempts |-> 0]]
  BY DEF CB!ExecuteCallbackAsync
<1>2. /\ CallbackTypes /\ SnapshotsAreTrue /\ CB!ToldWhatHappened /\ CB!EndIsToldOnce
      /\ "running" \notin CB!Final
  BY DEF CallbacksInv, CB!EndsAreTold, CB!Final
<1>3. /\ callback'[c] = [job |-> j, status |-> s, does |-> "waiting", attempts |-> 0]
      /\ \A d \in CB!Ids : d # c => callback'[d] = callback[d]
      /\ state'[j] = after /\ \A i \in Jobs : i # j => state'[i] = state[i]
  BY <1>1, <1>2 DEF CallbackTypes
<1>4. CB!Used' = CB!Used \cup {c}
  BY <1>1, <1>3 DEF CB!Used
<1>5. \A d \in CB!Used : callback[d].status \in CB!Final => callback[d].job \in Jobs \ {j}
  BY <1>2 DEF SnapshotsAreTrue, CallbackTypes
<1>6. CallbackTypes'
  BY <1>1, <1>2, <1>3, <1>4 DEF CallbackTypes, Goroutines, CB!Used
<1>7. \A d \in CB!Used : d # c /\ callback'[d] = callback[d]
  BY <1>1, <1>3 DEF CB!Used
<1>8. SnapshotsAreTrue'
  <2>1. ASSUME NEW d \in CB!Used'
        PROVE  /\ callback'[d].status \in CB!Status
               /\ callback'[d].status \in CB!Final => state'[callback'[d].job] = callback'[d].status
    <3>1. CASE d = c
      BY <1>3, <3>1
    <3>2. CASE d \in CB!Used
      BY <1>2, <1>3, <1>5, <1>7, <3>2 DEF SnapshotsAreTrue
    <3> QED
      BY <1>4, <2>1, <3>1, <3>2
  <2> QED
    BY <2>1 DEF SnapshotsAreTrue
<1>9. CB!ToldWhatHappened'
  <2>1. ASSUME NEW r \in received, r.status \in CB!Final, r.status = state[r.job]
        PROVE  r.status = state'[r.job]
    <3>1. r.job \in Jobs /\ r.job # j
      BY <1>2, <2>1 DEF CallbackTypes
    <3> QED
      BY <1>3, <2>1, <3>1
  <2> QED
    BY <1>2, <2>1 DEF CB!ToldWhatHappened
<1>10. CB!EndIsToldOnce'
  <2>1. ASSUME NEW d \in CB!Used', NEW e \in CB!Used', callback'[d].job = callback'[e].job,
               callback'[d].status \in CB!Final, callback'[e].status \in CB!Final
        PROVE  d = e
    <3>1. CASE d \in CB!Used /\ e \in CB!Used
      BY <1>2, <1>7, <2>1, <3>1 DEF CB!EndIsToldOnce
    <3>2. CASE d = c /\ e \in CB!Used
      BY <1>3, <1>5, <1>7, <2>1, <3>2
    <3>3. CASE e = c /\ d \in CB!Used
      BY <1>3, <1>5, <1>7, <2>1, <3>3
    <3> QED
      BY <1>4, <2>1, <3>1, <3>2, <3>3
  <2> QED
    BY <2>1 DEF CB!EndIsToldOnce
<1> QED
  BY <1>6, <1>8, <1>9, <1>10 DEF CallbacksInv, CB!EndsAreTold

\* The goroutines, and a restart, change what the callbacks do and not what they tell.
LEMMA WorkKeepsCallbacks ==
  ASSUME CallbacksInv, UNCHANGED state, CallbackTypes',
         CB!Used' = CB!Used,
         \A c \in CB!Used : callback'[c].job = callback[c].job /\ callback'[c].status = callback[c].status,
         \A r \in received' \ received :
           \E c \in CB!Used : r = [job |-> callback[c].job, status |-> callback[c].status]
  PROVE  CallbacksInv'
<1>1. SnapshotsAreTrue'
  BY DEF CallbacksInv, SnapshotsAreTrue
<1>2. CB!ToldWhatHappened'
  <2>1. ASSUME NEW r \in received'
        PROVE  r.status = "canceled" \/ (r.status \in CB!Final /\ r.status = state[r.job])
    <3>1. CASE r \in received
      BY <3>1 DEF CallbacksInv, CB!EndsAreTold, CB!ToldWhatHappened
    <3>2. CASE r \notin received
      <4>1. PICK c \in CB!Used : r = [job |-> callback[c].job, status |-> callback[c].status]
        BY <2>1, <3>2
      <4> QED
        BY <4>1 DEF CallbacksInv, SnapshotsAreTrue, CB!Status
    <3> QED
      BY <3>1, <3>2
  <2> QED
    BY <2>1 DEF CB!ToldWhatHappened
<1>3. CB!EndIsToldOnce'
  BY DEF CallbacksInv, CB!EndsAreTold, CB!EndIsToldOnce
<1> QED
  BY <1>1, <1>2, <1>3 DEF CallbacksInv, CB!EndsAreTold

LEMMA TwoFields ==
  ASSUME NEW r \in Goroutines, NEW n \in Nat, NEW d \in {"done", "sleeping"}
  PROVE  [r EXCEPT !.attempts = n, !.does = d] =
           [job |-> r.job, status |-> r.status, does |-> d, attempts |-> n]
<1>1. PICK s \in Goroutines : s = [r EXCEPT !.attempts = n]
  BY DEF Goroutines
<1>2. [r EXCEPT !.attempts = n, !.does = d] = [s EXCEPT !.does = d]
  BY <1>1
<1>3. [s EXCEPT !.does = d] =
        [job |-> s.job, status |-> s.status, does |-> d, attempts |-> s.attempts]
  BY DEF Goroutines
<1>4. s.job = r.job /\ s.status = r.status /\ s.attempts = n
  BY <1>1 DEF Goroutines
<1> QED
  BY <1>2, <1>3, <1>4

LEMMA CallbacksNext ==
  ASSUME CallbacksInv, [CB!Next]_CB!vars
  PROVE  CallbacksInv'
<1>1. ASSUME NEW j \in Jobs, CB!Complete(j) PROVE CallbacksInv'
  BY <1>1, EventKeepsCallbacks DEF CB!Complete, CB!Status
<1>2. ASSUME NEW j \in Jobs, CB!Cancel(j) PROVE CallbacksInv'
  BY <1>2, EventKeepsCallbacks DEF CB!Cancel, CB!Status, CB!Final
<1>3. ASSUME NEW j \in Jobs, CB!Start(j) PROVE CallbacksInv'
  <2>1. /\ state[j] = "queued" /\ state' = [state EXCEPT ![j] = "running"]
        /\ UNCHANGED <<callback, received>>
    BY <1>3 DEF CB!Start
  <2>2. \A i \in Jobs : state[i] \in CB!Final => state'[i] = state[i]
    BY <2>1 DEF CallbacksInv, CallbackTypes, CB!Final
  <2>3. \A r \in received : r.job \in Jobs
    BY DEF CallbacksInv, CallbackTypes
  <2> QED
    BY <2>1, <2>2, <2>3 DEF CallbacksInv, CallbackTypes, SnapshotsAreTrue, CB!EndsAreTold,
                            CB!ToldWhatHappened, CB!EndIsToldOnce, CB!Used
<1>4. ASSUME NEW c \in CB!Used, NEW d \in {"sending", "sleeping", "done"}, NEW n \in Nat,
             callback' = [callback EXCEPT ![c] = [job |-> callback[c].job, status |-> callback[c].status,
                                                  does |-> d, attempts |-> n]],
             UNCHANGED state,
             received' \in {received,
                            received \cup {[job |-> callback[c].job, status |-> callback[c].status]}}
      PROVE  CallbacksInv'
  <2> DEFINE r == [job |-> callback[c].job, status |-> callback[c].status, does |-> d, attempts |-> n]
  <2>1. /\ c \in CB!Ids /\ callback[c].job \in Jobs /\ callback[c].status \in CB!Status
    BY DEF CallbacksInv, CallbackTypes, SnapshotsAreTrue, CB!Used
  <2>2. r \in Goroutines /\ r.job = callback[c].job /\ r.status = callback[c].status /\ r.does = d
    BY <2>1 DEF Goroutines
  <2>3. callback'[c] = r /\ \A e \in CB!Ids : e # c => callback'[e] = callback[e]
    BY <1>4, <2>1 DEF CallbacksInv, CallbackTypes
  <2>4. callback' \in [CB!Ids -> Goroutines]
    BY <1>4, <2>2 DEF CallbacksInv, CallbackTypes
  <2> HIDE DEF r
  <2>5. CB!Used' = CB!Used
    BY <2>2, <2>3 DEF CB!Used
  <2>6. \A e \in CB!Used : callback'[e].job = callback[e].job /\ callback'[e].status = callback[e].status
    BY <2>2, <2>3 DEF CB!Used
  <2>7. received' \in SUBSET [job : Jobs, status : CB!Status]
    BY <1>4, <2>1 DEF CallbacksInv, CallbackTypes
  <2>8. CallbackTypes'
    BY <1>4, <2>4, <2>5, <2>6, <2>7 DEF CallbacksInv, CallbackTypes
  <2>9. \A q \in received' \ received :
          \E e \in CB!Used : q = [job |-> callback[e].job, status |-> callback[e].status]
    BY <1>4
  <2> QED
    BY <1>4, <2>5, <2>6, <2>8, <2>9, WorkKeepsCallbacks
<1>5. \A c \in CB!Ids :
        /\ callback[c] \in Goroutines /\ callback[c].attempts \in Nat
        /\ \A b : callback[c].does = b /\ b # "nothing" => c \in CB!Used
  BY DEF CallbacksInv, CallbackTypes, Goroutines, CB!Used
<1>6. ASSUME NEW c \in CB!Ids, CB!TakeSlot(c) \/ CB!WakeUp(c) PROVE CallbacksInv'
  <2> DEFINE r == [job |-> callback[c].job, status |-> callback[c].status,
                   does |-> "sending", attempts |-> callback[c].attempts]
  <2>1. callback' = [callback EXCEPT ![c].does = "sending"] /\ UNCHANGED <<state, received>>
    BY <1>6 DEF CB!TakeSlot, CB!WakeUp
  <2>2. [callback[c] EXCEPT !.does = "sending"] = r
    BY <1>5 DEF Goroutines
  <2>3. callback' = [callback EXCEPT ![c] = r]
    BY <2>1, <2>2
  <2>4. c \in CB!Used
    BY <1>5, <1>6 DEF CB!TakeSlot, CB!WakeUp
  <2> QED
    BY <1>4, <1>5, <2>1, <2>3, <2>4
<1>7. ASSUME NEW c \in CB!Ids, CB!Attempt(c) PROVE CallbacksInv'
  <2> DEFINE n == IF callback[c].attempts = MaxAttempts THEN callback[c].attempts
                  ELSE callback[c].attempts + 1
  <2>1. PICK d \in {"done", "sleeping"} :
          callback' = [callback EXCEPT ![c].attempts = n, ![c].does = d]
    BY <1>7 DEF CB!Attempt, CB!Post
  <2>2. /\ callback' = [callback EXCEPT ![c] =
             [job |-> callback[c].job, status |-> callback[c].status, does |-> d, attempts |-> n]]
        /\ n \in Nat
    <3>1. n \in Nat /\ callback[c] \in Goroutines
      BY <1>5
    <3> HIDE DEF n
    <3>2. callback' = [callback EXCEPT ![c] = [callback[c] EXCEPT !.attempts = n, !.does = d]]
      BY <2>1, <3>1 DEF CallbacksInv, CallbackTypes
    <3>3. PICK m \in Nat, g \in Goroutines : m = n /\ g = callback[c]
      BY <3>1
    <3>4. [g EXCEPT !.attempts = m, !.does = d] =
            [job |-> g.job, status |-> g.status, does |-> d, attempts |-> m]
      BY TwoFields
    <3> QED
      BY <3>1, <3>2, <3>3, <3>4
  <2>3. c \in CB!Used /\ UNCHANGED state
    BY <1>5, <1>7 DEF CB!Attempt, CB!Post
  <2>4. received' \in {received, received \cup {[job |-> callback[c].job, status |-> callback[c].status]}}
    BY <1>7 DEF CB!Attempt, CB!Post
  <2> QED
    BY <1>4, <2>2, <2>3, <2>4
<1>8. CASE CB!Restart
  <2>1. callback' = [c \in CB!Ids |-> IF c \in CB!Used THEN [callback[c] EXCEPT !.does = "done"]
                                     ELSE callback[c]]
    BY <1>8 DEF CB!Restart
  <2>2. \A c \in CB!Ids :
          [callback[c] EXCEPT !.does = "done"] =
            [job |-> callback[c].job, status |-> callback[c].status, does |-> "done",
             attempts |-> callback[c].attempts]
    BY <1>5 DEF Goroutines
  <2>3. \A c \in CB!Used : callback'[c].job = callback[c].job /\ callback'[c].status = callback[c].status
    BY <2>1, <2>2 DEF CB!Used
  <2>4. CB!Used' = CB!Used
    BY <2>1, <2>2 DEF CB!Used
  <2>5. CallbackTypes'
    <3>1. ASSUME NEW c \in CB!Ids
          PROVE  callback'[c] \in Goroutines
      BY <1>5, <2>1, <2>2 DEF Goroutines
    <3>2. callback' \in [CB!Ids -> Goroutines]
      BY <2>1, <3>1
    <3> QED
      BY <1>8, <2>3, <2>4, <3>2 DEF CB!Restart, CallbacksInv, CallbackTypes
  <2> QED
    BY <1>8, <2>3, <2>4, <2>5, WorkKeepsCallbacks DEF CB!Restart
<1>9. CASE UNCHANGED CB!vars
  BY <1>9, WorkKeepsCallbacks DEF CB!vars, CallbacksInv, CallbackTypes, CB!Used
<1> QED
  BY <1>1, <1>2, <1>3, <1>6, <1>7, <1>8, <1>9 DEF CB!Next, CB!Goroutine

\* Whatever number of jobs, of callbacks at once, of attempts, and of restarts: a goroutine that
\* waits for its slot or sleeps between two attempts tells what its snapshot says
\* (ExecuteCallbackAsync), which is how the job ended, and no end makes a second goroutine.
THEOREM ReceiversAreToldRight == CB!Spec => []EndsAreTold
<1>1. CallbacksInv /\ [CB!Next]_CB!vars => CallbacksInv'
  BY CallbacksNext
<1>2. CallbacksInv => EndsAreTold
  BY DEF CallbacksInv, EndsAreTold
<1> QED
  BY <1>1, <1>2, CallbacksBegin, PTL DEF CB!Spec

-----------------------------------------------------------------------------
(* The state of the process.                                               *)

SvcPlaces == {"none", "new", "running", "stop backend", "ended", "refused"}
BpPlaces == {"none", "new", "running", "ended", "refused"}
MainPlaces == {"load", "initialize", "serve", "drain", "stop service", "wait for service",
               "stop backend", "notify observers", "finished", "ended"}

\* A request is in a run that has begun, and asks for a restart only if there may be one.
RequestOk(r) ==
  \/ r = NoRequest
  \/ /\ r \in [run : 1 .. run, does : {"change", "shutdown", "TERM", "HUP"}]
     /\ r.does = "HUP" => r.run < MaxRuns

Typed ==
  /\ run \in Runs /\ main \in MainPlaces /\ outcome \in {"exit", "restart"}
  /\ outcome = "restart" /\ main \notin {"load", "initialize"} => run < MaxRuns
  /\ svcLoop \in [Runs -> SvcPlaces] /\ bpLoop \in [Runs -> BpPlaces]
  /\ svcStopped \in [Runs -> BOOLEAN] /\ bpStopped \in [Runs -> BOOLEAN]
  /\ signals \in [Runs -> {"empty", "TERM", "HUP"}]
  /\ \A n \in Runs : signals[n] = "HUP" => n < MaxRuns
  /\ status \in [Runs -> {"none", "running", "stopping", "initialized"}]
  /\ jobs \in [Runs -> SUBSET Nat] /\ late \in [Runs -> SUBSET Nat]
  /\ file \in SUBSET Nat /\ made \in Nat
  /\ DOMAIN request = Requests /\ \A q \in Requests : RequestOk(request[q])

\* A run that has not begun has nothing.
Untouched(n) ==
  svcLoop[n] = "none" /\ bpLoop[n] = "none" /\ ~svcStopped[n] /\ ~bpStopped[n]

\* The flags of the two lifecycles, and the places of their loops, go together: the backend
\* is stopped by the loop of the service, or after it.
Ordered(n) ==
  /\ svcLoop[n] \in {"stop backend", "ended", "refused"} => svcStopped[n]
  /\ bpStopped[n] => svcStopped[n] /\ svcLoop[n] # "running"
  /\ bpLoop[n] = "none" <=> ~SvcStarted(n)
  /\ bpLoop[n] \in {"ended", "refused"} => bpStopped[n]
  /\ svcLoop[n] = "ended" => bpStopped[n] /\ bpLoop[n] # "running"

\* No loop runs or will.
Quiet(n) ==
  /\ svcStopped[n] /\ bpStopped[n]
  /\ svcLoop[n] \notin {"none", "running", "stop backend"} /\ bpLoop[n] # "running"

\* Where the main goroutine is tells what it has stopped.
MainKnows ==
  /\ main = "load" => Untouched(run)
  /\ main # "load" => svcLoop[run] # "none"
  /\ main \in {"load", "initialize", "serve", "drain", "stop service"} <=> ~svcStopped[run]
  /\ main = "wait for service" => SvcStarted(run)
  /\ main = "stop backend" => ~SvcStarted(run)
  /\ main \in {"notify observers", "finished", "ended"} => Quiet(run)

Kept(n) == jobs[n] \ late[n]

\* What a run that is over has changed is in the file, and in the memory of the run that
\* loaded it, which writes the file again.
Inherited ==
  \A n \in 1 .. run - 1 : Kept(n) \subseteq file /\ (main # "load" => Kept(n) \subseteq jobs[run])

\* The last save of the run has been made, by one side or the other.
SavedAtLast ==
  \/ bpLoop[run] = "ended" \/ svcLoop[run] = "ended"
  \/ main \in {"notify observers", "finished", "ended"}
  => Kept(run) \subseteq file

Control ==
  /\ \A n \in Runs : (n > run => Untouched(n)) /\ (n < run => Quiet(n)) /\ Ordered(n)
  /\ MainKnows

IInv == Typed /\ Control /\ Inherited /\ SavedAtLast

-----------------------------------------------------------------------------
(* The places of the goroutines and the flags.                             *)

controlVars == <<run, main, loopVars, stopVars>>

LEMMA RunsAreNumbers ==
  /\ Runs \subseteq Nat /\ 1 \in Runs
  /\ \A n \in Runs, k \in Nat \ {0} : k <= n => k \in Runs
BY ServerAssumption DEF Runs

LEMMA RunsAreOrdered ==
  ASSUME NEW n \in Runs, NEW m \in Runs
  PROVE  /\ n < m \/ n = m \/ n > m
         /\ n > m + 1 <=> n > m /\ n # m + 1
         /\ n < m + 1 <=> n < m \/ n = m
         /\ m < MaxRuns => m + 1 \in Runs /\ m + 1 > m
BY ServerAssumption DEF Runs

LEMMA RunsBefore ==
  ASSUME NEW n \in Runs, NEW k \in 1 .. n
  PROVE  k \in Runs /\ (k = n \/ (k < n /\ k \in 1 .. n - 1))
BY ServerAssumption DEF Runs

LEMMA SameControl ==
  ASSUME Control, UNCHANGED controlVars
  PROVE  Control'
BY DEF Control, controlVars, loopVars, stopVars, Untouched, Quiet, Ordered, MainKnows,
       SvcStarted, BpStarted

LEMMA MainControl ==
  ASSUME Typed, Control, MainStep \/ ListenFails
  PROVE  Control'
<1> USE RunsAreNumbers DEF loopVars, stopVars, Typed, Control, Untouched, Quiet, Ordered,
    MainKnows, SvcStarted
<1>1. CASE CreateService
  BY <1>1 DEF CreateService
<1>2. CASE Initialize \/ HandleSignals \/ ListenFails \/ Drain
  <2>1. /\ main \in {"initialize", "serve", "drain"} /\ main' \in {"serve", "drain", "stop service"}
        /\ UNCHANGED <<run, svcLoop, bpLoop, svcStopped, bpStopped>>
    BY <1>2 DEF Initialize, HandleSignals, ListenFails, Drain
  <2> QED
    BY <2>1
<1>3. CASE StopService
  BY <1>3 DEF StopService
<1>4. CASE ServiceStopped
  BY <1>4 DEF ServiceStopped
<1>5. CASE MainStopsBackend
  BY <1>5 DEF MainStopsBackend, MarkBackend, mainVars
<1>6. CASE BackendStopped
  BY <1>6 DEF BackendStopped, Returns, BpStarted
<1>7. CASE Finish
  <2>1. main = "finished" /\ UNCHANGED <<svcLoop, bpLoop, svcStopped, bpStopped>>
    BY <1>7 DEF Finish
  <2>2. CASE outcome = "restart"
    <3>1. run < MaxRuns
      BY <2>1, <2>2
    <3>2. run' = run + 1 /\ main' = "load" /\ run + 1 \in Runs /\ run + 1 > run
      BY <1>7, <2>2, <3>1, RunsAreOrdered DEF Finish
    <3>3. \A n \in Runs : (n > run + 1 => n > run) /\ (n < run + 1 => n < run \/ n = run)
      BY RunsAreOrdered
    <3>4. Quiet(run) /\ Untouched(run + 1)
      BY <2>1, <3>2
    <3>5. MainKnows'
      BY <2>1, <3>2, <3>4
    <3>6. \A n \in Runs : (n > run' => Untouched(n)) /\ (n < run' => Quiet(n))
      <4>1. \A n \in Runs : (n > run => Untouched(n)) /\ (n < run => Quiet(n))
        OBVIOUS
      <4> HIDE DEF Typed, Control, Untouched, Quiet, Ordered, MainKnows
      <4> QED
        BY <3>2, <3>3, <3>4, <4>1
    <3> QED
      BY <2>1, <3>5, <3>6
  <2>3. CASE outcome # "restart"
    <3>1. run' = run /\ main' = "ended"
      BY <1>7, <2>3 DEF Finish
    <3>2. Quiet(run) /\ svcLoop[run] # "none"
      BY <2>1
    <3>3. MainKnows'
      BY <2>1, <3>1, <3>2
    <3>4. \A m \in Runs : (m > run' => Untouched(m)') /\ (m < run' => Quiet(m)') /\ Ordered(m)'
      BY <2>1, <3>1
    <3> QED
      BY <3>3, <3>4
  <2> QED
    BY <2>2, <2>3
<1> QED
  BY <1>1, <1>2, <1>3, <1>4, <1>5, <1>6, <1>7 DEF MainStep

LEMMA LoopControl ==
  ASSUME Typed, Control, NEW n \in Runs, SvcStep(n) \/ BpStep(n)
  PROVE  Control'
<1> USE RunsAreNumbers DEF mainVars, loopVars, stopVars, Typed, Control, Untouched, Quiet, Ordered,
    MainKnows, SvcStarted
<1>1. CASE SvcBegin(n)
  <2>1. svcLoop[n] = "new" /\ UNCHANGED <<run, main, svcStopped, bpStopped>>
    BY <1>1 DEF SvcBegin
  <2>2. CASE svcStopped[n]
    <3>1. svcLoop' = [svcLoop EXCEPT ![n] = "refused"] /\ bpLoop' = bpLoop
      BY <1>1, <2>2 DEF SvcBegin
    <3>2. svcLoop'[n] = "refused" /\ \A m \in Runs : m # n => svcLoop'[m] = svcLoop[m]
      BY <3>1
    <3>3. ASSUME NEW m \in Runs
          PROVE  (m > run => Untouched(m)') /\ (m < run => Quiet(m)') /\ Ordered(m)'
      <4>1. CASE m = n
        BY <2>1, <2>2, <3>1, <3>2, <4>1
      <4>2. CASE m # n
        <5>1. /\ svcLoop'[m] = svcLoop[m] /\ bpLoop'[m] = bpLoop[m]
              /\ svcStopped'[m] = svcStopped[m] /\ bpStopped'[m] = bpStopped[m]
          BY <2>1, <3>1, <3>2, <4>2
        <5>2. (m > run => Untouched(m)) /\ (m < run => Quiet(m)) /\ Ordered(m)
          OBVIOUS
        <5> HIDE DEF Typed, Control, MainKnows
        <5> QED
          BY <5>1, <5>2
      <4> QED
        BY <4>1, <4>2
    <3>4. MainKnows'
      <4>1. CASE run = n
        BY <2>1, <2>2, <3>1, <3>2, <4>1
      <4>2. CASE run # n
        BY <2>1, <3>1, <3>2, <4>2
      <4> QED
        BY <4>1, <4>2
    <3> QED
      BY <2>1, <3>3, <3>4
  <2>3. CASE ~svcStopped[n]
    <3>1. /\ svcLoop' = [svcLoop EXCEPT ![n] = "running"] /\ bpLoop' = [bpLoop EXCEPT ![n] = "new"]
      BY <1>1, <2>3 DEF SvcBegin
    <3>2. /\ n = run
          /\ main \notin {"load", "wait for service", "stop backend", "notify observers", "finished",
                          "ended"}
      <4>1. n = run
        BY <2>1, <2>3, RunsAreOrdered
      <4>2. svcLoop[run] = "new" /\ ~svcStopped[run]
        BY <2>1, <2>3, <4>1
      <4>3. MainKnows
        OBVIOUS
      <4> QED
        BY <4>1, <4>2, <4>3
    <3>3. /\ svcLoop'[n] = "running" /\ bpLoop'[n] = "new"
          /\ \A m \in Runs : m # n => svcLoop'[m] = svcLoop[m] /\ bpLoop'[m] = bpLoop[m]
      BY <3>1
    <3>4. ASSUME NEW m \in Runs
          PROVE  (m > run => Untouched(m)') /\ (m < run => Quiet(m)') /\ Ordered(m)'
      <4>1. CASE m = n
        BY <2>1, <2>3, <3>2, <3>3, <4>1
      <4>2. CASE m # n
        <5>1. /\ svcLoop'[m] = svcLoop[m] /\ bpLoop'[m] = bpLoop[m]
              /\ svcStopped'[m] = svcStopped[m] /\ bpStopped'[m] = bpStopped[m]
          BY <2>1, <3>3, <4>2
        <5>2. (m > run => Untouched(m)) /\ (m < run => Quiet(m)) /\ Ordered(m)
          OBVIOUS
        <5> HIDE DEF Typed, Control, MainKnows
        <5> QED
          BY <5>1, <5>2
      <4> QED
        BY <4>1, <4>2
    <3>5. MainKnows'
      BY <2>1, <2>3, <3>2, <3>3
    <3> QED
      BY <2>1, <3>4, <3>5
  <2> QED
    BY <2>2, <2>3
<1>2. CASE SvcStopping(n)
  BY <1>2, ZenonT(60) DEF SvcStopping
<1>3. CASE SvcStopsBackend(n)
  BY <1>3, ZenonT(60) DEF SvcStopsBackend, MarkBackend
<1>4. CASE SvcEnd(n)
  BY <1>4, ZenonT(60) DEF SvcEnd, Returns, BpStarted
<1>5. CASE BpBegin(n)
  BY <1>5, ZenonT(60) DEF BpBegin
<1>6. CASE BpEnd(n)
  BY <1>6, ZenonT(60) DEF BpEnd
<1> QED
  BY <1>1, <1>2, <1>3, <1>4, <1>5, <1>6 DEF SvcStep, BpStep
-----------------------------------------------------------------------------
(* The types.                                                              *)

\* The requests stay what they are when the run only grows.
LEMMA RequestsLast ==
  ASSUME Typed, run' \in Runs, run' >= run, request' = request
  PROVE  DOMAIN request' = Requests /\ \A q \in Requests : RequestOk(request[q])'
<1>1. \A k \in 1 .. run : k \in 1 .. run'
  BY RunsAreNumbers DEF Typed
<1> QED
  BY <1>1 DEF Typed, RequestOk

LEMMA MainTypes ==
  ASSUME Typed, MainStep \/ ListenFails
  PROVE  Typed'
<1>1. run' \in Runs /\ run' >= run /\ request' = request
  <2>1. CASE Finish /\ outcome = "restart"
    BY <2>1, RunsAreNumbers, ServerAssumption DEF Finish, Typed, Runs
  <2>2. CASE ~(Finish /\ outcome = "restart")
    <3>1. run' = run /\ request' = request
      BY <2>2 DEF MainStep, ListenFails, CreateService, Initialize, HandleSignals, Drain,
         StopService, ServiceStopped, MainStopsBackend, BackendStopped, Finish, mainVars
    <3> QED
      BY <3>1, RunsAreNumbers DEF Typed
  <2> QED
    BY <2>1, <2>2
<1>2. DOMAIN request' = Requests /\ \A q \in Requests : RequestOk(request[q])'
  BY <1>1, RequestsLast
<1> USE DEF Typed, MainPlaces, mainVars, loopVars, stopVars, signalVars, jobVars
<1>3. CASE CreateService
  BY <1>1, <1>2, <1>3 DEF CreateService, SvcPlaces
<1>4. CASE Initialize
  BY <1>1, <1>2, <1>4 DEF Initialize
<1>5. CASE HandleSignals
  BY <1>1, <1>2, <1>5 DEF HandleSignals
<1>6. CASE ListenFails
  BY <1>1, <1>2, <1>6 DEF ListenFails
<1>7. CASE Drain
  BY <1>1, <1>2, <1>7 DEF Drain
<1>8. CASE StopService
  BY <1>1, <1>2, <1>8 DEF StopService
<1>9. CASE ServiceStopped
  BY <1>1, <1>2, <1>9 DEF ServiceStopped
<1>10. CASE MainStopsBackend
  BY <1>1, <1>2, <1>10 DEF MainStopsBackend, MarkBackend
<1>11. CASE BackendStopped
  BY <1>1, <1>2, <1>11 DEF BackendStopped, Returns
<1>12. CASE Finish
  BY <1>1, <1>2, <1>12 DEF Finish
<1> QED
  BY <1>3, <1>4, <1>5, <1>6, <1>7, <1>8, <1>9, <1>10, <1>11, <1>12 DEF MainStep

LEMMA LoopTypes ==
  ASSUME Typed, NEW n \in Runs, SvcStep(n) \/ BpStep(n) \/ SvcTick(n) \/ BpSync(n)
  PROVE  Typed'
<1>1. run' = run /\ main' = main /\ outcome' = outcome /\ request' = request /\ UNCHANGED <<signals, status>>
  BY DEF SvcStep, BpStep, SvcTick, BpSync, SvcBegin, SvcStopping, SvcStopsBackend, SvcEnd, BpBegin,
         BpEnd, mainVars, signalVars
<1>2. DOMAIN request' = Requests /\ \A q \in Requests : RequestOk(request[q])'
  BY <1>1, RequestsLast, RunsAreNumbers DEF Typed
<1>3. /\ svcLoop' \in [Runs -> SvcPlaces] /\ bpLoop' \in [Runs -> BpPlaces]
      /\ svcStopped' \in [Runs -> BOOLEAN] /\ bpStopped' \in [Runs -> BOOLEAN]
  BY DEF SvcStep, BpStep, SvcTick, BpSync, SvcBegin, SvcStopping, SvcStopsBackend, SvcEnd, BpBegin,
         BpEnd, MarkBackend, loopVars, stopVars, Typed, SvcPlaces, BpPlaces
<1>4. jobs' \in [Runs -> SUBSET Nat] /\ late' = late /\ made' \in Nat
  <2>1. CASE SvcTick(n)
    BY <2>1 DEF SvcTick, NewChange, Typed
  <2>2. CASE ~SvcTick(n)
    BY <2>2 DEF SvcStep, BpStep, BpSync, SvcBegin, SvcStopping, SvcStopsBackend, SvcEnd, BpBegin,
       BpEnd, jobVars, Typed
  <2> QED
    BY <2>1, <2>2
<1>5. file' \in SUBSET Nat
  BY ZenonT(60) DEF SvcStep, BpStep, SvcTick, BpSync, SvcBegin, SvcStopping, SvcStopsBackend, SvcEnd, BpBegin,
         BpEnd, Returns, Typed
<1> QED
  BY <1>1, <1>2, <1>3, <1>4, <1>5 DEF Typed

RequestStep(q) ==
  \/ Accept(q) \/ Change(q) \/ Answer(q) \/ Shutdown(q) \/ SetStopping(q) \/ RequestRestart(q)
  \/ Send(q)

LEMMA RequestTypes ==
  ASSUME Typed, NEW q \in Requests, RequestStep(q)
  PROVE  Typed' /\ UNCHANGED controlVars
<1>1. UNCHANGED <<run, main, outcome, svcLoop, bpLoop, svcStopped, bpStopped, file>>
  BY DEF RequestStep, Accept, Change, Answer, Shutdown, SetStopping, RequestRestart, Send,
         mainVars, loopVars, stopVars
<1>2. RequestOk(request[q]) /\ DOMAIN request = Requests
  BY DEF Typed
<1>3. NoRequest.does = "nothing" /\ \A k \in 1 .. run : k \in Runs
  BY RunsAreNumbers DEF Typed, NoRequest
<1>4. request[q].does # "nothing" => request[q].run \in Runs /\ request[q].run \in 1 .. run
  BY <1>2, <1>3 DEF RequestOk
<1>5. /\ DOMAIN request' = Requests
      /\ \A p \in Requests : p # q => request'[p] = request[p]
      /\ RequestOk(request'[q])
  <2>1. run \in 1 .. run
    BY RunsAreNumbers, ServerAssumption DEF Typed, Runs
  <2>2. CASE Accept(q)
    BY <1>2, <2>1, <2>2 DEF Accept, RequestOk
  <2>3. CASE Change(q) \/ Answer(q) \/ Send(q)
    BY <1>2, <2>3 DEF Change, Answer, Send, RequestOk
  <2>4. CASE Shutdown(q) \/ SetStopping(q) \/ RequestRestart(q)
    BY <1>2, <2>4 DEF Shutdown, SetStopping, RequestRestart, RequestOk, NoRequest
  <2> QED
    BY <2>2, <2>3, <2>4 DEF RequestStep
<1>6. \A p \in Requests : RequestOk(request[p])'
  BY <1>1, <1>5 DEF Typed, RequestOk
<1>7. signals' \in [Runs -> {"empty", "TERM", "HUP"}] /\ \A n \in Runs : signals'[n] = "HUP" => n < MaxRuns
  <2>1. CASE Send(q)
    <3>1. request[q].does = "HUP" => request[q].run < MaxRuns
      BY <1>2, <1>3 DEF RequestOk
    <3> QED
      BY <1>4, <2>1, <3>1 DEF Send, Typed
  <2>2. CASE ~Send(q)
    BY <2>2 DEF RequestStep, Accept, Change, Answer, Shutdown, SetStopping, RequestRestart, signalVars, Typed
  <2> QED
    BY <2>1, <2>2
<1>8. status' \in [Runs -> {"none", "running", "stopping", "initialized"}]
  BY DEF RequestStep, Accept, Change, Answer, Shutdown, SetStopping, RequestRestart, Send, signalVars, Typed
<1>9. jobs' \in [Runs -> SUBSET Nat] /\ late' \in [Runs -> SUBSET Nat] /\ made' \in Nat
  <2>1. CASE Change(q)
    BY <1>4, <2>1 DEF Change, NewChange, Typed
  <2>2. CASE ~Change(q)
    BY <2>2 DEF RequestStep, Accept, Answer, Shutdown, SetStopping, RequestRestart, Send, jobVars, Typed
  <2> QED
    BY <2>1, <2>2
<1> QED
  BY <1>1, <1>5, <1>6, <1>7, <1>8, <1>9 DEF Typed, controlVars, loopVars, stopVars
-----------------------------------------------------------------------------
(* The file.                                                               *)

\* A step that makes no change: the file keeps what it has, or is written with all the jobs
\* of the current run.
LEMMA FileGrows ==
  ASSUME Inherited, run' = run, main # "load", UNCHANGED <<jobs, late>>, file' \in {file, jobs[run]}
  PROVE  /\ Inherited'
         /\ Kept(run) \subseteq file \/ file' = jobs[run] => Kept(run)' \subseteq file'
BY DEF Inherited, Kept

\* A change of the current run, or one that comes too late.
LEMMA ChangeIsKept ==
  ASSUME Typed, Inherited, UNCHANGED <<run, main, file>>, NEW n \in Runs, NewChange(n),
         \/ n = run /\ late' = late
         \/ late' = [late EXCEPT ![n] = @ \cup {made + 1}]
  PROVE  /\ Inherited'
         /\ Kept(run) \subseteq file /\ ~(n = run /\ late' = late) => Kept(run)' \subseteq file'
<1>1. \A m \in Runs : jobs'[m] = IF m = n THEN jobs[m] \cup {made + 1} ELSE jobs[m]
  BY DEF NewChange, Typed
<1>2. \A m \in Runs :
        late'[m] = IF m = n /\ ~(n = run /\ late' = late) THEN late[m] \cup {made + 1} ELSE late[m]
  BY DEF Typed
<1>3. run \in Runs /\ \A m \in 1 .. run - 1 : m \in Runs /\ m # run
  BY RunsAreNumbers DEF Typed
<1>4. \A m \in Runs : m # run \/ ~(n = run /\ late' = late) => Kept(m)' \subseteq Kept(m)
  BY <1>1, <1>2 DEF Kept
<1>5. jobs[run] \subseteq jobs'[run]
  BY <1>1, <1>3
<1> QED
  BY <1>3, <1>4, <1>5 DEF Inherited

LEMMA MainSaves ==
  ASSUME IInv, MainStep \/ ListenFails
  PROVE  Inherited' /\ SavedAtLast'
<1> USE DEF mainVars, loopVars, stopVars, jobVars
<1>1. run \in Runs /\ run \in Nat \ {0} /\ Inherited /\ SavedAtLast
  BY RunsAreNumbers, ServerAssumption DEF IInv, Typed, Runs
<1>2. CASE CreateService
  <2>1. /\ run' = run /\ main = "load" /\ main' = "initialize" /\ file' = file /\ late' = late
        /\ jobs' = [jobs EXCEPT ![run] = file] /\ svcLoop' = [svcLoop EXCEPT ![run] = "new"]
        /\ bpLoop' = bpLoop
    BY <1>2 DEF CreateService
  <2>2. jobs'[run] = file /\ \A n \in 1 .. run - 1 : Kept(n)' = Kept(n)
    BY <1>1, <2>1, RunsAreNumbers DEF IInv, Typed, Kept
  <2>3. svcLoop'[run] = "new" /\ bpLoop'[run] = "none"
    BY <1>1, <2>1 DEF IInv, Typed, Control, MainKnows, Untouched
  <2> QED
    BY <1>1, <2>1, <2>2, <2>3 DEF Inherited, SavedAtLast
<1>3. CASE Initialize \/ HandleSignals \/ ListenFails \/ Drain \/ StopService \/ MainStopsBackend
  <2>1. /\ UNCHANGED <<run, file, jobs, late, svcLoop, bpLoop>> /\ main # "load"
        /\ main' = main \/ main' \notin {"notify observers", "finished", "ended"}
    BY <1>3 DEF Initialize, HandleSignals, ListenFails, Drain, StopService, MainStopsBackend, MarkBackend
  <2> QED
    BY <1>1, <2>1 DEF Inherited, SavedAtLast, Kept
<1>4. CASE ServiceStopped
  <2>1. UNCHANGED <<run, file, jobs, late, svcLoop, bpLoop>> /\ main # "load" /\ svcLoop[run] = "ended"
    BY <1>4 DEF ServiceStopped
  <2> QED
    BY <1>1, <2>1 DEF Inherited, SavedAtLast, Kept
<1>5. CASE BackendStopped
  <2>1. /\ UNCHANGED <<run, jobs, late, svcLoop, bpLoop>> /\ main # "load"
        /\ (bpLoop[run] = "ended" /\ file' = file) \/ file' = jobs[run]
    BY <1>5 DEF BackendStopped, Returns
  <2>2. file' \in {file, jobs[run]} /\ (Kept(run) \subseteq file \/ file' = jobs[run])
    BY <1>1, <2>1 DEF SavedAtLast
  <2>3. Inherited' /\ Kept(run)' \subseteq file'
    BY <1>1, <2>1, <2>2, FileGrows
  <2> QED
    BY <2>1, <2>3 DEF SavedAtLast
<1>6. CASE Finish
  <2>1. UNCHANGED <<file, jobs, late, svcLoop, bpLoop>> /\ main = "finished"
    BY <1>6 DEF Finish
  <2>2. Kept(run) \subseteq file /\ \A n \in Runs : Kept(n)' = Kept(n)
    BY <1>1, <2>1 DEF SavedAtLast, Kept
  <2>3. CASE outcome = "restart"
    <3>1. run < MaxRuns
      BY <2>1, <2>3 DEF IInv, Typed
    <3>2. run' = run + 1 /\ main' = "load" /\ run' \in Runs /\ run' > run
      BY <1>1, <1>6, <2>3, <3>1, RunsAreOrdered DEF Finish
    <3>3. \A n \in 1 .. run' - 1 : n \in Runs /\ (n = run \/ n \in 1 .. run - 1)
      BY <1>1, <3>2, RunsAreNumbers
    <3>4. Inherited'
      BY <1>1, <2>1, <2>2, <3>2, <3>3 DEF Inherited
    <3>5. Untouched(run')
      BY <3>2 DEF IInv, Control
    <3> QED
      BY <2>1, <3>2, <3>4, <3>5 DEF SavedAtLast, Untouched
  <2>4. CASE outcome # "restart"
    <3>1. run' = run /\ main' = "ended"
      BY <1>6, <2>4 DEF Finish
    <3> QED
      BY <1>1, <2>1, <2>2, <3>1 DEF Inherited, SavedAtLast, Kept
  <2> QED
    BY <2>3, <2>4
<1> QED
  BY <1>2, <1>3, <1>4, <1>5, <1>6 DEF MainStep

\* Only the loops of the current run write the file.
LEMMA LoopSaves ==
  ASSUME IInv, NEW n \in Runs, SvcStep(n) \/ BpStep(n) \/ BpSync(n)
  PROVE  Inherited' /\ SavedAtLast'
<1> USE DEF mainVars, loopVars, stopVars, jobVars
<1>1. run \in Runs /\ Inherited /\ SavedAtLast /\ Typed /\ Ordered(n)
  BY DEF IInv, Typed, Control
<1>2. UNCHANGED <<run, main, jobs, late>>
  BY DEF SvcStep, BpStep, BpSync, SvcBegin, SvcStopping, SvcStopsBackend, SvcEnd, BpBegin, BpEnd
<1>3. svcLoop[n] \in {"running", "stop backend"} \/ bpLoop[n] = "running" => n = run /\ main # "load"
  BY <1>1, RunsAreOrdered DEF IInv, Control, Quiet, Untouched, MainKnows
<1>4. CASE SvcBegin(n) \/ SvcStopping(n) \/ SvcStopsBackend(n) \/ BpBegin(n)
  <2>1. /\ file' = file
        /\ svcLoop'[run] = "ended" => svcLoop[run] = "ended"
        /\ bpLoop'[run] = "ended" => bpLoop[run] = "ended"
    <3> SUFFICES /\ file' = file
                 /\ svcLoop'[run] = "ended" => svcLoop[run] = "ended"
                 /\ bpLoop'[run] = "ended" => bpLoop[run] = "ended"
      OBVIOUS
    <3>1. CASE SvcBegin(n)
      BY <1>1, <3>1 DEF SvcBegin, Typed
    <3>2. CASE SvcStopping(n)
      BY <1>1, <3>2 DEF SvcStopping, Typed
    <3>3. CASE SvcStopsBackend(n)
      BY <3>3 DEF SvcStopsBackend, MarkBackend
    <3>4. CASE BpBegin(n)
      BY <1>1, <3>4 DEF BpBegin, Typed
    <3> QED
      BY <1>4, <3>1, <3>2, <3>3, <3>4
  <2> QED
    BY <1>1, <1>2, <2>1 DEF Inherited, SavedAtLast, Kept
<1>5. CASE SvcEnd(n)
  <2>1. /\ n = run /\ main # "load"
        /\ (bpLoop[run] = "ended" /\ file' = file) \/ file' = jobs[run]
    BY <1>3, <1>5 DEF SvcEnd, Returns
  <2>2. file' \in {file, jobs[run]} /\ (Kept(run) \subseteq file \/ file' = jobs[run])
    BY <1>1, <2>1 DEF SavedAtLast
  <2>3. Inherited' /\ Kept(run)' \subseteq file'
    BY <1>1, <1>2, <2>1, <2>2, FileGrows
  <2> QED
    BY <2>3 DEF SavedAtLast
<1>6. CASE BpEnd(n) \/ BpSync(n)
  <2>1. n = run /\ main # "load" /\ file' = jobs[run]
    BY <1>3, <1>6 DEF BpEnd, BpSync
  <2>2. file' \in {file, jobs[run]}
    BY <2>1
  <2>3. Inherited' /\ Kept(run)' \subseteq file'
    BY <1>1, <1>2, <2>1, <2>2, FileGrows
  <2> QED
    BY <2>3 DEF SavedAtLast
<1> QED
  BY <1>4, <1>5, <1>6 DEF SvcStep, BpStep

\* The loop of the service changes the jobs only while the backend has not been stopped.
LEMMA TickSaves ==
  ASSUME IInv, NEW n \in Runs, SvcTick(n)
  PROVE  Inherited' /\ SavedAtLast'
<1>1. /\ run \in Runs /\ Inherited /\ Typed /\ Ordered(n) /\ svcLoop[n] = "running" /\ NewChange(n)
      /\ UNCHANGED <<run, main, svcLoop, bpLoop, late, file>>
  BY DEF IInv, Typed, Control, SvcTick, mainVars, loopVars
<1>2. n = run /\ main \notin {"notify observers", "finished", "ended"}
  BY <1>1, RunsAreOrdered DEF IInv, Control, Quiet, Untouched, MainKnows
<1>3. bpLoop[run] # "ended"
  BY <1>1, <1>2 DEF Ordered
<1> QED
  BY <1>1, <1>2, <1>3, ChangeIsKept DEF SavedAtLast

\* A request changes the jobs of a run that goes on, or late.
LEMMA RequestSaves ==
  ASSUME IInv, NEW q \in Requests, RequestStep(q)
  PROVE  Inherited' /\ SavedAtLast'
<1>1. /\ run \in Runs /\ Inherited /\ Typed /\ SavedAtLast /\ Ordered(run) /\ MainKnows
      /\ UNCHANGED <<run, main, svcLoop, bpLoop, file>>
  BY RequestTypes DEF IInv, Typed, Control, RequestStep, Accept, Change, Answer, Shutdown, SetStopping,
     RequestRestart, Send, controlVars, loopVars
<1>2. CASE Change(q)
  <2> DEFINE n == request[q].run
  <2>1. n \in Runs
    BY <1>1, <1>2, RunsAreNumbers DEF Change, Typed, RequestOk, NoRequest
  <2>2. /\ NewChange(n)
        /\ late' = IF n = run /\ main \in {"serve", "drain"} THEN late
                   ELSE [late EXCEPT ![n] = @ \cup {made + 1}]
    BY <1>2 DEF Change
  <2>3. main \in {"serve", "drain"} => bpLoop[run] # "ended" /\ svcLoop[run] # "ended"
    BY <1>1 DEF Ordered, MainKnows
  <2> HIDE DEF n
  <2>4. CASE n = run /\ main \in {"serve", "drain"}
    <3>1. Inherited'
      BY <1>1, <2>1, <2>2, <2>4, ChangeIsKept
    <3> QED
      BY <1>1, <2>3, <2>4, <3>1 DEF SavedAtLast
  <2>5. CASE ~(n = run /\ main \in {"serve", "drain"})
    <3>1. late' = [late EXCEPT ![n] = @ \cup {made + 1}] /\ made \in Nat
      BY <1>1, <2>2, <2>5 DEF Typed
    <3>2. Inherited'
      BY <1>1, <2>1, <2>2, <3>1, ChangeIsKept
    <3>3. Kept(run)' \subseteq Kept(run)
      BY <1>1, <2>1, <2>2, <3>1 DEF Kept, NewChange, Typed
    <3> QED
      BY <1>1, <3>2, <3>3 DEF SavedAtLast
  <2> QED
    BY <2>4, <2>5
<1>3. CASE ~Change(q)
  <2>1. UNCHANGED <<jobs, late>>
    BY <1>3 DEF RequestStep, Accept, Answer, Shutdown, SetStopping, RequestRestart, Send, jobVars
  <2> QED
    BY <1>1, <2>1 DEF Inherited, SavedAtLast, Kept
<1> QED
  BY <1>2, <1>3

-----------------------------------------------------------------------------
LEMMA InitIInv == Init => IInv
<1> SUFFICES ASSUME Init PROVE IInv
  OBVIOUS
<1> USE DEF Init
<1>1. Typed
  BY RunsAreNumbers DEF Typed, MainPlaces, SvcPlaces, BpPlaces, RequestOk
<1>2. Control
  BY RunsAreNumbers DEF Control, Untouched, Quiet, Ordered, MainKnows, SvcStarted, Runs
<1>3. Inherited /\ SavedAtLast
  BY RunsAreNumbers DEF Inherited, SavedAtLast
<1> QED
  BY <1>1, <1>2, <1>3 DEF IInv

LEMMA NextKeeps ==
  ASSUME IInv, [Next]_vars
  PROVE  IInv'
<1>1. CASE MainStep \/ ListenFails
  BY <1>1, MainControl, MainTypes, MainSaves DEF IInv
<1>2. ASSUME NEW n \in Runs, SvcStep(n) \/ BpStep(n)
      PROVE  IInv'
  BY <1>2, LoopControl, LoopTypes, LoopSaves DEF IInv
<1>3. ASSUME NEW n \in Runs, SvcTick(n) \/ BpSync(n)
      PROVE  IInv'
  <2>1. UNCHANGED controlVars
    BY <1>3 DEF SvcTick, BpSync, controlVars, mainVars
  <2>2. Control'
    BY <2>1, SameControl DEF IInv
  <2> QED
    BY <1>3, <2>2, LoopTypes, LoopSaves, TickSaves DEF IInv
<1>4. ASSUME NEW q \in Requests, RequestStep(q)
      PROVE  IInv'
  BY <1>4, RequestTypes, RequestSaves, SameControl DEF IInv
<1>5. ASSUME NEW s \in {"TERM", "HUP"}, OsSignal(s)
      PROVE  IInv'
  <2>1. /\ UNCHANGED <<run, main, outcome, svcLoop, bpLoop, svcStopped, bpStopped, status, jobs, late, made,
                       file, request>>
        /\ signals' = [signals EXCEPT ![run] = s] /\ (s = "HUP" => run < MaxRuns)
    BY <1>5 DEF OsSignal, mainVars, loopVars, stopVars, jobVars
  <2>2. Control' /\ Inherited' /\ SavedAtLast'
    BY <2>1, SameControl DEF IInv, controlVars, loopVars, stopVars, Inherited, SavedAtLast, Kept
  <2>3. signals' \in [Runs -> {"empty", "TERM", "HUP"}] /\ \A n \in Runs : signals'[n] = "HUP" => n < MaxRuns
    BY <2>1 DEF IInv, Typed
  <2>4. Typed'
    BY <2>1, <2>3 DEF IInv, Typed, RequestOk
  <2> QED
    BY <2>2, <2>4 DEF IInv
<1>6. CASE UNCHANGED vars
  <2>1. Control'
    BY <1>6, SameControl DEF IInv, vars, controlVars, loopVars, stopVars
  <2> QED
    BY <1>6, <2>1 DEF vars, IInv, Typed, RequestOk, Inherited, SavedAtLast, Kept
<1> QED
  BY <1>1, <1>2, <1>3, <1>4, <1>5, <1>6 DEF Next, RequestStep

LEMMA Invariance == Spec => []IInv
<1>1. IInv /\ [Next]_vars => IInv'
  BY NextKeeps
<1> QED
  BY <1>1, InitIInv, PTL DEF Spec

\* Whatever number of restarts: once RunServer has returned, no goroutine of that run writes
\* the storage file any more, although some may not even have begun, and every change that
\* the run made before its shutdown timeout is in the file that the next run loads.
THEOREM RunsLeaveNothing == Spec => []RunsEndCleanly
<1>1. ASSUME IInv
      PROVE  RunsEndCleanly
  <2>1. run \in Runs
    BY <1>1 DEF IInv, Typed
  <2>2. ASSUME NEW n \in 1 .. run
        PROVE  n \in Runs /\ (n = run \/ (n < run /\ n \in 1 .. run - 1))
    BY <2>1, RunsBefore
  <2>3. \A n \in 1 .. run : Over(n) => Quiet(n)
    BY <1>1, <2>2 DEF IInv, Control, MainKnows, Over
  <2>4. OldLoopsAreOver
    BY <2>3 DEF OldLoopsAreOver, Quiet
  <2>5. ASSUME NEW n \in 1 .. run, Over(n)
        PROVE  Kept(n) \subseteq file
    <3>1. CASE n \in 1 .. run - 1
      BY <1>1, <3>1 DEF IInv, Inherited
    <3>2. CASE n = run /\ main \in {"finished", "ended"}
      BY <1>1, <3>2 DEF IInv, SavedAtLast
    <3> QED
      BY <2>1, <2>2, <2>5, <3>1, <3>2, RunsAreNumbers DEF Over
  <2> QED
    BY <2>4, <2>5 DEF RunsEndCleanly, NothingIsLost, Kept
<1> QED
  BY <1>1, Invariance, PTL
=============================================================================
