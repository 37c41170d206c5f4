------------------------------ MODULE Lifecycle ------------------------------
(***************************************************************************)
(* Starting and stopping a background loop exactly once                    *)
(* (lifecycle/lifecycle.go): Loops call Begin and End around their work,   *)
(* Callers call Stop.  `started' and `stopped' are read and written under  *)
(* l.mu; the channels stop and done are closed outside of it.              *)
(***************************************************************************)
CONSTANTS
  Loops,    \* the goroutines that call Begin
  Callers   \* the goroutines that call Stop

VARIABLES
  started, stopped,  \* the fields of the same name
  stop, done,        \* the channels of the same name are closed
  loop,              \* where each loop is
  caller,            \* where each caller of Stop is
  saw                \* what Stop read in started

vars == <<started, stopped, stop, done, loop, caller, saw>>

Init ==
  /\ started = FALSE /\ stopped = FALSE /\ stop = FALSE /\ done = FALSE
  /\ loop = [l \in Loops |-> "new"]
  /\ caller = [c \in Callers |-> "new"]
  /\ saw = [c \in Callers |-> FALSE]

\* Mutant: a loop that arrives after Stop starts all the same.
BeginWhenStopped(l) ==
  /\ loop[l] = "new"
  /\ started' = TRUE
  /\ loop' = [loop EXCEPT ![l] = IF started THEN "refused" ELSE "running"]
  /\ UNCHANGED <<stopped, stop, done, caller, saw>>

Begin(l) ==
  /\ loop[l] = "new"
  /\ started' = (started \/ ~stopped)
  /\ loop' = [loop EXCEPT ![l] = IF started \/ stopped THEN "refused" ELSE "running"]
  /\ UNCHANGED <<stopped, stop, done, caller, saw>>

\* The loop returns when it reads Stopping, or for a reason of its own (a fatal error).
End(l) ==
  /\ loop[l] = "running"
  /\ done' = TRUE
  /\ loop' = [loop EXCEPT ![l] = "ended"]
  /\ UNCHANGED <<started, stopped, stop, caller, saw>>

\* Stop, first part: under the mutex.
MarkStopped(c) ==
  /\ caller[c] = "new"
  /\ stopped' = TRUE
  /\ saw' = [saw EXCEPT ![c] = started]
  /\ caller' = [caller EXCEPT ![c] = "marked"]
  /\ UNCHANGED <<started, stop, done, loop>>

\* stopOnce: the first caller closes the channel, whoever it is.
CloseStop(c) ==
  /\ caller[c] = "marked"
  /\ stop' = TRUE
  /\ caller' = [caller EXCEPT ![c] = IF saw[c] THEN "waiting" ELSE "returned"]
  /\ UNCHANGED <<started, stopped, done, loop, saw>>

WaitDone(c) ==
  /\ caller[c] = "waiting"
  /\ done
  /\ caller' = [caller EXCEPT ![c] = "returned"]
  /\ UNCHANGED <<started, stopped, stop, done, loop, saw>>

Next ==
  \/ \E l \in Loops : Begin(l) \/ End(l)
  \/ \E c \in Callers : MarkStopped(c) \/ CloseStop(c) \/ WaitDone(c)

Spec == Init /\ [][Next]_vars

-----------------------------------------------------------------------------
\* The shape of the state; a flag or a channel tells what the goroutines did.
TypeOK ==
  /\ started \in BOOLEAN /\ stopped \in BOOLEAN /\ stop \in BOOLEAN /\ done \in BOOLEAN
  /\ loop \in [Loops -> {"new", "running", "ended", "refused"}]
  /\ caller \in [Callers -> {"new", "marked", "waiting", "returned"}]
  /\ saw \in [Callers -> BOOLEAN]
  /\ started <=> \E l \in Loops : loop[l] \in {"running", "ended"}
  /\ stopped <=> \E c \in Callers : caller[c] # "new"
  /\ done <=> \E l \in Loops : loop[l] = "ended"

\* Two loops never run, not even one after the other: done is closed once at most (Go
\* panics when a channel is closed twice).
RunsOnce ==
  \A l, m \in Loops :
    loop[l] \in {"running", "ended"} /\ loop[m] \in {"running", "ended"} => l = m

\* Once a call of Stop has returned, no loop runs, and none will: what the caller does
\* next (the last save, the end of the process) is done alone.
NothingRunsAfterStop ==
  (\E c \in Callers : caller[c] = "returned") => \A l \in Loops : loop[l] # "running"

\* Every caller learns the same: the loop did its last work, or it never will.  So one
\* side does it, and not both.
StopTellsTheTruth ==
  \A c \in Callers : caller[c] = "returned" =>
    (saw[c] <=> \E l \in Loops : loop[l] = "ended")

\* A caller waits only for a loop that runs, and was told to stop, or is over: every Stop
\* returns once the loop does.
NobodyWaitsForNothing ==
  \A c \in Callers : caller[c] = "waiting" =>
    done \/ (stop /\ \E l \in Loops : loop[l] = "running")

\* One loop runs, it stops, and all who stop it learn what it did.
StopIsRight == RunsOnce /\ NothingRunsAfterStop /\ StopTellsTheTruth /\ NobodyWaitsForNothing
=============================================================================
