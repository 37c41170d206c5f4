------------------------------- MODULE Server -------------------------------
(***************************************************************************)
(* The life of the process: start, stop and restart (cmd/minijob, the      *)
(* signals of web/webserver, Service.Run and Stop, the in-memory backend's *)
(* Run and Stop).                                                          *)
(*                                                                         *)
(* A restart happens in the same process: each run has its own service,    *)
(* loops and channel, and the goroutines of the runs before it may still   *)
(* be there.  A lifecycle (module Lifecycle) is seen here through its      *)
(* `stopped' flag and the place of its only loop.  The jobs are the set of *)
(* the changes made to them; a save is one step (see InMemoryBackend).     *)
(***************************************************************************)
EXTENDS Naturals, FiniteSets

CONSTANTS
  Requests,   \* the HTTP requests
  MaxRuns,    \* bound: runs of the server in the process
  MaxChanges  \* bound: changes to the jobs

ASSUME ServerAssumption == MaxRuns \in Nat \ {0} /\ MaxChanges \in Nat

Runs == 1 .. MaxRuns
Changes == 1 .. MaxChanges

VARIABLES
  run,         \* the current run
  main,        \* where the main goroutine is
  outcome,     \* what RunServer will return: "exit" or "restart"
  svcLoop,     \* run -> where the goroutine of Service.Run is
  bpLoop,      \* run -> where the goroutine of the backend's Run is
  svcStopped, bpStopped,  \* run -> the flag of the lifecycle
  signals,     \* run -> what the channel of capacity 1 holds
  status,      \* run -> Server.status
  jobs,        \* run -> the changes in the memory of its service
  late,        \* run -> the changes made by requests that outlived the shutdown timeout
  file,        \* the changes in the storage file
  request,     \* the state of each request
  made         \* changes made so far

vars == <<run, main, outcome, svcLoop, bpLoop, svcStopped, bpStopped, signals, status, jobs,
          late, file, request, made>>
mainVars == <<run, main, outcome>>
loopVars == <<svcLoop, bpLoop>>
stopVars == <<svcStopped, bpStopped>>
signalVars == <<signals, status>>
jobVars == <<jobs, late, made>>

NoRequest == [run |-> 0, does |-> "nothing"]

Init ==
  /\ run = 1 /\ main = "load" /\ outcome = "exit"
  /\ svcLoop = [n \in Runs |-> "none"] /\ bpLoop = [n \in Runs |-> "none"]
  /\ svcStopped = [n \in Runs |-> FALSE] /\ bpStopped = [n \in Runs |-> FALSE]
  /\ signals = [n \in Runs |-> "empty"] /\ status = [n \in Runs |-> "none"]
  /\ jobs = [n \in Runs |-> {}] /\ late = [n \in Runs |-> {}] /\ file = {} /\ made = 0
  /\ request = [q \in Requests |-> NoRequest]

\* Lifecycle.started of the two loops.
SvcStarted(n) == svcLoop[n] \in {"running", "stop backend", "ended"}
BpStarted(n) == bpLoop[n] \in {"running", "ended"}

InProgress(n) == {q \in Requests : request[q].run = n}
Accepting == main = "serve"

-----------------------------------------------------------------------------
(* RunServer, until the signals.                                           *)

\* CreateAndInitService, then the goroutine of Service.Run.
CreateService ==
  /\ main = "load"
  /\ jobs' = [jobs EXCEPT ![run] = file]
  /\ svcLoop' = [svcLoop EXCEPT ![run] = "new"]
  /\ main' = "initialize"
  /\ UNCHANGED <<run, outcome, bpLoop, stopVars, signalVars, late, made, file, request>>

\* Initialize and Start, or an error: the deferred Finalize of the service runs.
Initialize ==
  /\ main = "initialize"
  /\ \/ main' = "serve" /\ status' = [status EXCEPT ![run] = "running"]
     \/ main' = "stop service" /\ status' = status
  /\ outcome' = "exit"
  /\ UNCHANGED <<run, loopVars, stopVars, signals, jobVars, file, request>>

\* HandleSignals
HandleSignals ==
  /\ main = "serve"
  /\ signals[run] # "empty"
  /\ signals' = [signals EXCEPT ![run] = "empty"]
  /\ outcome' = IF signals[run] = "HUP" THEN "restart" ELSE "exit"
  /\ main' = "drain"
  /\ UNCHANGED <<run, loopVars, stopVars, status, jobVars, file, request>>

\* An error of Listen ends HandleSignals as well.
ListenFails ==
  /\ main = "serve"
  /\ outcome' = "exit"
  /\ main' = "drain"
  /\ UNCHANGED <<run, loopVars, stopVars, signalVars, jobVars, file, request>>

-----------------------------------------------------------------------------
(* The end of a run, by the main goroutine.                                *)

\* Mutant: no timeout.
DrainAll ==
  /\ main = "drain"
  /\ InProgress(run) = {}
  /\ status' = [status EXCEPT ![run] = "initialized"]
  /\ main' = "stop service"
  /\ UNCHANGED <<run, outcome, loopVars, stopVars, signals, jobVars, file, request>>

\* shutdownListener: ShutdownWithTimeout waits for the requests in progress, or for the
\* timeout; then the deferred Finalize of the server has nothing left to do.
Drain ==
  /\ main = "drain"
  /\ status' = [status EXCEPT ![run] = "initialized"]
  /\ main' = "stop service"
  /\ UNCHANGED <<run, outcome, loopVars, stopVars, signals, jobVars, file, request>>

\* Service.Stop: stops the loop and waits for it; stops the backend if it never ran.
StopService ==
  /\ main = "stop service"
  /\ svcStopped' = [svcStopped EXCEPT ![run] = TRUE]
  /\ main' = IF SvcStarted(run) THEN "wait for service" ELSE "stop backend"
  /\ UNCHANGED <<run, outcome, loopVars, bpStopped, signalVars, jobVars, file, request>>

ServiceStopped ==
  /\ main = "wait for service"
  /\ svcLoop[run] = "ended"
  /\ main' = "notify observers"
  /\ UNCHANGED <<run, outcome, loopVars, stopVars, signalVars, jobVars, file, request>>

\* Mutant: without a save loop nothing is saved.
ReturnsUnsaved(n) ==
  /\ bpStopped[n]
  /\ bpLoop[n] # "running"
  /\ file' = file

\* The backend's Stop, first its flag, ...
MarkBackend(n) ==
  /\ ~bpStopped[n]
  /\ bpStopped' = [bpStopped EXCEPT ![n] = TRUE]

\* ... then it waits for the loop, or saves the jobs itself when it never ran.
Returns(n) ==
  /\ bpStopped[n]
  /\ \/ bpLoop[n] = "ended" /\ file' = file
     \/ ~BpStarted(n) /\ file' = jobs[n]

MainStopsBackend ==
  /\ main \in {"stop backend", "notify observers"}
  /\ MarkBackend(run)
  /\ UNCHANGED <<mainVars, loopVars, svcStopped, signalVars, jobVars, file, request>>

\* The observers' Shutdown stops the backend once more.
BackendStopped ==
  /\ main \in {"stop backend", "notify observers"}
  /\ Returns(run)
  /\ main' = IF main = "stop backend" THEN "notify observers" ELSE "finished"
  /\ UNCHANGED <<run, outcome, loopVars, stopVars, signalVars, jobVars, request>>

\* run: another RunServer, or the end of the process.
Finish ==
  /\ main = "finished"
  /\ IF outcome = "restart" THEN run' = run + 1 /\ main' = "load"
                            ELSE run' = run /\ main' = "ended"
  /\ UNCHANGED <<outcome, loopVars, stopVars, signalVars, jobVars, file, request>>

-----------------------------------------------------------------------------
(* The goroutines of a run: nothing goes on once the process has ended.    *)

Alive == main # "ended"

\* Service.Run: Begin, then the goroutine of the backend.
SvcBegin(n) ==
  /\ Alive /\ svcLoop[n] = "new"
  /\ IF svcStopped[n]
       THEN svcLoop' = [svcLoop EXCEPT ![n] = "refused"] /\ bpLoop' = bpLoop
       ELSE svcLoop' = [svcLoop EXCEPT ![n] = "running"] /\ bpLoop' = [bpLoop EXCEPT ![n] = "new"]
  /\ UNCHANGED <<mainVars, stopVars, signalVars, jobVars, file, request>>

NewChange(n) ==
  /\ made < MaxChanges
  /\ made' = made + 1
  /\ jobs' = [jobs EXCEPT ![n] = @ \cup {made + 1}]

\* A ticker of the loop changes the jobs.
SvcTick(n) ==
  /\ Alive /\ svcLoop[n] = "running"
  /\ NewChange(n)
  /\ UNCHANGED <<mainVars, loopVars, stopVars, signalVars, late, file, request>>

SvcStopping(n) ==
  /\ Alive /\ svcLoop[n] = "running" /\ svcStopped[n]
  /\ svcLoop' = [svcLoop EXCEPT ![n] = "stop backend"]
  /\ UNCHANGED <<mainVars, bpLoop, stopVars, signalVars, jobVars, file, request>>

SvcStopsBackend(n) ==
  /\ Alive /\ svcLoop[n] = "stop backend"
  /\ MarkBackend(n)
  /\ UNCHANGED <<mainVars, loopVars, svcStopped, signalVars, jobVars, file, request>>

SvcEnd(n) ==
  /\ Alive /\ svcLoop[n] = "stop backend"
  /\ Returns(n)
  /\ svcLoop' = [svcLoop EXCEPT ![n] = "ended"]
  /\ UNCHANGED <<mainVars, bpLoop, stopVars, signalVars, jobVars, request>>

\* Mutant: the backend's loop begins after its Stop.
BpBeginAnyway(n) ==
  /\ Alive /\ bpLoop[n] = "new"
  /\ bpLoop' = [bpLoop EXCEPT ![n] = "running"]
  /\ UNCHANGED <<mainVars, svcLoop, stopVars, signalVars, jobVars, file, request>>

\* The backend's Run: Begin, a save at each tick, a last one when it stops.
BpBegin(n) ==
  /\ Alive /\ bpLoop[n] = "new"
  /\ bpLoop' = [bpLoop EXCEPT ![n] = IF bpStopped[n] THEN "refused" ELSE "running"]
  /\ UNCHANGED <<mainVars, svcLoop, stopVars, signalVars, jobVars, file, request>>

BpSync(n) ==
  /\ Alive /\ bpLoop[n] = "running"
  /\ file' = jobs[n]
  /\ UNCHANGED <<mainVars, loopVars, stopVars, signalVars, jobVars, request>>

BpEnd(n) ==
  /\ Alive /\ bpLoop[n] = "running" /\ bpStopped[n]
  /\ file' = jobs[n]
  /\ bpLoop' = [bpLoop EXCEPT ![n] = "ended"]
  /\ UNCHANGED <<mainVars, svcLoop, stopVars, signalVars, jobVars, request>>

-----------------------------------------------------------------------------
(* The requests and the signals.                                           *)

Accept(q) ==
  /\ Accepting
  /\ request[q] = NoRequest
  /\ request' = [request EXCEPT ![q] = [run |-> run, does |-> "change"]]
  /\ UNCHANGED <<mainVars, loopVars, stopVars, signalVars, jobVars, file>>

\* A request changes the jobs and answers.
Change(q) ==
  /\ Alive /\ request[q].does = "change"
  /\ LET n == request[q].run
     IN  /\ NewChange(n)
         /\ late' = IF n = run /\ main \in {"serve", "drain"} THEN late
                    ELSE [late EXCEPT ![n] = @ \cup {made + 1}]
  /\ request' = [request EXCEPT ![q] = NoRequest]
  /\ UNCHANGED <<mainVars, loopVars, stopVars, signalVars, file>>

Answer(q) ==
  /\ Alive /\ request[q].does = "change"
  /\ request' = [request EXCEPT ![q] = NoRequest]
  /\ UNCHANGED <<mainVars, loopVars, stopVars, signalVars, jobVars, file>>

\* Server.Shutdown, refused unless the server is running: it reads the status, ...
Shutdown(q) ==
  /\ Alive /\ request[q].does = "change"
  /\ status[request[q].run] = "running"
  /\ request' = [request EXCEPT ![q].does = "shutdown"]
  /\ UNCHANGED <<mainVars, loopVars, stopVars, signalVars, jobVars, file>>

\* ... then sets it (two requests may have read the same status), ...
SetStopping(q) ==
  /\ Alive /\ request[q].does = "shutdown"
  /\ status' = [status EXCEPT ![request[q].run] = "stopping"]
  /\ request' = [request EXCEPT ![q].does = "TERM"]
  /\ UNCHANGED <<mainVars, loopVars, stopVars, signals, jobVars, file>>

\* ... and RequestRestartServer, in any status.
RequestRestart(q) ==
  /\ Alive /\ request[q].does = "change"
  /\ request[q].run < MaxRuns
  /\ request' = [request EXCEPT ![q].does = "HUP"]
  /\ UNCHANGED <<mainVars, loopVars, stopVars, signalVars, jobVars, file>>

\* The request sends its signal, and blocks while the channel is full.
Send(q) ==
  /\ Alive /\ request[q].does \in {"TERM", "HUP"}
  /\ signals[request[q].run] = "empty"
  /\ signals' = [signals EXCEPT ![request[q].run] = request[q].does]
  /\ request' = [request EXCEPT ![q] = NoRequest]
  /\ UNCHANGED <<mainVars, loopVars, stopVars, status, jobVars, file>>

\* A signal of the system is dropped when the channel is full.
OsSignal(s) ==
  /\ main \in {"serve", "drain"}
  /\ signals[run] = "empty"
  /\ s = "HUP" => run < MaxRuns
  /\ signals' = [signals EXCEPT ![run] = s]
  /\ UNCHANGED <<mainVars, loopVars, stopVars, status, jobVars, file, request>>

-----------------------------------------------------------------------------
MainStep ==
  \/ CreateService \/ Initialize \/ HandleSignals \/ Drain
  \/ StopService \/ ServiceStopped \/ MainStopsBackend \/ BackendStopped \/ Finish

SvcStep(n) == SvcBegin(n) \/ SvcStopping(n) \/ SvcStopsBackend(n) \/ SvcEnd(n)
BpStep(n) == BpBegin(n) \/ BpEnd(n)

Next ==
  \/ MainStep \/ ListenFails
  \/ \E n \in Runs : SvcStep(n) \/ BpStep(n) \/ SvcTick(n) \/ BpSync(n)
  \/ \E q \in Requests : Accept(q) \/ Change(q) \/ Answer(q)
       \/ Shutdown(q) \/ SetStopping(q) \/ RequestRestart(q) \/ Send(q)
  \/ \E s \in {"TERM", "HUP"} : OsSignal(s)

(* The goroutines run.  A signal is sent once the channel has room, but a  *)
(* request need not end (it may be slow, or blocked in Send for ever): that *)
(* is what the timeout of the drain is for.                                *)
Fairness ==
  /\ WF_vars(MainStep)
  /\ \A n \in Runs : WF_vars(SvcStep(n)) /\ WF_vars(BpStep(n))
  /\ \A q \in Requests : WF_vars(Send(q))

Spec == Init /\ [][Next]_vars
FairSpec == Spec /\ Fairness

-----------------------------------------------------------------------------
\* The run is over: RunServer has returned.
Over(n) == n < run \/ main \in {"finished", "ended"}

\* No loop of a run that is over runs, or will: nothing of it writes the file that the
\* next run has loaded, even if its goroutines had not begun when it was stopped.
OldLoopsAreOver ==
  \A n \in 1 .. run :
    Over(n) => svcLoop[n] \notin {"running", "stop backend"} /\ bpLoop[n] # "running"

\* Every change is in the file when the run is over, and in the next run, but those of
\* the requests that outlived the shutdown timeout.
NothingIsLost == \A n \in 1 .. run : Over(n) => jobs[n] \ late[n] \subseteq file

\* A run that is over leaves nothing behind: no loop, and no change that is not saved.
RunsEndCleanly == OldLoopsAreOver /\ NothingIsLost

\* The end of a run ends, whatever the requests in progress and the goroutines are doing:
\* the process ends or the next run begins.
RunsEnd == main \in {"drain", "stop service"} ~> main \in {"load", "ended"}

\* A shutdown whose signal is in the channel while the server reads it ends the process.
\* (One that finds a restart in the channel, or comes after it, is lost: see RequestRestart
\* and OsSignal.)
ShutdownIsObeyed == (main = "serve" /\ signals[run] = "TERM") ~> main = "ended"

\* What was asked to stop stops.
StopEnds == RunsEnd /\ ShutdownIsObeyed
=============================================================================
