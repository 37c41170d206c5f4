--------------------------- MODULE InMemoryBackend ---------------------------
(***************************************************************************)
(* The in-memory backend with persistent storage                           *)
(* (jobbackendprovider/inmemoryprovider): the service stores a copy of each *)
(* job it changes, and a loop writes the copies to a file from time to     *)
(* time, when they changed since the last save.                            *)
(*                                                                         *)
(* The service notifies a change in two steps (the map under mapMutex,     *)
(* then the generation); the save takes five (generation, copy of the map, *)
(* temporary file, flush, rename).  They interleave, the disk may fail and *)
(* the process may crash between any two.                                  *)
(***************************************************************************)
EXTENDS Naturals, FiniteSets

CONSTANTS
  Jobs,        \* the jobs that may be created
  MaxJobs,     \* backend.inMemory.maxJobs
  MaxChanges,  \* bound: changes made to the jobs
  MaxFaults    \* bound: failed writes

ASSUME InMemoryAssumption ==
  MaxJobs \in Nat \ {0} /\ MaxChanges \in Nat \ {0} /\ MaxFaults \in Nat

VARIABLES
  jobs,             \* p.jobs: the copy of each job (the change that made it; 0: none)
  changes,          \* changes made so far
  toNotify,         \* the service changed the map and has yet to call NotifyChange
  generation,       \* p.generation
  savedGeneration,  \* p.savedGeneration
  save,             \* the save in progress: [pc, generation, jobs]
  tmp,              \* the temporary file
  file,             \* the storage file
  mode,             \* "running", "stopping", "stopped" or "crashed"
  faults            \* failed writes so far

vars == <<jobs, changes, toNotify, generation, savedGeneration, save, tmp, file, mode, faults>>
serviceVars == <<jobs, changes, toNotify, generation>>
saveVars == <<savedGeneration, save, tmp, file, faults>>

Copies == [Jobs -> 0 .. MaxChanges]
NoJobs == [j \in Jobs |-> 0]
Stored == {j \in Jobs : jobs[j] # 0}

\* What a file holds.
Written(copies) == [state |-> "complete", jobs |-> copies]
Partial == [state |-> "partial", jobs |-> NoJobs]
NoFile == [state |-> "none", jobs |-> NoJobs]
NoSave == [pc |-> "idle", generation |-> 0, jobs |-> NoJobs]

\* The file is new, or that of an earlier run (with a larger maxJobs, maybe).
Init ==
  /\ jobs \in {NoJobs, [j \in Jobs |-> 1]}
  /\ file = Written(jobs) /\ tmp = NoFile
  /\ changes = 1 /\ toNotify = FALSE /\ generation = 0 /\ savedGeneration = 0
  /\ save = NoSave
  /\ mode = "running" /\ faults = 0

-----------------------------------------------------------------------------
(* The service, with its own mutex held: one change at a time.             *)

ServiceActs == mode \in {"running", "stopping"} /\ ~toNotify /\ changes < MaxChanges

\* keepLocked, delete(p.jobs, id), or the empty map of OnJobsDeleted.
Keep(new) ==
  /\ jobs' = new
  /\ toNotify' = TRUE
  /\ changes' = changes + 1
  /\ UNCHANGED <<generation, saveVars, mode>>

\* The service refuses a job when GetMaxJobs() jobs exist or more, the backend when
\* there are exactly maxJobs.
OnJobCreated(j) ==
  /\ ServiceActs
  /\ j \notin Stored
  /\ Cardinality(Stored) < MaxJobs
  /\ Cardinality(Stored) # MaxJobs
  /\ Keep([jobs EXCEPT ![j] = changes + 1])

\* NotifyJobEvent (any event of a stored job), and OnJobUpdated.
NotifyJobEvent(j) ==
  /\ ServiceActs
  /\ j \in Stored
  /\ Keep([jobs EXCEPT ![j] = changes + 1])

OnJobDeleted(j) ==
  /\ ServiceActs
  /\ j \in Stored
  /\ Keep([jobs EXCEPT ![j] = 0])

OnJobsDeleted == ServiceActs /\ Keep(NoJobs)

NotifyChange ==
  /\ toNotify /\ mode \in {"running", "stopping"}
  /\ toNotify' = FALSE
  /\ generation' = generation + 1
  /\ UNCHANGED <<jobs, changes, saveVars, mode>>

-----------------------------------------------------------------------------
(* The save loop: sync at each tick, SaveToFile when it stops.             *)

Saving == save.pc # "idle"

BeginSave ==
  /\ save' = [NoSave EXCEPT !.pc = "counted", !.generation = generation]
  /\ UNCHANGED <<savedGeneration, tmp, file, faults>>

\* sync: nothing to do when nothing changed since the last save.
Sync ==
  /\ mode = "running" /\ ~Saving
  /\ generation # savedGeneration
  /\ BeginSave
  /\ UNCHANGED <<serviceVars, mode>>

Stop ==
  /\ mode = "running"
  /\ mode' = "stopping"
  /\ UNCHANGED <<serviceVars, saveVars>>

\* The loop ends with a save, whatever the generations are.  When it begins, the
\* HTTP server has stopped and the last request has ended (see module Server for
\* the requests that do not end in time).
SaveToFile ==
  /\ mode = "stopping" /\ ~Saving /\ ~toNotify
  /\ BeginSave
  /\ mode' = "stopped"
  /\ UNCHANGED serviceVars

CopyJobs ==
  /\ save.pc = "counted" /\ mode # "crashed"
  /\ save' = [save EXCEPT !.pc = "copied", !.jobs = jobs]
  /\ UNCHANGED <<serviceVars, savedGeneration, tmp, file, faults, mode>>

\* Mutant: the generation is the one found after the copy.
CopyThenCount ==
  /\ save.pc = "copied" /\ mode # "crashed"
  /\ save' = [save EXCEPT !.pc = "opened", !.generation = generation]
  /\ tmp' = Partial
  /\ UNCHANGED <<serviceVars, savedGeneration, file, faults, mode>>

\* writeFileAtomic: the temporary file is truncated, ...
OpenTemporary ==
  /\ save.pc = "copied" /\ mode # "crashed"
  /\ save' = [save EXCEPT !.pc = "opened"]
  /\ tmp' = Partial
  /\ UNCHANGED <<serviceVars, savedGeneration, file, faults, mode>>

\* ... written and flushed, ...
FlushTemporary ==
  /\ save.pc = "opened" /\ mode # "crashed"
  /\ save' = [save EXCEPT !.pc = "flushed"]
  /\ tmp' = Written(save.jobs)
  /\ UNCHANGED <<serviceVars, savedGeneration, file, faults, mode>>

\* Mutant: the rename does not wait for the flush.
RenameUnflushed ==
  /\ save.pc \in {"opened", "flushed"} /\ mode # "crashed"
  /\ file' = tmp
  /\ tmp' = NoFile
  /\ savedGeneration' = save.generation
  /\ save' = NoSave
  /\ UNCHANGED <<serviceVars, faults, mode>>

\* ... and renamed.
Rename ==
  /\ save.pc = "flushed" /\ mode # "crashed"
  /\ file' = tmp
  /\ tmp' = NoFile
  /\ savedGeneration' = save.generation
  /\ save' = NoSave
  /\ UNCHANGED <<serviceVars, faults, mode>>

\* Mutant: a failed save counts as a save.
WriteFailsSilently ==
  /\ save.pc \in {"copied", "opened", "flushed"} /\ mode # "crashed"
  /\ faults < MaxFaults
  /\ faults' = faults + 1
  /\ tmp' = NoFile
  /\ savedGeneration' = save.generation
  /\ save' = NoSave
  /\ UNCHANGED <<serviceVars, file, mode>>

\* An error at any step removes the temporary file; the next tick tries again.
WriteFails ==
  /\ save.pc \in {"copied", "opened", "flushed"} /\ mode # "crashed"
  /\ faults < MaxFaults
  /\ faults' = faults + 1
  /\ tmp' = NoFile
  /\ save' = NoSave
  /\ UNCHANGED <<serviceVars, savedGeneration, file, mode>>

-----------------------------------------------------------------------------
Crash ==
  /\ mode # "crashed"
  /\ mode' = "crashed"
  /\ UNCHANGED <<serviceVars, saveVars>>

\* LoadJobs in a new process, after a crash or a stop: the file must be complete.
LoadJobs ==
  /\ mode = "crashed" \/ (mode = "stopped" /\ ~Saving)
  /\ file.state = "complete"
  /\ jobs' = file.jobs
  /\ toNotify' = FALSE /\ generation' = 0 /\ savedGeneration' = 0
  /\ save' = NoSave
  /\ mode' = "running"
  /\ UNCHANGED <<changes, tmp, file, faults>>

ServiceStep ==
  \/ \E j \in Jobs : OnJobCreated(j) \/ NotifyJobEvent(j) \/ OnJobDeleted(j)
  \/ OnJobsDeleted

SaveStep == CopyJobs \/ OpenTemporary \/ FlushTemporary \/ Rename \/ WriteFails

Next ==
  \/ ServiceStep \/ NotifyChange
  \/ Sync \/ SaveStep
  \/ Stop \/ SaveToFile
  \/ Crash \/ LoadJobs

(* The ticker fires for ever, and a step of the service or of a save that  *)
(* has begun is finished.  MaxFaults bounds the failures, so the disk works *)
(* in the end.                                                             *)
Fairness ==
  /\ WF_vars(NotifyChange)
  /\ WF_vars(Sync)
  /\ WF_vars(SaveStep)
  /\ WF_vars(SaveToFile)

Spec == Init /\ [][Next]_vars
FairSpec == Spec /\ Fairness

-----------------------------------------------------------------------------
\* The storage file is complete at every instant, so that it can be loaded after a
\* crash in the middle of a write.
FileIsComplete == file.state = "complete"

\* When nothing is left to save by the count of the generations, the file has every
\* change, even those made in the middle of the last save: a skipped save misses nothing.
SkippedSaveMissesNothing ==
  mode # "crashed" /\ generation = savedGeneration /\ ~toNotify => file.jobs = jobs

\* Whatever a save is interrupted by, the file can be loaded, and is the last word when the
\* generations say so.
FileIsRight == FileIsComplete /\ SkippedSaveMissesNothing

\* A change that lasts reaches the file, in spite of failed writes, unless the process
\* crashes or stops first (a stop saves once: its write may fail).
ChangesAreSaved ==
  \A j \in Jobs, n \in 0 .. MaxChanges :
    (mode = "running" /\ jobs[j] = n)
      ~> (file.jobs[j] = n \/ jobs[j] # n \/ mode \in {"crashed", "stopped"})
=============================================================================
