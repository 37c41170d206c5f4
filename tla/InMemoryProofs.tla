---------------------------- MODULE InMemoryProofs ----------------------------
(* Theorems about InMemoryBackend, for every value of its constants.         *)
EXTENDS InMemoryBackend, TLAPS

Table == [Jobs -> Nat]
File == [state : {"none", "partial", "complete"}, jobs : Table]
SavePcs == {"idle", "counted", "copied", "opened", "flushed"}

Typed ==
  /\ jobs \in Table /\ changes \in Nat /\ toNotify \in BOOLEAN
  /\ generation \in Nat /\ savedGeneration \in Nat
  /\ save \in [pc : SavePcs, generation : Nat, jobs : Table]
  /\ tmp \in File /\ file \in File
  /\ mode \in {"running", "stopping", "stopped", "crashed"}

\* A save never counts a change that it did not see: what it wrote down of the generation
\* is from before its copy of the map, and the service counts a change after it made it.
CopyIsAsNewAsItsCount ==
  /\ save.pc # "idle" => save.generation <= generation
  /\ save.pc \in {"copied", "opened", "flushed"} /\ save.generation = generation /\ ~toNotify
       => save.jobs = jobs

\* So does the file, for the generation of the last save.
FileIsAsNewAsItsCount ==
  /\ savedGeneration <= generation
  /\ generation = savedGeneration /\ ~toNotify => file.jobs = jobs

IInv ==
  /\ Typed
  /\ FileIsComplete
  /\ save.pc = "flushed" => tmp = Written(save.jobs)
  /\ CopyIsAsNewAsItsCount
  /\ FileIsAsNewAsItsCount

LEMMA FileRecords ==
  /\ NoJobs \in Table
  /\ \A t \in Table : Written(t) \in File /\ Written(t).state = "complete" /\ Written(t).jobs = t
  /\ Partial \in File /\ NoFile \in File
  /\ NoSave \in [pc : SavePcs, generation : Nat, jobs : Table] /\ NoSave.pc = "idle"
BY DEF NoJobs, Table, Written, File, Partial, NoFile, NoSave, SavePcs

LEMMA InitIInv == Init => IInv
<1> SUFFICES ASSUME Init PROVE IInv
  OBVIOUS
<1>1. jobs \in Table
  BY DEF Init, Table, NoJobs
<1>2. file = Written(jobs) /\ tmp = NoFile /\ save = NoSave
  BY DEF Init
<1>3. Typed
  BY <1>1, <1>2, FileRecords DEF Init, Typed
<1> QED
  BY <1>1, <1>2, <1>3, FileRecords
     DEF Init, IInv, FileIsComplete, CopyIsAsNewAsItsCount, FileIsAsNewAsItsCount

\* A change of the service is not counted yet, so nothing is promised of it.
LEMMA KeepStep ==
  ASSUME IInv, NEW new \in Table, Keep(new)
  PROVE  IInv'
<1>1. /\ jobs' = new /\ toNotify' = TRUE /\ changes' = changes + 1
      /\ generation' = generation /\ savedGeneration' = savedGeneration
      /\ save' = save /\ tmp' = tmp /\ file' = file /\ mode' = mode
  BY DEF Keep, saveVars
<1>2. Typed'
  BY <1>1 DEF IInv, Typed
<1> QED
  BY <1>1, <1>2 DEF IInv, FileIsComplete, CopyIsAsNewAsItsCount, FileIsAsNewAsItsCount

LEMMA ServiceKeeps ==
  ASSUME IInv, ServiceStep \/ NotifyChange
  PROVE  IInv'
<1>1. jobs \in Table /\ changes \in Nat
  BY DEF IInv, Typed
<1>2. \A j \in Jobs, n \in Nat : [jobs EXCEPT ![j] = n] \in Table
  BY <1>1 DEF Table
<1>3. ASSUME NEW j \in Jobs, OnJobCreated(j) \/ NotifyJobEvent(j)
      PROVE  IInv'
  <2>1. Keep([jobs EXCEPT ![j] = changes + 1]) /\ changes + 1 \in Nat
    BY <1>1, <1>3 DEF OnJobCreated, NotifyJobEvent
  <2> QED
    BY <1>2, <2>1, KeepStep
<1>4. ASSUME NEW j \in Jobs, OnJobDeleted(j)
      PROVE  IInv'
  <2>1. Keep([jobs EXCEPT ![j] = 0])
    BY <1>4 DEF OnJobDeleted
  <2> QED
    BY <1>2, <2>1, KeepStep
<1>5. CASE OnJobsDeleted
  BY <1>5, FileRecords, KeepStep DEF OnJobsDeleted
<1>6. CASE NotifyChange
  <2>1. /\ toNotify' = FALSE /\ generation' = generation + 1
        /\ jobs' = jobs /\ changes' = changes /\ savedGeneration' = savedGeneration
        /\ save' = save /\ tmp' = tmp /\ file' = file /\ mode' = mode
    BY <1>6 DEF NotifyChange, saveVars
  <2>2. save.generation \in Nat /\ generation \in Nat /\ savedGeneration \in Nat
    BY DEF IInv, Typed
  <2>3. Typed'
    <3>1. generation' \in Nat
      BY <2>1, <2>2
    <3>2. toNotify' \in BOOLEAN
      BY <2>1, Zenon
    <3> QED
      BY <2>1, <3>1, <3>2 DEF IInv, Typed
  <2>4. CopyIsAsNewAsItsCount'
    <3>1. save.pc # "idle" => save.generation <= generation
      BY DEF IInv, CopyIsAsNewAsItsCount
    <3> QED
      BY <2>1, <2>2, <3>1 DEF CopyIsAsNewAsItsCount
  <2>5. FileIsAsNewAsItsCount'
    <3>1. savedGeneration <= generation
      BY DEF IInv, FileIsAsNewAsItsCount
    <3> QED
      BY <2>1, <2>2, <3>1 DEF FileIsAsNewAsItsCount
  <2> QED
    BY <2>1, <2>3, <2>4, <2>5 DEF IInv, FileIsComplete
<1> QED
  BY <1>3, <1>4, <1>5, <1>6 DEF ServiceStep

LEMMA BeginKeeps ==
  ASSUME IInv, Sync \/ SaveToFile
  PROVE  IInv'
<1>1. /\ save'.pc = "counted" /\ save'.generation = generation /\ save'.jobs = NoJobs
      /\ save' \in [pc : SavePcs, generation : Nat, jobs : Table]
  <2>1. save' = [NoSave EXCEPT !.pc = "counted", !.generation = generation]
    BY DEF Sync, SaveToFile, BeginSave
  <2>2. generation \in Nat /\ NoJobs \in Table
    BY FileRecords DEF IInv, Typed
  <2>3. save' = [pc |-> "counted", generation |-> generation, jobs |-> NoJobs]
    BY <2>1 DEF NoSave
  <2> QED
    BY <2>2, <2>3 DEF SavePcs
<1>2. /\ jobs' = jobs /\ toNotify' = toNotify /\ changes' = changes
      /\ generation' = generation /\ savedGeneration' = savedGeneration
      /\ tmp' = tmp /\ file' = file /\ mode' \in {mode, "stopped"}
  BY DEF Sync, SaveToFile, BeginSave, serviceVars
<1>3. Typed'
  BY <1>1, <1>2 DEF IInv, Typed
<1> QED
  BY <1>1, <1>2, <1>3
     DEF IInv, Typed, FileIsComplete, CopyIsAsNewAsItsCount, FileIsAsNewAsItsCount

LEMMA SaveKeeps ==
  ASSUME IInv, SaveStep
  PROVE  IInv'
<1>1. /\ jobs' = jobs /\ toNotify' = toNotify /\ changes' = changes
      /\ generation' = generation /\ mode' = mode
  BY DEF SaveStep, CopyJobs, OpenTemporary, FlushTemporary, Rename, WriteFails, serviceVars
<1>2. save \in [pc : SavePcs, generation : Nat, jobs : Table] /\ jobs \in Table
  BY DEF IInv, Typed
<1>3. CASE CopyJobs
  <2>1. /\ save.pc = "counted" /\ save'.pc = "copied" /\ save'.jobs = jobs
        /\ save'.generation = save.generation
        /\ save' \in [pc : SavePcs, generation : Nat, jobs : Table]
        /\ tmp' = tmp /\ file' = file /\ savedGeneration' = savedGeneration
    BY <1>2, <1>3 DEF CopyJobs, SavePcs
  <2>2. Typed'
    BY <1>1, <2>1 DEF IInv, Typed
  <2> QED
    BY <1>1, <2>1, <2>2 DEF IInv, FileIsComplete, CopyIsAsNewAsItsCount, FileIsAsNewAsItsCount
<1>4. CASE OpenTemporary
  <2>1. /\ save.pc = "copied" /\ save'.pc = "opened" /\ save'.jobs = save.jobs
        /\ save'.generation = save.generation
        /\ save' \in [pc : SavePcs, generation : Nat, jobs : Table]
        /\ tmp' = Partial /\ file' = file /\ savedGeneration' = savedGeneration
    BY <1>2, <1>4 DEF OpenTemporary, SavePcs
  <2>2. Typed'
    BY <1>1, <2>1, FileRecords DEF IInv, Typed
  <2> QED
    BY <1>1, <2>1, <2>2 DEF IInv, FileIsComplete, CopyIsAsNewAsItsCount, FileIsAsNewAsItsCount
<1>5. CASE FlushTemporary
  <2>1. /\ save.pc = "opened" /\ save'.pc = "flushed" /\ save'.jobs = save.jobs
        /\ save'.generation = save.generation
        /\ save' \in [pc : SavePcs, generation : Nat, jobs : Table]
        /\ tmp' = Written(save.jobs) /\ file' = file /\ savedGeneration' = savedGeneration
    BY <1>2, <1>5 DEF FlushTemporary, SavePcs
  <2>2. Typed'
    BY <1>1, <1>2, <2>1, FileRecords DEF IInv, Typed
  <2> QED
    BY <1>1, <2>1, <2>2 DEF IInv, FileIsComplete, CopyIsAsNewAsItsCount, FileIsAsNewAsItsCount
<1>6. CASE Rename
  <2>1. /\ save.pc = "flushed" /\ save' = NoSave /\ tmp' = NoFile
        /\ file' = Written(save.jobs) /\ savedGeneration' = save.generation
    BY <1>6 DEF Rename, IInv
  <2>2. Typed'
    BY <1>1, <1>2, <2>1, FileRecords DEF IInv, Typed
  <2>3. /\ file'.state = "complete" /\ file'.jobs = save.jobs /\ save'.pc = "idle"
    BY <1>2, <2>1, FileRecords
  <2> QED
    BY <1>1, <2>1, <2>2, <2>3
       DEF IInv, FileIsComplete, CopyIsAsNewAsItsCount, FileIsAsNewAsItsCount
<1>7. CASE WriteFails
  <2>1. /\ save' = NoSave /\ tmp' = NoFile /\ file' = file
        /\ savedGeneration' = savedGeneration
    BY <1>7 DEF WriteFails
  <2>2. Typed'
    BY <1>1, <2>1, FileRecords DEF IInv, Typed
  <2> QED
    BY <1>1, <2>1, <2>2, FileRecords
       DEF IInv, FileIsComplete, CopyIsAsNewAsItsCount, FileIsAsNewAsItsCount
<1> QED
  BY <1>3, <1>4, <1>5, <1>6, <1>7 DEF SaveStep

\* A stop and a crash keep what is in memory; a new process has what the file has.
LEMMA ProcessKeeps ==
  ASSUME IInv, Stop \/ Crash \/ LoadJobs
  PROVE  IInv'
<1>1. CASE Stop \/ Crash
  <2>1. /\ UNCHANGED <<jobs, changes, toNotify, generation, savedGeneration, save, tmp, file>>
        /\ mode' \in {"stopping", "crashed"}
    BY <1>1 DEF Stop, Crash, serviceVars, saveVars
  <2>2. Typed'
    BY <2>1 DEF IInv, Typed
  <2> QED
    BY <2>1, <2>2 DEF IInv, FileIsComplete, CopyIsAsNewAsItsCount, FileIsAsNewAsItsCount
<1>2. CASE LoadJobs
  <2>1. /\ jobs' = file.jobs /\ toNotify' = FALSE /\ generation' = 0 /\ savedGeneration' = 0
        /\ save' = NoSave /\ mode' = "running"
        /\ changes' = changes /\ tmp' = tmp /\ file' = file
    BY <1>2 DEF LoadJobs
  <2>2. file.jobs \in Table
    BY DEF IInv, Typed, File
  <2>3. Typed'
    BY <2>1, <2>2, FileRecords DEF IInv, Typed
  <2> QED
    BY <2>1, <2>3, FileRecords
       DEF IInv, FileIsComplete, CopyIsAsNewAsItsCount, FileIsAsNewAsItsCount
<1> QED
  BY <1>1, <1>2

LEMMA NextKeeps ==
  ASSUME IInv, [Next]_vars
  PROVE  IInv'
<1>1. CASE UNCHANGED vars
  BY <1>1 DEF vars, IInv, Typed, FileIsComplete, CopyIsAsNewAsItsCount, FileIsAsNewAsItsCount
<1> QED
  BY <1>1, ServiceKeeps, BeginKeeps, SaveKeeps, ProcessKeeps DEF Next

\* The storage file can be loaded at every instant, whatever step of writeFileAtomic a crash
\* or a failed write interrupts, and a save that sync skips would have written nothing new.
THEOREM FileIsTheLastWord == Spec => []FileIsRight
<1>1. IInv => FileIsRight
  BY DEF IInv, FileIsAsNewAsItsCount, FileIsRight, SkippedSaveMissesNothing
<1>2. IInv /\ [Next]_vars => IInv'
  BY NextKeeps
<1> QED
  BY <1>1, <1>2, InitIInv, PTL DEF Spec
=============================================================================
