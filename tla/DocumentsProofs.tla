--------------------------- MODULE DocumentsProofs --------------------------
(***************************************************************************)
(* Components of MCDocuments, for every value of their constants.  A step  *)
(* of another component leaves the variables of the proved one alone.      *)
(***************************************************************************)
EXTENDS MCDocuments, FiniteSetTheorems, TLAPS

-----------------------------------------------------------------------------
(***************************************************************************)
(* StartupGuard implements CrashGuard: whatever the order of starts,       *)
(* syncs, ingests, shutdowns, kills and failed writes, the flag, the       *)
(* sentinel file and the RUNNING rows together keep the promise of the     *)
(* abstract crash-loop guard.                                              *)
(***************************************************************************)
Recordable == {"startup", "manual", "ingest"}

StartTyped ==
  /\ phase \in {"stopped", "dead", "loading", "up", "stopping"}
  /\ rows \subseteq Recordable
  /\ flag \in BOOLEAN /\ sentinel \in BOOLEAN /\ unsafe \in BOOLEAN
  /\ syncResult \in {"none", "PENDING", "SUPPRESSED", "FAILED", "DONE"}
  /\ startup \in {"none", "spawned", "waiting", "running"}
  /\ others \subseteq {"manual", "ingest", "watch"}

\* Nothing is under way before the decision of the lifespan or after the process ended.
IdleUnlessUp == phase \in {"stopped", "dead", "loading"} => startup = "none" /\ others = {}

\* The startup sync exists only after a decision for it, which nothing takes back before it ends.
SpawnedIsPending == startup # "none" => syncResult = "PENDING"

\* sync_lock: the startup sync and a manual sync never run together.
OneSync == startup = "running" => "manual" \notin others

\* What a client asked for has its RUNNING row in the file for as long as it runs.
AskedOnRecord == others \cap {"manual", "ingest"} \subseteq rows

\* The startup sync has its row, unless the write of it failed.
StartupOnRecord == startup \in {"waiting", "running"} /\ ~unsafe => "startup" \in rows

\* A server that holds back has it in the sentinel file, unless the write of it failed.
HoldOnDisk == phase \in {"up", "stopping"} /\ syncResult = "SUPPRESSED" /\ ~unsafe => sentinel

StartInv == /\ StartTyped /\ IdleUnlessUp /\ SpawnedIsPending /\ OneSync
            /\ AskedOnRecord /\ StartupOnRecord /\ HoldOnDisk

-----------------------------------------------------------------------------
LEMMA StartTypesAgree == StartTyped <=> Startup!StartTypeOK
  BY DEF StartTyped, Startup!StartTypeOK, Recordable

LEMMA StartInitInv == Startup!StartInit => StartInv
  BY DEF Startup!StartInit, StartInv, StartTyped, IdleUnlessUp, SpawnedIsPending, OneSync, AskedOnRecord,
         StartupOnRecord, HoldOnDisk, Recordable

LEMMA StartStepInv ==
  ASSUME StartInv, [Startup!StartNext]_Startup!startVars
  PROVE  StartInv'
<1> USE DEF StartInv, StartTyped, IdleUnlessUp, SpawnedIsPending, OneSync, AskedOnRecord,
            StartupOnRecord, HoldOnDisk, Recordable
<1>1. CASE Startup!LoadJobs
  BY <1>1 DEF Startup!LoadJobs
<1>2. CASE Startup!LoadFails
  BY <1>2 DEF Startup!LoadFails
<1>3. CASE Startup!DecideStartupSync
  BY <1>3 DEF Startup!DecideStartupSync, Startup!Suppressed
<1>4. CASE Startup!MarkStartupSync
  BY <1>4 DEF Startup!MarkStartupSync, Startup!Open
<1>5. CASE Startup!RunStartupSync
  BY <1>5 DEF Startup!RunStartupSync, Startup!SyncLocked
<1>6. CASE Startup!EndStartupSync
  BY <1>6 DEF Startup!EndStartupSync, Startup!Close, Startup!Open
<1>7. CASE Startup!TriggerSync
  BY <1>7 DEF Startup!TriggerSync, Startup!SyncLocked, Startup!Open
<1>8. CASE Startup!CleanManualSync
  BY <1>8 DEF Startup!CleanManualSync, Startup!Close, Startup!Open
<1>9. CASE Startup!BeginIngest
  BY <1>9 DEF Startup!BeginIngest, Startup!Open
<1>10. CASE Startup!BeginWatchSync
  BY <1>10 DEF Startup!BeginWatchSync
<1>11. CASE Startup!EndWatchSync
  BY <1>11 DEF Startup!EndWatchSync
<1>12. CASE Startup!BeginShutdown
  BY <1>12 DEF Startup!BeginShutdown
<1>13. CASE Startup!ExitCleanly
  BY <1>13 DEF Startup!ExitCleanly
<1>14. CASE Startup!Kill
  BY <1>14 DEF Startup!Kill
<1>15. ASSUME NEW a \in Recordable, Startup!EndIngest(a) PROVE StartInv'
  BY <1>15 DEF Startup!EndIngest, Startup!Close, Startup!Open
<1>16. ASSUME NEW a \in Recordable, Startup!CancelTask(a) PROVE StartInv'
  BY <1>16 DEF Startup!CancelTask, Startup!Close, Startup!Open
<1>17. CASE UNCHANGED Startup!startVars
  BY <1>17 DEF Startup!startVars
<1> QED
  BY <1>1, <1>2, <1>3, <1>4, <1>5, <1>6, <1>7, <1>8, <1>9, <1>10, <1>11, <1>12, <1>13, <1>14,
     <1>15, <1>16, <1>17 DEF Startup!StartNext

LEMMA StartInvariant == Startup!StartSpec => []StartInv
  BY StartInitInv, StartStepInv, PTL DEF Startup!StartSpec

-----------------------------------------------------------------------------
LEMMA StepGuard ==
  ASSUME StartInv, StartInv', [Startup!StartNext]_Startup!startVars
  PROVE  [Startup!Guard!GuardNext]_Startup!Guard!guardVars
<1> USE DEF StartInv, StartTyped, IdleUnlessUp, SpawnedIsPending, OneSync, AskedOnRecord,
            StartupOnRecord, HoldOnDisk, Recordable
<1>1. CASE Startup!LoadJobs
  BY <1>1 DEF Startup!LoadJobs, Startup!Guard!GuardNext, Startup!Guard!Start
<1>2. CASE Startup!LoadFails
  BY <1>2 DEF Startup!LoadFails, Startup!Guard!GuardNext, Startup!Guard!Die
<1>3. CASE Startup!DecideStartupSync
  BY <1>3 DEF Startup!DecideStartupSync, Startup!Suppressed, Startup!Guard!GuardNext, Startup!Guard!Slip,
              Startup!Guard!guardVars
<1>4. CASE Startup!MarkStartupSync
  BY <1>4 DEF Startup!MarkStartupSync, Startup!Guard!GuardNext, Startup!Guard!Begin
<1>5. CASE Startup!RunStartupSync
  BY <1>5 DEF Startup!RunStartupSync, Startup!Guard!guardVars
<1>6. CASE Startup!EndStartupSync
  BY <1>6 DEF Startup!EndStartupSync, Startup!Guard!GuardNext, Startup!Guard!End
<1>7. CASE Startup!TriggerSync
  BY <1>7 DEF Startup!TriggerSync, Startup!SyncLocked, Startup!Guard!GuardNext, Startup!Guard!Begin
<1>8. CASE Startup!CleanManualSync
  BY <1>8 DEF Startup!CleanManualSync, Startup!Guard!GuardNext, Startup!Guard!CleanSync
<1>9. CASE Startup!BeginIngest
  BY <1>9 DEF Startup!BeginIngest, Startup!Guard!GuardNext, Startup!Guard!Begin
<1>10. CASE Startup!BeginWatchSync
  BY <1>10 DEF Startup!BeginWatchSync, Startup!WatchAllowed, Startup!Guard!GuardNext, Startup!Guard!Begin
<1>11. CASE Startup!EndWatchSync
  BY <1>11 DEF Startup!EndWatchSync, Startup!Guard!GuardNext, Startup!Guard!End
<1>12. CASE Startup!BeginShutdown
  BY <1>12 DEF Startup!BeginShutdown, Startup!Guard!GuardNext, Startup!Guard!End, Startup!Guard!guardVars
<1>13. CASE Startup!ExitCleanly
  BY <1>13 DEF Startup!ExitCleanly, Startup!Guard!GuardNext, Startup!Guard!Exit
<1>14. CASE Startup!Kill
  BY <1>14 DEF Startup!Kill, Startup!Guard!GuardNext, Startup!Guard!Die
<1>15. ASSUME NEW a \in Recordable, Startup!EndIngest(a) PROVE Startup!Guard!GuardNext
  BY <1>15 DEF Startup!EndIngest, Startup!Guard!GuardNext, Startup!Guard!End
<1>16. ASSUME NEW a \in Recordable, Startup!CancelTask(a) PROVE [Startup!Guard!GuardNext]_Startup!Guard!guardVars
  BY <1>16 DEF Startup!CancelTask, Startup!Guard!GuardNext, Startup!Guard!End, Startup!Guard!guardVars
<1>17. CASE UNCHANGED Startup!startVars
  BY <1>17 DEF Startup!startVars, Startup!Guard!guardVars
<1> QED
  BY <1>1, <1>2, <1>3, <1>4, <1>5, <1>6, <1>7, <1>8, <1>9, <1>10, <1>11, <1>12, <1>13, <1>14,
     <1>15, <1>16, <1>17 DEF Startup!StartNext

\* The server implements the crash-loop guard (create_app, the lifespan, _run_startup_sync,
\* _clear_degraded_sync_state): after a death during a recorded ingest no startup sync and no
\* watcher sync begins before an operator's clean sync, across any number of restarts.
THEOREM GuardImplemented == DocumentsSpec => NoCrashLoop
<1>1. DocumentsInit => Startup!StartInit
  BY DEF DocumentsInit
<1>2. [DocumentsNext]_allVars => [Startup!StartNext]_Startup!startVars
  BY DEF DocumentsNext, allVars, startVars, Startup!startVars
<1>3. DocumentsSpec => Startup!StartSpec
  BY <1>1, <1>2, PTL DEF DocumentsSpec, Startup!StartSpec
<1>4. Startup!StartInit => Startup!Guard!GuardInit
  BY DEF Startup!StartInit, Startup!Guard!GuardInit
<1>5. Startup!StartSpec => Startup!NoCrashLoop
  BY <1>4, StartInvariant, StepGuard, PTL DEF Startup!StartSpec, Startup!NoCrashLoop, Startup!Guard!GuardSpec
<1>6. StartInv => (part = "startup" => Startup!StartTypeOK)
  BY StartTypesAgree DEF StartInv
<1> QED
  BY <1>3, <1>5, <1>6, StartInvariant, PTL DEF NoCrashLoop
-----------------------------------------------------------------------------
(***************************************************************************)
(* FileSync: no stale file is recorded as current, but for those that      *)
(* doomed and blank name.                                                  *)
(***************************************************************************)
Places == {"idle", "listed", "checking", "adding", "diff", "changes", "ingest", "apply", "resume"}
Recorded == [Files -> 0..MaxEdits]
Entries == [status : Statuses, processed : SUBSET Files, mtimes : Recorded]
Turns == [at : Places, resume : SUBSET Files, del : SUBSET Files, chg : SUBSET Files, new : SUBSET Files,
          mt : Recorded, done : SUBSET Files, cur : [name : Files \cup {"none"}, ver : 0..MaxEdits]]
WorldTyped ==
  /\ disk \in Recorded /\ blank \in SUBSET Files /\ index \in [Files -> {Partial} \cup 0..MaxEdits]
  /\ table \in BOOLEAN /\ syncLock \in Runs \cup {NoLock} /\ doomed \in SUBSET Files /\ edits \in 1..MaxEdits
  /\ \A f \in Files : disk[f] <= edits

\* A file whose chunks are out of date and that a resume will not look at is known as such.
DoomedKnown == \A f \in Files : Stale(f) /\ Committed(f) => f \in doomed

\* An mtime that stands, or would stand, in the state file tells the truth of its file.  It is not
\* of the future, so that no later edit can make it current.
Sound(f, v) ==
  /\ v <= edits
  /\ f \in doomed \cup blank \/ disk[f] = 0 \/ v # disk[f] \/ index[f] = disk[f]
FilesInv ==
  /\ WorldTyped /\ entry \in Entries /\ turn \in [Runs -> Turns] /\ DoomedKnown
  /\ \A f \in Files : Sound(f, entry.mtimes[f])
  /\ \A r \in Runs, f \in Files : Sound(f, turn[r].mt[f])

\* Sound of a value in the next state.
SoundNext(f, v) ==
  /\ v <= edits'
  /\ f \in doomed' \cup blank' \/ disk'[f] = 0 \/ v # disk'[f] \/ index'[f] = disk'[f]

\* What a step may write as the mtime of a file: nothing, what is written somewhere, the stat of a
\* file that a resume lists, or what it makes true.
From(f, v) ==
  \/ v = 0 \/ v = entry.mtimes[f] \/ \E q \in Runs : v = turn[q].mt[f]
  \/ Committed(f) /\ v = disk[f]
  \/ SoundNext(f, v)
EntryFrom == entry' \in Entries /\ \A f \in Files : From(f, entry'.mtimes[f])
TurnFrom == turn' \in [Runs -> Turns] /\ \A r \in Runs, f \in Files : From(f, turn'[r].mt[f])

\* What happens to the files: nothing, a deletion, or an edit with a new number.
DiskStep ==
  /\ edits <= edits'
  /\ \A f \in Files : \/ disk'[f] = disk[f] /\ (f \in blank => f \in blank')
                      \/ disk'[f] = 0
                      \/ disk'[f] > edits

LEMMA SoundKept ==
  ASSUME NEW f \in Files, NEW v \in Int, WorldTyped, WorldTyped', DiskStep, History, Sound(f, v)
  PROVE  SoundNext(f, v)
<1>1. edits \in Int /\ edits' \in Int /\ disk'[f] \in Int
  BY DEF WorldTyped, Recorded
<1>2. CASE disk'[f] = 0 \/ disk'[f] > edits
  BY <1>1, <1>2 DEF Sound, SoundNext, DiskStep
<1>3. CASE disk'[f] = disk[f] /\ (f \in blank => f \in blank')
  <2>1. f \in doomed => index'[f] = disk'[f] \/ f \in doomed'
    BY DEF History, Stale
  <2>2. index[f] = disk[f] => index'[f] = disk'[f] \/ f \in doomed'
    BY <1>3 DEF History, Stale, Damaged
  <2> QED
    BY <1>1, <1>3, <2>1, <2>2 DEF Sound, SoundNext, DiskStep
<1> QED
  BY <1>2, <1>3 DEF DiskStep

LEMMA FilesStep ==
  ASSUME FilesInv, WorldTyped', DiskStep, History, EntryFrom, TurnFrom
  PROVE  FilesInv'
<1>1. ASSUME NEW f \in Files, NEW v \in Int, From(f, v)
      PROVE  SoundNext(f, v)
  <2>1. CASE v = 0
    BY <2>1 DEF SoundNext, WorldTyped, Recorded
  <2>2. CASE v = entry.mtimes[f] \/ \E q \in Runs : v = turn[q].mt[f]
    BY <1>1, <2>2, SoundKept DEF FilesInv
  <2>3. CASE Committed(f) /\ v = disk[f]
    <3>1. Sound(f, v)
      BY <2>3 DEF FilesInv, WorldTyped, DoomedKnown, Sound, Stale
    <3> QED
      BY <1>1, <3>1, SoundKept DEF FilesInv
  <2> QED
    BY <1>1, <2>1, <2>2, <2>3 DEF From
<1>2. \A f \in Files : Sound(f, entry.mtimes[f])'
  <2> SUFFICES ASSUME NEW f \in Files PROVE Sound(f, entry.mtimes[f])'
    OBVIOUS
  <2>1. entry'.mtimes[f] \in Int
    BY DEF EntryFrom, Entries, Recorded
  <2>2. SoundNext(f, entry'.mtimes[f])
    BY <1>1, <2>1 DEF EntryFrom
  <2> QED
    BY <2>2 DEF Sound, SoundNext
<1>3. \A r \in Runs, f \in Files : Sound(f, turn[r].mt[f])'
  <2> SUFFICES ASSUME NEW r \in Runs, NEW f \in Files PROVE Sound(f, turn[r].mt[f])'
    OBVIOUS
  <2>1. turn'[r].mt[f] \in Int
    BY DEF TurnFrom, Turns, Recorded
  <2>2. SoundNext(f, turn'[r].mt[f])
    BY <1>1, <2>1 DEF TurnFrom
  <2> QED
    BY <2>2 DEF Sound, SoundNext
<1>4. DoomedKnown'
  BY DEF DoomedKnown, History
<1> QED
  BY <1>2, <1>3, <1>4 DEF FilesInv, EntryFrom, TurnFrom

\* The ways in which a step writes: the state file, and the place of its run.
LEMMA RecordFrom ==
  ASSUME entry \in Entries, NEW status \in Statuses, NEW processed \in SUBSET Files, NEW mtimes \in Recorded,
         \A f \in Files : From(f, mtimes[f]), Record(status, processed, mtimes)
  PROVE  EntryFrom
<1>1. CASE entry' = entry
  BY <1>1 DEF EntryFrom, From
<1>2. CASE entry' = [status |-> status, processed |-> processed, mtimes |-> mtimes]
  BY <1>2 DEF EntryFrom, Entries
<1> QED
  BY <1>1, <1>2 DEF Record

LEMMA EntryKept == entry \in Entries /\ entry' = entry => EntryFrom
  BY DEF EntryFrom, From

LEMMA TurnKept == turn \in [Runs -> Turns] /\ turn' = turn => TurnFrom
  BY DEF TurnFrom, From

LEMMA AtFrom ==
  ASSUME turn \in [Runs -> Turns], NEW r \in Runs, NEW t \in Turns, \A f \in Files : From(f, t.mt[f]), At(r, t)
  PROVE  TurnFrom
<1>1. turn' \in [Runs -> Turns] /\ turn'[r] = t /\ \A q \in Runs \ {r} : turn'[q] = turn[q]
  BY DEF At
<1>2. \A q \in Runs, f \in Files : From(f, turn[q].mt[f])
  BY DEF From
<1> QED
  BY <1>1, <1>2 DEF TurnFrom

LEMMA IdleParts ==
  /\ Idle.resume \in SUBSET Files /\ Idle.del = {} /\ Idle.chg = {} /\ Idle.new = {}
  /\ Idle.mt \in Recorded /\ Idle.done = {} /\ Idle.cur \in [name : Files \cup {"none"}, ver : 0..MaxEdits]
<1>1. NoVersions \in Recorded
  BY FileSyncAssumption DEF NoVersions, Recorded
<1>2. NoFile \in [name : Files \cup {"none"}, ver : 0..MaxEdits]
  BY FileSyncAssumption DEF NoFile
<1> QED
  BY <1>1, <1>2 DEF Idle

LEMMA IdleTurn == /\ Idle \in Turns /\ \A f \in Files : Idle.mt[f] = 0
                  /\ \A p \in Places : [Idle EXCEPT !.at = p] \in Turns
                  /\ \A p \in Places, f \in Files : [Idle EXCEPT !.at = p].mt[f] = 0
<1>1. NoVersions \in Recorded /\ \A f \in Files : NoVersions[f] = 0
  BY FileSyncAssumption DEF NoVersions, Recorded
<1>2. NoFile \in [name : Files \cup {"none"}, ver : 0..MaxEdits]
  BY FileSyncAssumption DEF NoFile
<1> QED
  BY <1>1, <1>2 DEF Idle, Turns, Places

LEMMA FilesNext ==
  ASSUME FilesInv, SyncNext
  PROVE  FilesInv'
<1>0. /\ WorldTyped /\ entry \in Entries /\ turn \in [Runs -> Turns]
      /\ entry.status \in Statuses /\ entry.processed \in SUBSET Files /\ entry.mtimes \in Recorded
      /\ NoVersions \in Recorded
  BY FileSyncAssumption DEF FilesInv, Entries, NoVersions, Recorded
<1>a. ASSUME UNCHANGED <<disk, blank, edits>>, index' \in [Files -> {Partial} \cup 0..MaxEdits],
             table' \in BOOLEAN, syncLock' \in Runs \cup {NoLock}, History
      PROVE  WorldTyped' /\ DiskStep
  BY <1>0, <1>a DEF WorldTyped, DiskStep, History, Recorded
<1>b. ASSUME UNCHANGED <<disk, blank, index, table, edits>>, syncLock' \in Runs \cup {NoLock}, History
      PROVE  WorldTyped' /\ DiskStep
  BY <1>0, <1>a, <1>b DEF WorldTyped
<1>c. \A f \in Files : From(f, 0) /\ From(f, entry.mtimes[f]) /\ \A q \in Runs : From(f, turn[q].mt[f])
  BY DEF From
<1>d. \A r \in Runs : turn[r] \in Turns /\ turn[r].mt \in Recorded
  BY <1>0 DEF Turns
<1>e. syncLock \in Runs \cup {NoLock} /\ NoLock \in Runs \cup {NoLock} /\ table \in BOOLEAN
  BY <1>0 DEF WorldTyped
<1>1. ASSUME NEW f \in Files, Edit(f) PROVE FilesInv'
  <2>1. edits \in 1..MaxEdits /\ edits < MaxEdits /\ edits' = edits + 1
    BY <1>0, <1>1 DEF Edit, WorldTyped
  <2>4. disk \in Recorded /\ blank \in SUBSET Files /\ \A g \in Files : disk[g] \in 0..MaxEdits /\ disk[g] <= edits
    BY <1>0 DEF WorldTyped, Recorded
  <2>5. /\ index' \in [Files -> {Partial} \cup 0..MaxEdits] /\ table' \in BOOLEAN
        /\ syncLock' \in Runs \cup {NoLock} /\ doomed' \in SUBSET Files
    BY <1>0, <1>1 DEF Edit, WorldTyped, History
  <2>2. CASE disk' = [disk EXCEPT ![f] = edits + 1] /\ blank' \in {blank \cup {f}, blank \ {f}}
    <3>1. \A g \in Files : disk'[g] = IF g = f THEN edits + 1 ELSE disk[g]
      BY <2>4, <2>2 DEF Recorded
    <3>2. disk' \in Recorded
      BY <2>1, <2>4, <2>2, FileSyncAssumption DEF Recorded
    <3>3. blank' \in SUBSET Files /\ \A g \in Files \ {f} : g \in blank => g \in blank'
      BY <2>4, <2>2
    <3>4. \A g \in Files : disk'[g] <= edits'
      BY <2>1, <2>4, <3>1
    <3>5. \A g \in Files : (disk'[g] = disk[g] /\ (g \in blank => g \in blank')) \/ disk'[g] > edits
      BY <2>1, <3>1, <3>3
    <3>6. WorldTyped' /\ DiskStep
      BY <2>1, <2>5, <3>2, <3>3, <3>4, <3>5, FileSyncAssumption DEF WorldTyped, DiskStep
    <3> QED
      BY <1>0, <1>1, <3>6, FilesStep, EntryKept, TurnKept DEF Edit
  <2>3. CASE disk' = [disk EXCEPT ![f] = 0] /\ blank' = blank \ {f}
    <3>1. \A g \in Files : disk'[g] = IF g = f THEN 0 ELSE disk[g]
      BY <2>4, <2>3 DEF Recorded
    <3>2. disk' \in Recorded
      BY <2>1, <2>4, <2>3, FileSyncAssumption DEF Recorded
    <3>3. blank' \in SUBSET Files /\ \A g \in Files \ {f} : g \in blank => g \in blank'
      BY <2>4, <2>3
    <3>4. \A g \in Files : disk'[g] <= edits'
      BY <2>1, <2>4, <3>1
    <3>5. \A g \in Files : (disk'[g] = disk[g] /\ (g \in blank => g \in blank')) \/ disk'[g] = 0
      BY <2>1, <3>1, <3>3
    <3>6. WorldTyped' /\ DiskStep
      BY <2>1, <2>5, <3>2, <3>3, <3>4, <3>5, FileSyncAssumption DEF WorldTyped, DiskStep
    <3> QED
      BY <1>0, <1>1, <3>6, FilesStep, EntryKept, TurnKept DEF Edit
  <2> QED
    BY <1>1, <2>2, <2>3 DEF Edit
<1>2. ASSUME NEW f \in Files, OrphanSweep(f) PROVE FilesInv'
  <2>1. index' \in [Files -> {Partial} \cup 0..MaxEdits]
    BY <1>0, <1>2, FileSyncAssumption DEF OrphanSweep, WorldTyped
  <2>2. WorldTyped' /\ DiskStep
    BY <1>2, <2>1, <1>a, <1>e DEF OrphanSweep
  <2> QED
    BY <1>0, <1>2, <2>2, FilesStep, EntryKept, TurnKept DEF OrphanSweep
<1>3. CASE StartSync
  <2>1. WorldTyped' /\ DiskStep
    BY <1>3, <1>b, <1>e DEF StartSync
  <2>2. EntryFrom
    <3>1. [entry EXCEPT !.status = "PENDING"] \in Entries /\ [entry EXCEPT !.status = "PENDING"].mtimes = entry.mtimes
      BY <1>0 DEF Entries, Statuses
    <3> QED
      BY <1>0, <1>3, <1>c, <3>1 DEF StartSync, EntryFrom
  <2>3. TurnFrom
    <3> DEFINE p == IF table THEN "listed" ELSE "adding"
               t == [Idle EXCEPT !.at = p]
    <3>1. p \in Places
      BY DEF Places
    <3>2. "sync" \in Runs /\ At("sync", t)
      BY <1>3 DEF StartSync
    <3> HIDE DEF p
    <3>3. t \in Turns /\ \A f \in Files : t.mt[f] = 0
      BY <3>1, IdleTurn
    <3> HIDE DEF t
    <3> QED
      BY <1>0, <1>c, <3>2, <3>3, AtFrom
  <2> QED
    BY <1>3, <2>1, <2>2, <2>3, FilesStep DEF StartSync
<1>4. CASE Decide
  <2>1. WorldTyped' /\ DiskStep
    BY <1>4, <1>b, <1>e DEF Decide
  <2>2. TurnFrom
    <3> DEFINE p == IF entry.status \in {"none", "DONE"} THEN "checking" ELSE "adding"
               t == [Idle EXCEPT !.at = p]
    <3>1. p \in Places
      BY DEF Places
    <3>2. "sync" \in Runs /\ At("sync", t)
      BY <1>4 DEF Decide
    <3> HIDE DEF p
    <3>3. t \in Turns /\ \A f \in Files : t.mt[f] = 0
      BY <3>1, IdleTurn
    <3> HIDE DEF t
    <3> QED
      BY <1>0, <1>c, <3>2, <3>3, AtFrom
  <2> QED
    BY <1>0, <1>4, <2>1, <2>2, FilesStep, EntryKept DEF Decide
<1>5. CASE LoadProcessedPaths
  <2>1. WorldTyped' /\ DiskStep
    BY <1>5, <1>b, <1>e DEF LoadProcessedPaths
  <2>2. TurnFrom
    <3> DEFINE t == [Idle EXCEPT !.at = "ingest", !.resume = entry.processed]
    <3>1. t \in Turns
      BY <1>0, IdleParts DEF Turns, Places, Idle
    <3>2. t.mt = Idle.mt
      BY DEF Idle
    <3>3. "sync" \in Runs /\ At("sync", t)
      BY <1>5 DEF LoadProcessedPaths
    <3> HIDE DEF t
    <3> QED
      BY <1>0, <1>c, <3>1, <3>2, <3>3, AtFrom, IdleTurn
  <2> QED
    BY <1>0, <1>5, <2>1, <2>2, FilesStep, EntryKept DEF LoadProcessedPaths
<1>6. CASE Drop
  <2>1. index' \in [Files -> {Partial} \cup 0..MaxEdits]
    BY <1>6, FileSyncAssumption DEF Drop, NoVersions
  <2>2. WorldTyped' /\ DiskStep
    BY <1>6, <2>1, <1>a, <1>e DEF Drop
  <2> QED
    BY <1>0, <1>6, <2>2, FilesStep, EntryKept, TurnKept DEF Drop
<1>f. ASSUME NEW R \in SUBSET Runs, index' \in Torn(R)
      PROVE  index' \in [Files -> {Partial} \cup 0..MaxEdits]
  BY <1>0, <1>f, FileSyncAssumption DEF Torn, WorldTyped
<1>7. CASE Crash
  <2>1. WorldTyped' /\ DiskStep
    BY <1>7, <1>a, <1>e, <1>f DEF Crash
  <2>2. TurnFrom
    BY <1>7, <1>c, IdleTurn DEF Crash, TurnFrom
  <2> QED
    BY <1>0, <1>7, <2>1, <2>2, FilesStep, EntryKept DEF Crash
<1>8. ASSUME NEW r \in Runs, ReadState(r) PROVE FilesInv'
  <2>1. WorldTyped' /\ DiskStep
    BY <1>8, <1>b, <1>e DEF ReadState
  <2>2. TurnFrom
    <3> DEFINE t == [Idle EXCEPT !.at = "diff", !.mt = entry.mtimes]
    <3>1. t \in Turns
      BY <1>0, IdleParts DEF Turns, Places, Idle
    <3>2. t.mt = entry.mtimes
      BY DEF Idle
    <3>3. At(r, t)
      BY <1>8 DEF ReadState
    <3> HIDE DEF t
    <3> QED
      BY <1>0, <1>c, <3>1, <3>2, <3>3, AtFrom
  <2> QED
    BY <1>0, <1>8, <2>1, <2>2, FilesStep, EntryKept DEF ReadState
<1>9. ASSUME NEW r \in Runs, BeginApply(r) PROVE FilesInv'
  <2>1. WorldTyped' /\ DiskStep
    BY <1>9, <1>b, <1>e DEF BeginApply
  <2>2. TurnFrom
    <3> DEFINE t == [turn[r] EXCEPT !.at = "apply", !.done = entry.processed]
    <3>1. t \in Turns /\ t.mt = turn[r].mt
      BY <1>0, <1>d DEF Turns, Places
    <3> HIDE DEF t
    <3> QED
      BY <1>0, <1>9, <1>c, <3>1, AtFrom DEF BeginApply, t
  <2>3. EntryFrom
    <3>1. "IN_PROGRESS" \in Statuses
      BY DEF Statuses
    <3> QED
      BY <1>0, <1>9, <1>c, <1>d, <3>1, RecordFrom DEF BeginApply
  <2> QED
    BY <1>9, <2>1, <2>2, <2>3, FilesStep DEF BeginApply
<1>10. ASSUME NEW r \in Runs, BeginIngest(r) PROVE FilesInv'
  <2>1. WorldTyped' /\ DiskStep
    BY <1>10, <1>b, <1>e DEF BeginIngest
  <2>2. TurnFrom
    <3> DEFINE n == Eligible \ turn[r].resume
               t == [turn[r] EXCEPT !.at = "resume", !.new = n]
    <3>1. n \in SUBSET Files
      BY DEF Eligible
    <3>2. At(r, t)
      BY <1>10 DEF BeginIngest
    <3> HIDE DEF n
    <3>3. t \in Turns /\ t.mt = turn[r].mt
      BY <1>d, <3>1 DEF Turns, Places
    <3> HIDE DEF t
    <3> QED
      BY <1>0, <1>c, <3>2, <3>3, AtFrom
  <2>3. EntryFrom
    <3>1. "IN_PROGRESS" \in Statuses /\ turn[r].resume \in SUBSET Files
      BY <1>d DEF Statuses, Turns
    <3>2. \A f \in Files : From(f, NoVersions[f])
      BY <1>c DEF NoVersions
    <3> QED
      BY <1>0, <1>10, <3>1, <3>2, RecordFrom DEF BeginIngest
  <2> QED
    BY <1>10, <2>1, <2>2, <2>3, FilesStep DEF BeginIngest
<1>g. ASSUME NEW r \in Runs, turn[r].at \in {"apply", "resume"}
      PROVE  /\ Processed(turn[r]) \in SUBSET Files /\ Mtimes(turn[r]) \in Recorded
             /\ \A f \in Files : From(f, Mtimes(turn[r])[f])
  <2>1. Processed(turn[r]) \in SUBSET Files
    BY <1>d DEF Processed, Turns
  <2>2. CASE turn[r].at = "apply"
    BY <1>c, <1>d, <2>1, <2>2 DEF Mtimes
  <2>3. CASE turn[r].at = "resume"
    <3>1. Mtimes(turn[r]) = Stat(turn[r].resume \cup turn[r].done)
      BY <2>3 DEF Mtimes
    <3>2. Mtimes(turn[r]) \in Recorded
      BY <1>0, <3>1, FileSyncAssumption DEF Stat, WorldTyped, Recorded
    <3>3. ASSUME NEW f \in Files PROVE From(f, Mtimes(turn[r])[f])
      <4>1. CASE f \in turn[r].resume \cup turn[r].done
        BY <2>3, <3>1, <4>1 DEF Stat, From, Committed
      <4>2. CASE f \notin turn[r].resume \cup turn[r].done
        BY <1>c, <3>1, <4>2 DEF Stat
      <4> QED
        BY <4>1, <4>2
    <3> QED
      BY <2>1, <3>2, <3>3
  <2> QED
    BY <1>g, <2>2, <2>3
<1>11. ASSUME NEW r \in Runs, Finish(r) PROVE FilesInv'
  <2>1. WorldTyped' /\ DiskStep
    BY <1>11, <1>b, <1>e DEF Finish, Release
  <2>2. TurnFrom
    BY <1>0, <1>11, <1>c, AtFrom, IdleTurn DEF Finish, Release
  <2>3. EntryFrom
    <3>1. "DONE" \in Statuses
      BY DEF Statuses
    <3> QED
      BY <1>0, <1>11, <1>g, <3>1, RecordFrom DEF Finish
  <2> QED
    BY <1>11, <2>1, <2>2, <2>3, FilesStep DEF Finish
<1>12. ASSUME NEW r \in Runs, Fails(r) PROVE FilesInv'
  <2>1. WorldTyped' /\ DiskStep
    BY <1>12, <1>a, <1>e, <1>f DEF Fails, Release
  <2>2. TurnFrom
    BY <1>0, <1>12, <1>c, AtFrom, IdleTurn DEF Fails, Release
  <2>3. EntryFrom
    <3>1. "FAILED" \in Statuses
      BY DEF Statuses
    <3> QED
      BY <1>12, <1>g, <3>1 DEF Fails, EntryFrom, Entries
  <2> QED
    BY <1>12, <2>1, <2>2, <2>3, FilesStep DEF Fails
<1>13. ASSUME NEW r \in Runs, Cancelled(r) PROVE FilesInv'
  <2>1. WorldTyped' /\ DiskStep
    BY <1>13, <1>a, <1>e, <1>f DEF Cancelled
  <2>2. TurnFrom
    BY <1>0, <1>13, <1>c, AtFrom, IdleTurn DEF Cancelled
  <2> QED
    BY <1>0, <1>13, <2>1, <2>2, FilesStep, EntryKept DEF Cancelled
<1>14. ASSUME NEW r \in Runs, NEW force \in BOOLEAN, CheckChanges(r, force) PROVE FilesInv'
  <2>1. WorldTyped' /\ DiskStep
    BY <1>14, <1>b, <1>e DEF CheckChanges
  <2>2. TurnFrom
    <3> DEFINE c == Changes(turn[r].mt, force)
               t == [turn[r] EXCEPT !.at = "changes", !.del = c.del, !.chg = c.chg, !.new = c.new]
    <3>1. c.del \in SUBSET Files /\ c.chg \in SUBSET Files /\ c.new \in SUBSET Files
      BY DEF Changes, Eligible
    <3>2. t \in Turns /\ t.mt = turn[r].mt
      <4> HIDE DEF c
      <4> QED
        BY <1>d, <3>1 DEF Turns, Places
    <3>3. At(r, Idle) \/ At(r, t)
      BY <1>14 DEF CheckChanges
    <3> HIDE DEF t
    <3> QED
      BY <1>0, <1>c, <3>2, <3>3, AtFrom, IdleTurn
  <2> QED
    BY <1>0, <1>14, <2>1, <2>2, FilesStep, EntryKept DEF CheckChanges
<1>h. ASSUME NEW t \in Turns, \A f \in Files : From(f, t.mt[f]), Checkpoint(t)
      PROVE  EntryFrom
  <2>1. /\ "IN_PROGRESS" \in Statuses /\ t.done \in SUBSET Files /\ t.resume \cup t.done \in SUBSET Files
        /\ t.mt \in Recorded
    BY DEF Statuses, Turns
  <2>2. \A f \in Files : From(f, NoVersions[f])
    BY <1>c DEF NoVersions
  <2>3. CASE entry' = entry
    BY <1>0, <2>3, EntryKept
  <2>4. CASE Record("IN_PROGRESS", t.done, t.mt)
    BY <1>0, <1>h, <2>1, <2>4, RecordFrom
  <2>5. CASE Record("IN_PROGRESS", t.resume \cup t.done, NoVersions)
    BY <1>0, <2>1, <2>2, <2>5, RecordFrom
  <2> QED
    BY <1>h, <2>3, <2>4, <2>5 DEF Checkpoint
<1>15. ASSUME NEW r \in Runs, NEW f \in Files, DeleteFile(r, f) PROVE FilesInv'
  <2>1. index' \in [Files -> {Partial} \cup 0..MaxEdits]
    BY <1>0, <1>15, FileSyncAssumption DEF DeleteFile, WorldTyped
  <2>2. WorldTyped' /\ DiskStep
    BY <1>15, <2>1, <1>a, <1>e DEF DeleteFile
  <2> DEFINE t == Deleted(turn[r], f)
  <2>3. t \in Turns
    <3> DEFINE m == [turn[r].mt EXCEPT ![f] = 0]
    <3>1. m \in Recorded
      BY <1>d, FileSyncAssumption DEF Recorded
    <3>2. t = [turn[r] EXCEPT !.del = @ \ {f}, !.mt = m, !.done = @ \ {f}]
      BY <1>d DEF Deleted, Turns
    <3> HIDE DEF m, t
    <3> QED
      BY <1>d, <3>1, <3>2 DEF Turns
  <2>4. \A g \in Files : t.mt[g] = IF g = f THEN 0 ELSE turn[r].mt[g]
    BY <1>d DEF Deleted, Turns, Recorded
  <2>5. At(r, t) /\ Checkpoint(t)
    BY <1>15 DEF DeleteFile
  <2> HIDE DEF t
  <2>6. \A g \in Files : From(g, t.mt[g])
    BY <1>c, <2>4
  <2>7. TurnFrom /\ EntryFrom
    BY <1>0, <1>h, <2>3, <2>5, <2>6, AtFrom
  <2> QED
    BY <1>15, <2>2, <2>7, FilesStep DEF DeleteFile
<1>16. ASSUME NEW r \in Runs, NEW f \in Files, BeginFile(r, f) PROVE FilesInv'
  <2>1. WorldTyped' /\ DiskStep
    BY <1>16, <1>b, <1>e DEF BeginFile
  <2>2. TurnFrom
    <3> DEFINE t == [turn[r] EXCEPT !.cur = [name |-> f, ver |-> disk[f]]]
    <3>1. t \in Turns /\ t.mt = turn[r].mt
      BY <1>0, <1>d DEF Turns, WorldTyped, Recorded
    <3> HIDE DEF t
    <3> QED
      BY <1>0, <1>16, <1>c, <3>1, AtFrom DEF BeginFile, t
  <2> QED
    BY <1>0, <1>16, <2>1, <2>2, FilesStep, EntryKept DEF BeginFile
<1>17. ASSUME NEW r \in Runs, NEW f \in Files, FileIngested(r, f) PROVE FilesInv'
  <2>0. turn[r].cur.ver \in 0..MaxEdits
    BY <1>d DEF Turns
  <2>1. /\ index' \in [Files -> {Partial} \cup 0..MaxEdits]
        /\ f \notin blank => index'[f] = turn[r].cur.ver
    BY <1>0, <1>17, <2>0 DEF FileIngested, WorldTyped
  <2>2. WorldTyped' /\ DiskStep
    BY <1>0, <1>17, <2>1, <1>a, <1>e DEF FileIngested
  <2> DEFINE t == Ingested(turn[r], f)
  <2>3. t \in Turns
    <3>1. disk[f] \in 0..MaxEdits /\ NoFile \in [name : Files \cup {"none"}, ver : 0..MaxEdits]
      BY <1>0, FileSyncAssumption DEF WorldTyped, Recorded, NoFile
    <3> QED
      <4> DEFINE m == [turn[r].mt EXCEPT ![f] = IF turn[r].at = "apply" /\ disk[f] # 0 THEN disk[f] ELSE @]
      <4>1. m \in Recorded
        BY <1>d, <3>1 DEF Recorded
      <4>2. t = [turn[r] EXCEPT !.chg = @ \ {f}, !.new = @ \ {f}, !.cur = NoFile, !.done = @ \cup {f}, !.mt = m]
        BY <1>d DEF Ingested, Turns
      <4> HIDE DEF m, t
      <4> QED
        BY <1>d, <3>1, <4>1, <4>2 DEF Turns
  <2>4. \A g \in Files : t.mt[g] = turn[r].mt[g] \/ (g = f /\ t.mt[g] = disk[f])
    BY <1>d DEF Ingested, Turns, Recorded
  <2>5. At(r, t) /\ Checkpoint(t)
    BY <1>17 DEF FileIngested
  <2> HIDE DEF t
  <2>6. SoundNext(f, disk[f])
    <3>1. disk'[f] = disk[f] /\ blank' = blank /\ disk[f] <= edits' /\ History /\ turn[r].cur.name = f
      BY <1>0, <1>17 DEF FileIngested, WorldTyped
    <3>2. CASE f \in blank \/ index'[f] = disk[f]
      BY <3>1, <3>2 DEF SoundNext
    <3>3. CASE f \notin blank /\ index'[f] # disk[f]
      <4>1. Committed(f)
        BY <2>1, <3>1, <3>3 DEF Committed
      <4>2. f \in doomed \/ index[f] = disk[f]
        BY <4>1 DEF FilesInv, DoomedKnown, Stale
      <4>3. f \in doomed'
        BY <3>1, <3>3, <4>2 DEF History, Stale, Damaged
      <4> QED
        BY <3>1, <4>3 DEF SoundNext
    <3> QED
      BY <3>2, <3>3
  <2>7. \A g \in Files : From(g, t.mt[g])
    BY <1>c, <2>4, <2>6 DEF From
  <2>8. TurnFrom /\ EntryFrom
    BY <1>0, <1>h, <2>3, <2>5, <2>7, AtFrom
  <2> QED
    BY <1>17, <2>2, <2>8, FilesStep DEF FileIngested
<1>18. ASSUME NEW r \in Runs, NEW f \in Files, FileFails(r, f) PROVE FilesInv'
  <2>1. index' \in [Files -> {Partial} \cup 0..MaxEdits]
    BY <1>0, <1>18, FileSyncAssumption DEF FileFails, WorldTyped
  <2>2. WorldTyped' /\ DiskStep
    BY <1>18, <2>1, <1>a, <1>e DEF FileFails
  <2>3. TurnFrom
    <3> DEFINE t == Skipped(turn[r], f)
    <3>1. t \in Turns /\ t.mt = turn[r].mt
      <4>1. NoFile \in [name : Files \cup {"none"}, ver : 0..MaxEdits]
        BY FileSyncAssumption DEF NoFile
      <4> QED
        BY <1>d, <4>1 DEF Skipped, Turns
    <3> HIDE DEF t
    <3> QED
      BY <1>0, <1>18, <1>c, <3>1, AtFrom DEF FileFails, t
  <2> QED
    BY <1>0, <1>18, <2>2, <2>3, FilesStep, EntryKept DEF FileFails
<1> QED
  BY <1>1, <1>2, <1>3, <1>4, <1>5, <1>6, <1>7, <1>8, <1>9, <1>10, <1>11, <1>12, <1>13, <1>14, <1>15,
     <1>16, <1>17, <1>18 DEF SyncNext

LEMMA FilesInit == SyncInit => FilesInv
<1> SUFFICES ASSUME SyncInit PROVE FilesInv
  OBVIOUS
<1>1. WorldTyped
  <2>1. disk \in Recorded /\ \A f \in Files : disk[f] \in {0, 1}
    BY FileSyncAssumption DEF SyncInit, Recorded
  <2>2. index \in [Files -> {Partial} \cup 0..MaxEdits]
    BY FileSyncAssumption DEF SyncInit, NoVersions
  <2>3. edits = 1 /\ edits \in 1..MaxEdits
    BY FileSyncAssumption DEF SyncInit
  <2>4. \A f \in Files : disk[f] <= edits
    BY <2>1, <2>3
  <2> QED
    BY <2>1, <2>2, <2>3, <2>4 DEF SyncInit, WorldTyped
<1>2. entry \in Entries /\ \A f \in Files : entry.mtimes[f] = 0
  BY FileSyncAssumption DEF SyncInit, Entries, NoEntry, NoVersions, Recorded, Statuses
<1>3. turn \in [Runs -> Turns] /\ \A r \in Runs, f \in Files : turn[r].mt[f] = 0
  BY IdleTurn DEF SyncInit
<1>4. \A f \in Files : Sound(f, 0)
  BY DEF SyncInit, Sound
<1>5. DoomedKnown
  <2>1. entry.processed = {}
    BY DEF SyncInit, NoEntry
  <2>2. \A r \in Runs : turn[r].at = "idle" /\ turn[r].cur = NoFile
    BY DEF SyncInit, Idle
  <2> QED
    BY <2>1, <2>2, FileSyncAssumption DEF DoomedKnown, Committed, NoFile
<1> QED
  BY <1>1, <1>2, <1>3, <1>4, <1>5 DEF FilesInv

LEMMA FilesStill ==
  ASSUME FilesInv, UNCHANGED syncVars
  PROVE  FilesInv'
  BY DEF FilesInv, syncVars, WorldTyped, DoomedKnown, Sound, Stale, Committed

\* A sync or a watcher run records no file as current whose chunks are of another version
\* (_ingest_collection, _apply_collection_changes, sync_collection), whatever files, state writes,
\* runs and the process fail at, for every number of files, edits and faults: the files that a
\* resume takes for current and those without text are the only exceptions.
THEOREM FilesAreRecorded == DocumentsSpec => []FilesRecorded
<1>1. DocumentsInit => FilesInv
  <2>1. FilesRest => SyncInit
    BY DEF FilesRest, SyncInit, NoVersions
  <2> QED
    BY <2>1, FilesInit DEF DocumentsInit
<1>2. FilesInv /\ [DocumentsNext]_allVars => FilesInv'
  BY FilesNext, FilesStill DEF DocumentsNext, allVars
<1>3. FilesInv => FilesRecorded
  <2> SUFFICES ASSUME FilesInv PROVE FilesRecorded
    OBVIOUS
  <2>1. SyncTypeOK
    BY DEF FilesInv, WorldTyped, Entries, Turns, Places, Recorded, SyncTypeOK
  <2>2. RecordedIsIndexed
    BY DEF FilesInv, Sound, RecordedIsIndexed, Stale
  <2> QED
    BY <2>1, <2>2 DEF FilesRecorded
<1> QED
  BY <1>1, <1>2, <1>3, PTL DEF DocumentsSpec

-----------------------------------------------------------------------------
(***************************************************************************)
(* EntityGraph.  A writer's step touches its own document only: the rows   *)
(* that are its own and, under the lock, the prose rows that all share.    *)
(***************************************************************************)
Ents == Graph!Entities
Rels == Graph!Edges
Mod(d) == <<"module", d>>
\* Where a writer has written no graph row yet.
Unwritten == {"none", "drop", "add", "lock"}
DocContents == [prose : SUBSET Graph!Prose, refs : BOOLEAN]
HandPlaces == {"none", "drop", "add", "lock", "nodes", "edges", "mentions", "mention", "extract", "cutEdges", "cutNodes",
               "cutProse", "defNodes", "defEdges"}
HandRow == [at : HandPlaces, doc : Docs \cup {0}, content : DocContents, removal : BOOLEAN, degraded : BOOLEAN,
            newNodes : SUBSET Ents, newEdges : SUBSET Rels, cut : SUBSET Ents]
SweepRow == [at : {"none", "prune", "nodes", "edges", "deleteEdges", "deleteNodes"}, chunks : SUBSET Docs,
             mentioned : SUBSET (Ents \X Docs), nodes : SUBSET Ents, orphans : SUBSET Ents, cut : SUBSET Rels]
GraphTyped ==
  /\ live \in [Docs -> DocContents] /\ hand \in [GraphWriters -> HandRow] /\ sweep \in SweepRow
  /\ mentions \subseteq Ents \X Docs /\ nodes \in [Ents -> Docs \cup {0}] /\ edges \in [Rels -> Docs \cup {0}]
  /\ graphLock \in {"free", "gc"} \cup GraphWriters
  /\ touched \subseteq Docs /\ met \in BOOLEAN /\ swept \in BOOLEAN

\* A row that is not prose is written by the document that it is about; a mention is of prose or of one's own symbol.
RowsOwn ==
  /\ \A n \in Ents \ Graph!Prose : nodes[n] \in {0, n[2]}
  /\ \A e \in Graph!DefRef : edges[e] \in {0, e[1][2]}
  /\ \A m \in mentions : m[1] \in Graph!Prose \/ (m[2] \in CodeDocs /\ m[1] = Graph!Symbol(m[2]))
\* What chunks mention has its node, if it is prose.
ProseHeld == \A m \in mentions : m[1] \in Graph!Prose => nodes[m[1]] # 0
\* Two writers of a document have touched it.
OneWriter == \A v, w \in GraphWriters : (v # w /\ hand[v].doc = hand[w].doc /\ hand[v].doc # 0) => hand[v].doc \in touched

Locked == {"nodes", "edges", "mentions", "mention", "cutEdges", "cutNodes", "cutProse"}
Passing == {"extract", "cutEdges", "cutNodes", "defNodes", "defEdges"}
DefPass(w) == ~hand[w].removal /\ graphLock # w /\ hand[w].at \in Passing
ProseOf(h) == IF h.degraded THEN {} ELSE h.content.prose
\* What a writer holds, wherever it is: the lock for its prose write, and rows of its own document.
HandFit(w) ==
  /\ hand[w].at = "none" <=> hand[w].doc = 0
  /\ graphLock = w => ~hand[w].removal /\ hand[w].at \in Locked
  /\ (~hand[w].removal /\ hand[w].at \in Locked \ {"cutEdges", "cutNodes"}) => graphLock = w
  /\ hand[w].removal => hand[w].at \in {"drop", "mentions", "cutEdges", "cutNodes", "cutProse"}
  /\ (hand[w].at # "none" /\ ~hand[w].removal) => hand[w].content # Graph!Absent
  /\ DefPass(w) => hand[w].doc \in CodeDocs
  /\ \A n \in hand[w].newNodes \cup hand[w].cut : n \notin Graph!Prose /\ n[2] = hand[w].doc
  /\ \A e \in hand[w].newEdges : e \in Graph!DefRef /\ e[1][2] = hand[w].doc
  /\ (hand[w].at \in {"edges", "mentions", "mention"} /\ ~hand[w].removal) => \A n \in ProseOf(hand[w]) : nodes[n] # 0

FileEdges(d, c) == {Graph!Defines(d)} \cup IF c.refs THEN {Graph!ImportEdge(d)} ELSE {}
\* How far the rows of an untouched document are, while its writer is at work.
Phase(w, d) ==
  /\ (~hand[w].removal /\ hand[w].at \notin {"drop", "add"}) => live[d] = hand[w].content
  /\ (hand[w].removal /\ hand[w].at # "drop") => live[d] = Graph!Absent
  /\ (hand[w].at \in {"edges", "mentions", "mention"} /\ ~hand[w].removal /\ d \in CodeDocs) => nodes[Graph!Symbol(d)] # 0
  /\ hand[w].at = "mention" => Graph!MentionedBy(d) = {}
  /\ (hand[w].removal /\ hand[w].at \notin {"drop", "mentions"}) => Graph!MentionedBy(d) = {}
  /\ DefPass(w) => /\ Graph!MentionedBy(d) = Graph!ProseNodes(d, hand[w].content, hand[w].degraded)
                   /\ nodes[Graph!Symbol(d)] # 0
  /\ (DefPass(w) /\ hand[w].at # "extract") => /\ hand[w].newNodes = Graph!DefNodes(d, hand[w].content, TRUE)
                                               /\ FileEdges(d, hand[w].content) \subseteq hand[w].newEdges
  /\ (DefPass(w) /\ hand[w].at = "cutNodes") => Graph!Symbol(d) \notin hand[w].cut
  /\ (hand[w].at = "defEdges" /\ ~met) => \A n \in hand[w].newNodes : nodes[n] # 0
PhaseFit(w) == (hand[w].doc # 0 /\ hand[w].doc \notin touched) => Phase(w, hand[w].doc)

\* The rows of a document that nobody is at.
DocSettled(d) ==
  /\ live[d] = Graph!Absent => Graph!MentionedBy(d) = {}
  /\ live[d] # Graph!Absent => \E g \in BOOLEAN : Graph!MentionedBy(d) = Graph!ProseNodes(d, live[d], g)
  /\ (live[d] # Graph!Absent /\ d \in CodeDocs) => nodes[Graph!Symbol(d)] # 0
  /\ (live[d] # Graph!Absent /\ d \in CodeDocs /\ ~met) => /\ \A n \in Graph!DefNodes(d, live[d], TRUE) : nodes[n] # 0
                                                          /\ \A e \in FileEdges(d, live[d]) : edges[e] # 0
SettledFit(d) == Graph!Settled(d) => DocSettled(d)

\* What the garbage collection read is still so, but for what unlocked writes crossed.
SweepReads ==
  /\ graphLock = "gc" /\ sweep.chunks = Graph!Present
  /\ ~met => \A w \in GraphWriters : hand[w].at \in Unwritten
  /\ sweep.at # "prune" => /\ mentions \subseteq sweep.mentioned /\ \A m \in sweep.mentioned : m[2] \in sweep.chunks
                           /\ ~met => sweep.mentioned = mentions
  /\ sweep.at \notin {"prune", "nodes"} => \A n \in Graph!Prose : nodes[n] # 0 => n \in sweep.nodes
  /\ sweep.at \in {"deleteEdges", "deleteNodes"} =>
       /\ \A n \in sweep.orphans : n \notin Graph!Modules /\ \A m \in sweep.mentioned : m[1] # n
       /\ \A n \in Graph!Prose \cap sweep.nodes : n \in sweep.orphans \/ \E m \in sweep.mentioned : m[1] = n
       /\ sweep.cut \cap Graph!DefRef = {}
       /\ ~met => \A e \in Graph!DefRef : edges[e] # 0 => e[1] \notin sweep.orphans /\ e[2] \notin sweep.orphans
  /\ ((sweep.at = "deleteNodes" \/ (sweep.at = "deleteEdges" /\ Graph!Related \notin sweep.cut)) /\ edges[Graph!Related] # 0) =>
       /\ Graph!Prose \cap sweep.orphans = {}
       /\ \E d \in sweep.chunks : \A n \in Graph!Prose : <<n, d>> \in sweep.mentioned
SweepFit == sweep.at # "none" => SweepReads
SweptFit == (swept => graphLock \notin GraphWriters) /\ Graph!GcComplete

RowsFit == RowsOwn /\ ProseHeld /\ Graph!RelatedHasEnds
GraphInv ==
  /\ GraphTyped /\ RowsFit /\ OneWriter /\ SweepFit /\ SweptFit
  /\ \A w \in GraphWriters : HandFit(w) /\ PhaseFit(w)
  /\ \A d \in Docs : SettledFit(d)

LEMMA EntityFacts ==
  /\ Graph!Prose \subseteq Ents /\ Graph!Modules \subseteq Ents \ Graph!Prose
  /\ \A d \in CodeDocs : /\ Graph!Symbol(d) \in Ents \ Graph!Prose /\ Mod(d) \in Graph!Modules /\ Graph!Import(d) \in Ents \ Graph!Prose
                         /\ Graph!Symbol(d)[2] = d /\ Mod(d)[2] = d /\ Graph!Import(d)[2] = d
                         /\ Graph!Symbol(d) \notin Graph!Modules /\ Graph!Import(d) \notin Graph!Modules
  /\ \A n \in Ents \ Graph!Prose : n[2] \in CodeDocs
  BY DEF Ents, Mod, Graph!Entities, Graph!Prose, Graph!Modules, Graph!Symbol, Graph!Import

LEMMA EdgeFacts ==
  /\ Graph!Related \in Rels /\ Graph!Related \notin Graph!DefRef /\ Graph!Prose = {Graph!Related[1], Graph!Related[2]}
  /\ Graph!DefRef \subseteq Rels /\ Rels = {Graph!Related} \cup Graph!DefRef
  /\ \A e \in Graph!DefRef : /\ e[1] \in Ents \ Graph!Prose /\ e[2] \in Ents \ Graph!Prose
                             /\ e[1][2] \in CodeDocs /\ e[2][2] \in CodeDocs
  /\ \A d \in CodeDocs : /\ Graph!Defines(d) \in Graph!DefRef /\ Graph!ImportEdge(d) \in Graph!DefRef
                         /\ Graph!Defines(d)[1] = Mod(d) /\ Graph!Defines(d)[2] = Graph!Symbol(d)
                         /\ Graph!ImportEdge(d)[1] = Mod(d) /\ Graph!ImportEdge(d)[2] = Graph!Import(d)
<1>1. \A d \in CodeDocs : /\ Graph!Defines(d) \in Graph!DefRef /\ Graph!ImportEdge(d) \in Graph!DefRef
                          /\ Graph!Defines(d)[1] = Mod(d) /\ Graph!Defines(d)[2] = Graph!Symbol(d)
                          /\ Graph!ImportEdge(d)[1] = Mod(d) /\ Graph!ImportEdge(d)[2] = Graph!Import(d)
  BY DEF Graph!Defines, Graph!ImportEdge, Graph!DefRef, Mod
<1>2. ASSUME NEW e \in Graph!DefRef
      PROVE  e[1] \in Ents \ Graph!Prose /\ e[2] \in Ents \ Graph!Prose
  <2>1. CASE \E d \in CodeDocs : e = Graph!Defines(d) \/ e = Graph!ImportEdge(d)
    BY <2>1, <1>1, EntityFacts
  <2>2. CASE \E d, f \in CodeDocs : e = Graph!Calls(d, f)
    <3>1. PICK d \in CodeDocs, f \in CodeDocs : e = Graph!Calls(d, f)
      BY <2>2
    <3>2. e[1] = Graph!Symbol(d) /\ e[2] = Graph!Symbol(f)
      BY <3>1 DEF Graph!Calls
    <3> QED
      BY <3>2, EntityFacts
  <2> QED
    BY <2>1, <2>2 DEF Graph!DefRef, Graph!Inferred
<1>3. Graph!Related[1] = <<"a", 0>> /\ Graph!Related[2] = <<"b", 0>>
  BY DEF Graph!Related
<1>4. Graph!Prose = {Graph!Related[1], Graph!Related[2]}
  BY <1>3 DEF Graph!Prose
<1>5. Graph!Related \notin Graph!DefRef
  BY <1>2, <1>4
<1>6. Rels = {Graph!Related} \cup Graph!DefRef
  BY DEF Rels, Graph!Edges
<1> QED
  BY <1>1, <1>2, <1>4, <1>5, <1>6, EntityFacts

LEMMA HandRows ==
  ASSUME NEW h \in HandRow
  PROVE  /\ h.at \in HandPlaces /\ h.doc \in Docs \cup {0} /\ h.content \in DocContents /\ h.removal \in BOOLEAN /\ h.degraded \in BOOLEAN
         /\ h.newNodes \subseteq Ents /\ h.newEdges \subseteq Rels /\ h.cut \subseteq Ents
  BY DEF HandRow

LEMMA OffRow ==
  /\ Graph!Off \in HandRow /\ Graph!Off.at = "none" /\ Graph!Off.doc = 0 /\ ~Graph!Off.removal /\ Graph!Off.newNodes = {}
  /\ Graph!Off.newEdges = {} /\ Graph!Off.cut = {} /\ Graph!None = 0
  /\ Graph!Absent \in DocContents /\ ~Graph!Absent.refs /\ Graph!Absent.prose = {}
  BY DEF Graph!Off, Graph!None, Graph!Absent, HandRow, HandPlaces, DocContents

\* What every step of writer w leaves alone.
Framed(w) ==
  /\ hand[w].doc \in Docs /\ hand'[w].doc \in {hand[w].doc, 0}
  /\ \A v \in GraphWriters \ {w} : hand'[v] = hand[v] /\ (graphLock' = v <=> graphLock = v)
  /\ \A d \in Docs \ {hand[w].doc} : live'[d] = live[d] /\ Graph!MentionedBy(d)' = Graph!MentionedBy(d)
  /\ \A n \in Ents \ Graph!Prose : n[2] # hand[w].doc => nodes'[n] = nodes[n]
  /\ \A n \in Graph!Prose : nodes[n] # 0 => nodes'[n] # 0
  /\ \A e \in Graph!DefRef : (e[1][2] # hand[w].doc /\ e[2][2] # hand[w].doc) => edges'[e] = edges[e]
  /\ touched \subseteq touched' /\ (met => met') /\ sweep' = sweep
  /\ sweep.at # "none" => /\ met' /\ live' = live /\ graphLock' = graphLock /\ mentions' \subseteq mentions
                          /\ \A n \in Graph!Prose : nodes'[n] = nodes[n]
                          /\ edges'[Graph!Related] \in {0, edges[Graph!Related]}
  /\ swept' => swept /\ UNCHANGED <<live, mentions, nodes, edges>> /\ graphLock' \in {graphLock, "free"}

LEMMA DefNodesOwn ==
  ASSUME NEW d \in CodeDocs, NEW c \in DocContents
  PROVE  /\ \A n \in Graph!DefNodes(d, c, TRUE) : n \in Ents \ Graph!Prose /\ n[2] = d
         /\ \A e \in FileEdges(d, c) : e \in Graph!DefRef /\ e[1][2] = d /\ e[2][2] = d
         /\ Mod(d) \in Graph!DefNodes(d, c, TRUE) /\ Graph!Symbol(d) \in Graph!DefNodes(d, c, TRUE)
<1>1. Graph!DefNodes(d, c, TRUE) = {Mod(d), Graph!Symbol(d)} \cup IF c.refs THEN {Graph!Import(d)} ELSE {}
  BY DEF Graph!DefNodes, Mod
<1>2. \A n \in {Mod(d), Graph!Symbol(d), Graph!Import(d)} : n \in Ents \ Graph!Prose /\ n[2] = d
  BY EntityFacts
<1>3. \A e \in {Graph!Defines(d), Graph!ImportEdge(d)} : e \in Graph!DefRef /\ e[1][2] = d /\ e[2][2] = d
  BY EntityFacts, EdgeFacts
<1> QED
  BY <1>1, <1>2, <1>3 DEF FileEdges

LEMMA FramePhases ==
  ASSUME GraphInv, NEW w \in GraphWriters, Framed(w), NEW v \in GraphWriters \ {w}
  PROVE  HandFit(v)' /\ PhaseFit(v)'
<1>0. hand'[v] = hand[v] /\ (graphLock' = v <=> graphLock = v) /\ HandFit(v) /\ PhaseFit(v) /\ hand[v] \in HandRow
  BY DEF Framed, GraphInv, GraphTyped
<1>1. DefPass(v)' <=> DefPass(v)
  BY <1>0 DEF DefPass
<1>2. ProseOf(hand[v]) \subseteq Graph!Prose
  BY <1>0, HandRows DEF ProseOf, DocContents
<1>3. (hand[v].at \in {"edges", "mentions", "mention"} /\ ~hand[v].removal) => \A n \in ProseOf(hand[v]) : nodes'[n] # 0
  BY <1>0, <1>2 DEF HandFit, Framed
<1>4. HandFit(v)'
  <2>1. ProseOf(hand[v])' = ProseOf(hand[v])
    BY <1>0 DEF ProseOf
  <2> QED
    BY <1>0, <1>1, <1>3, <2>1 DEF HandFit
<1>5. PhaseFit(v)'
  <2> SUFFICES ASSUME NEW d, d = hand[v].doc, d # 0, d \notin touched' PROVE Phase(v, d)'
    BY <1>0 DEF PhaseFit
  <2>1. d \notin touched /\ d # hand[w].doc /\ d \in Docs
    BY <1>0, HandRows DEF Framed, GraphInv, OneWriter
  <2>2. Phase(v, d)
    BY <1>0, <2>1 DEF PhaseFit
  <2>3. live'[d] = live[d] /\ Graph!MentionedBy(d)' = Graph!MentionedBy(d) /\ (met => met')
    BY <2>1 DEF Framed
  <2>4. d \in CodeDocs => nodes'[Graph!Symbol(d)] = nodes[Graph!Symbol(d)]
    BY <2>1, EntityFacts DEF Framed
  <2>5. \A n \in hand[v].newNodes : nodes'[n] = nodes[n]
    BY <1>0, <2>1, HandRows DEF HandFit, Framed
  <2>6. DefPass(v) => d \in CodeDocs
    BY <1>0 DEF HandFit
  <2>7. Graph!ProseNodes(d, hand[v].content, hand[v].degraded)' = Graph!ProseNodes(d, hand[v].content, hand[v].degraded)
    BY <1>0 DEF Graph!ProseNodes
  <2>8. /\ Graph!DefNodes(d, hand[v].content, TRUE)' = Graph!DefNodes(d, hand[v].content, TRUE)
        /\ FileEdges(d, hand[v].content)' = FileEdges(d, hand[v].content)
    BY <1>0 DEF Graph!DefNodes, FileEdges
  <2> QED
    BY <1>0, <1>1, <2>2, <2>3, <2>4, <2>5, <2>6, <2>7, <2>8 DEF Phase
<1> QED
  BY <1>4, <1>5

LEMMA FrameSettled ==
  ASSUME GraphInv, NEW w \in GraphWriters, Framed(w), NEW d \in Docs \ {hand[w].doc}
  PROVE  SettledFit(d)'
<1> SUFFICES ASSUME Graph!Settled(d)' PROVE DocSettled(d)'
  BY DEF SettledFit
<1>1. Graph!Settled(d)
  BY DEF Graph!Settled, Framed
<1>2. DocSettled(d)
  BY <1>1 DEF GraphInv, SettledFit
<1>3. live'[d] = live[d] /\ Graph!MentionedBy(d)' = Graph!MentionedBy(d) /\ (met => met') /\ live[d] \in DocContents
  BY DEF Framed, GraphInv, GraphTyped
<1>4. d \in CodeDocs => nodes'[Graph!Symbol(d)] = nodes[Graph!Symbol(d)]
  BY EntityFacts DEF Framed
<1>5. d \in CodeDocs => /\ \A n \in Graph!DefNodes(d, live[d], TRUE) : nodes'[n] = nodes[n]
                        /\ \A e \in FileEdges(d, live[d]) : edges'[e] = edges[e]
  <2> SUFFICES ASSUME d \in CodeDocs
               PROVE  /\ \A n \in Graph!DefNodes(d, live[d], TRUE) : nodes'[n] = nodes[n]
                      /\ \A e \in FileEdges(d, live[d]) : edges'[e] = edges[e]
    OBVIOUS
  <2>1. \A n \in Graph!DefNodes(d, live[d], TRUE) : n \in Ents \ Graph!Prose /\ n[2] = d
    BY <1>3, DefNodesOwn
  <2>2. \A e \in FileEdges(d, live[d]) : e \in Graph!DefRef /\ e[1][2] = d /\ e[2][2] = d
    BY <1>3, DefNodesOwn
  <2> QED
    BY <2>1, <2>2 DEF Framed
<1> QED
  BY <1>2, <1>3, <1>4, <1>5 DEF DocSettled, Graph!ProseNodes, Graph!DefNodes, FileEdges

LEMMA FrameRest ==
  ASSUME GraphInv, NEW w \in GraphWriters, Framed(w)
  PROVE  OneWriter' /\ SweepFit' /\ SweptFit'
<1>1. OneWriter'
  BY DEF GraphInv, OneWriter, Framed
<1>2. SweepFit'
  <2> SUFFICES ASSUME sweep.at # "none" PROVE SweepReads'
    BY DEF SweepFit, Framed
  <2>1. SweepReads
    BY DEF GraphInv, SweepFit
  <2>2. /\ met' /\ live' = live /\ graphLock' = graphLock /\ mentions' \subseteq mentions /\ sweep' = sweep
        /\ \A n \in Graph!Prose : nodes'[n] = nodes[n]
        /\ edges'[Graph!Related] \in {0, edges[Graph!Related]}
    BY DEF Framed
  <2>3. Graph!Present' = Graph!Present
    BY <2>2 DEF Graph!Present
  <2> QED
    BY <2>1, <2>2, <2>3 DEF SweepReads
<1>3. SweptFit'
  <2>1. CASE ~swept'
    BY <2>1 DEF SweptFit, Graph!GcComplete
  <2>2. CASE swept'
    <3>1. swept /\ UNCHANGED <<live, mentions, nodes, edges>> /\ graphLock' \in {graphLock, "free"} /\ SweptFit
      BY <2>2 DEF Framed, GraphInv
    <3>2. graphLock' \notin GraphWriters
      BY <3>1, GraphFits DEF SweptFit
    <3>3. Graph!GcComplete'
      BY <3>1 DEF SweptFit, Graph!GcComplete, Graph!Present, Graph!MentionedBy
    <3> QED
      BY <3>2, <3>3 DEF SweptFit
  <2> QED
    BY <2>1, <2>2
<1> QED
  BY <1>1, <1>2, <1>3

\* What is left to show of a writer's step.
LEMMA FrameHolds ==
  ASSUME GraphInv, NEW w \in GraphWriters, Framed(w), GraphTyped', RowsFit', HandFit(w)', NEW d, d = hand[w].doc,
         (hand'[w].doc = d /\ d \notin touched') => Phase(w, d)',
         (hand'[w].doc = 0 /\ d \notin touched') => DocSettled(d)'
  PROVE  GraphInv'
<1>1. \A v \in GraphWriters : HandFit(v)'
  BY FramePhases
<1>0. d \in Docs /\ hand'[w].doc \in {d, 0}
  BY DEF Framed
<1>2. \A v \in GraphWriters : PhaseFit(v)'
  <2>1. PhaseFit(w)'
    <3>1. CASE hand'[w].doc = 0
      BY <3>1 DEF PhaseFit
    <3>2. CASE hand'[w].doc = d
      <4>1. d \notin touched' => Phase(w, d)'
        BY <3>2
      <4> QED
        BY <3>2, <4>1 DEF PhaseFit
    <3> QED
      BY <1>0, <3>1, <3>2
  <2> QED
    BY <2>1, FramePhases
<1>3. \A c \in Docs : SettledFit(c)'
  <2>1. Graph!Settled(d)' => DocSettled(d)'
    BY <1>0 DEF Graph!Settled
  <2>2. SettledFit(d)'
    BY <2>1 DEF SettledFit
  <2> QED
    BY <2>2, FrameSettled
<1> QED
  BY <1>1, <1>2, <1>3, FrameRest DEF GraphInv

\* A writer's record after a step that only moves it on.
Moved(w, at) ==
  /\ hand' \in [GraphWriters -> HandRow] /\ \A v \in GraphWriters \ {w} : hand'[v] = hand[v]
  /\ hand'[w].at = at /\ hand'[w].doc = hand[w].doc /\ hand'[w].content = hand[w].content
  /\ hand'[w].removal = hand[w].removal /\ hand'[w].degraded = hand[w].degraded
  /\ hand'[w].newNodes = hand[w].newNodes /\ hand'[w].newEdges = hand[w].newEdges /\ hand'[w].cut = hand[w].cut
Freed(w) ==
  /\ hand' \in [GraphWriters -> HandRow] /\ \A v \in GraphWriters \ {w} : hand'[v] = hand[v]
  /\ hand'[w] = Graph!Off

LEMMA Moving ==
  ASSUME GraphTyped, NEW w \in GraphWriters, NEW at \in HandPlaces, hand' = [hand EXCEPT ![w] = [hand[w] EXCEPT !.at = at]]
  PROVE  Moved(w, at)
<1> DEFINE h == [hand[w] EXCEPT !.at = at]
<1>1. hand[w] \in HandRow /\ hand \in [GraphWriters -> HandRow]
  BY DEF GraphTyped
<1>2. /\ h \in HandRow /\ h.at = at /\ h.doc = hand[w].doc /\ h.content = hand[w].content /\ h.removal = hand[w].removal
      /\ h.degraded = hand[w].degraded /\ h.newNodes = hand[w].newNodes /\ h.newEdges = hand[w].newEdges /\ h.cut = hand[w].cut
  BY <1>1 DEF HandRow
<1>3. hand' = [hand EXCEPT ![w] = h]
  OBVIOUS
<1> HIDE DEF h
<1>4. hand'[w] = h /\ hand' \in [GraphWriters -> HandRow] /\ \A v \in GraphWriters \ {w} : hand'[v] = hand[v]
  BY <1>1, <1>2, <1>3
<1> QED
  BY <1>2, <1>4 DEF Moved

LEMMA Stepping ==
  ASSUME GraphTyped, NEW w \in GraphWriters, NEW at \in HandPlaces, Graph!Step(w, at)
  PROVE  Moved(w, at)
<1>1. hand \in [GraphWriters -> HandRow]
  BY DEF GraphTyped
<1>2. hand' = [hand EXCEPT ![w] = [hand[w] EXCEPT !.at = at]]
  BY <1>1 DEF Graph!Step
<1> QED
  BY <1>2, Moving

LEMMA Freeing ==
  ASSUME GraphTyped, NEW w \in GraphWriters, hand' = [hand EXCEPT ![w] = Graph!Off]
  PROVE  Freed(w)
  BY OffRow DEF GraphTyped, Freed

LEMMA RowsStill == ASSUME RowsFit, UNCHANGED <<mentions, nodes, edges>> PROVE RowsFit'
  BY DEF RowsFit, RowsOwn, ProseHeld, Graph!RelatedHasEnds

\* A writer that is at work has a document.
LEMMA AtWork ==
  ASSUME GraphInv, NEW w \in GraphWriters, hand[w].at # "none"
  PROVE  hand[w].doc \in Docs /\ hand[w].doc # 0
  BY HandRows DEF GraphInv, GraphTyped, HandFit

LEMMA Undisturbed ==
  ASSUME GraphInv, NEW w \in GraphWriters
  PROVE  /\ graphLock # "gc" => sweep.at = "none"
         /\ graphLock = w => graphLock # "gc" /\ graphLock # "free" /\ swept = FALSE /\ sweep.at = "none"
         /\ (sweep.at # "none" /\ hand[w].at \notin Unwritten) => met = TRUE
         /\ hand[w] \in HandRow /\ HandFit(w) /\ PhaseFit(w) /\ GraphTyped /\ RowsFit
         /\ hand[w].removal \in BOOLEAN
<1>1. SweepFit /\ SweptFit /\ GraphTyped /\ hand[w] \in HandRow /\ met \in BOOLEAN /\ swept \in BOOLEAN
  BY DEF GraphInv, GraphTyped
<1>2. graphLock # "gc" => sweep.at = "none"
  BY <1>1 DEF SweepFit, SweepReads
<1>3. graphLock = w => graphLock # "gc" /\ graphLock # "free" /\ swept = FALSE
  BY <1>1, GraphFits DEF SweptFit
<1>4. (sweep.at # "none" /\ hand[w].at \notin Unwritten) => met = TRUE
  BY <1>1 DEF SweepFit, SweepReads
<1> QED
  BY <1>1, <1>2, <1>3, <1>4, HandRows DEF GraphInv

LEMMA BeginKeeps ==
  ASSUME GraphInv, NEW w \in GraphWriters, NEW d \in Docs, NEW content \in Graph!Contents(d) \cup {Graph!Absent}, Graph!Begin(w, d, content)
  PROVE  GraphInv'
<1>0. /\ hand[w].at = "none" /\ hand \in [GraphWriters -> HandRow] /\ d \in Nat \ {0}
      /\ UNCHANGED <<live, mentions, nodes, edges, sweep, graphLock, met, swept>>
  BY GraphFits DEF Graph!Begin, Graph!At, GraphInv, GraphTyped
<1>1. hand[w].doc = 0 /\ graphLock # w
  BY <1>0 DEF GraphInv, HandFit, Locked
<1>2. content \in DocContents
  <2>1. Graph!Rich \in DocContents /\ Graph!Thin(d) \in DocContents
    BY DEF Graph!Rich, Graph!Thin, DocContents, Graph!Prose
  <2> QED
    BY <2>1, OffRow DEF Graph!Contents
<1>3. PICK g \in BOOLEAN : hand' = [hand EXCEPT ![w] = [Graph!Off EXCEPT !.at = "drop", !.doc = d, !.content = content,
                                                  !.removal = content = Graph!Absent, !.degraded = g]]
  BY DEF Graph!Begin
<1> DEFINE h == [Graph!Off EXCEPT !.at = "drop", !.doc = d, !.content = content, !.removal = content = Graph!Absent, !.degraded = g]
<1>4. /\ h \in HandRow /\ h.at = "drop" /\ h.doc = d /\ h.content = content /\ h.removal = (content = Graph!Absent)
      /\ h.newNodes = {} /\ h.newEdges = {} /\ h.cut = {}
  BY <1>2, OffRow DEF HandRow, HandPlaces
<1>5. hand' = [hand EXCEPT ![w] = h]
  BY <1>3
<1> HIDE DEF h
<1>6. hand' \in [GraphWriters -> HandRow] /\ hand'[w] = h /\ \A v \in GraphWriters \ {w} : hand'[v] = hand[v]
  BY <1>0, <1>4, <1>5
<1>7. touched \subseteq touched' /\ touched' \subseteq Docs /\ ((\E v \in GraphWriters : hand[v].doc = d) => d \in touched')
  BY DEF Graph!Begin, GraphInv, GraphTyped
<1>8. GraphTyped' /\ RowsFit'
  BY <1>0, <1>6, <1>7, RowsStill DEF GraphInv, GraphTyped
<1>9. OneWriter'
  BY <1>1, <1>4, <1>6, <1>7 DEF GraphInv, OneWriter
<1>10. SweepFit' /\ SweptFit'
  <2>1. Graph!Present' = Graph!Present
    BY <1>0 DEF Graph!Present
  <2>2. SweepFit'
    BY <1>0, <1>4, <1>6, <2>1 DEF GraphInv, SweepFit, SweepReads, Unwritten
  <2>3. SweptFit'
    BY <1>0, <2>1 DEF GraphInv, SweptFit, Graph!GcComplete, Graph!MentionedBy
  <2> QED
    BY <2>2, <2>3
<1>11. HandFit(w)' /\ PhaseFit(w)'
  BY <1>0, <1>1, <1>4, <1>6 DEF HandFit, PhaseFit, Phase, DefPass, Locked, Passing
<1>12. ASSUME NEW v \in GraphWriters \ {w} PROVE HandFit(v)' /\ PhaseFit(v)'
  <2>1. HandFit(v) /\ PhaseFit(v) /\ hand'[v] = hand[v] /\ (DefPass(v)' <=> DefPass(v)) /\ ProseOf(hand[v])' = ProseOf(hand[v])
    BY <1>0, <1>6 DEF GraphInv, DefPass, ProseOf
  <2>2. HandFit(v)'
    BY <1>0, <2>1 DEF HandFit
  <2>3. PhaseFit(v)'
    <3> SUFFICES ASSUME NEW c, c = hand[v].doc, c # 0, c \notin touched' PROVE Phase(v, c)'
      BY <2>1 DEF PhaseFit
    <3>1. Phase(v, c)
      BY <1>7, <2>1 DEF PhaseFit
    <3> QED
      BY <1>0, <2>1, <3>1 DEF Phase, Graph!MentionedBy, Graph!ProseNodes, Graph!DefNodes, FileEdges
  <2> QED
    BY <2>2, <2>3
<1>13. ASSUME NEW c \in Docs PROVE SettledFit(c)'
  <2> SUFFICES ASSUME Graph!Settled(c)' PROVE DocSettled(c)'
    BY DEF SettledFit
  <2>1. Graph!Settled(c)
    BY <1>1, <1>6, <1>7, GraphFits DEF Graph!Settled
  <2>2. DocSettled(c)
    BY <2>1 DEF GraphInv, SettledFit
  <2> QED
    BY <1>0, <2>2 DEF DocSettled, Graph!MentionedBy, Graph!ProseNodes, Graph!DefNodes, FileEdges
<1> QED
  BY <1>8, <1>9, <1>10, <1>11, <1>12, <1>13 DEF GraphInv

LEMMA ChunksKeep ==
  ASSUME GraphInv, NEW w \in GraphWriters, Graph!DropChunks(w) \/ Graph!AddChunks(w)
  PROVE  GraphInv'
<1>1. PICK d : d = hand[w].doc
  OBVIOUS
<1>2. /\ hand[w].at \in {"drop", "add"} /\ graphLock = "free" /\ swept' = FALSE /\ UNCHANGED <<mentions, nodes, edges, sweep, graphLock, met, touched>>
  BY DEF Graph!DropChunks, Graph!AddChunks, Graph!At, Graph!Stays
<1>3. d \in Docs /\ d # 0 /\ graphLock # w
  BY <1>1, <1>2, AtWork, GraphFits
<1>4. /\ sweep.at = "none" /\ hand[w] \in HandRow /\ HandFit(w) /\ PhaseFit(w) /\ GraphTyped /\ RowsFit
      /\ hand[w].removal \in BOOLEAN /\ live \in [Docs -> DocContents] /\ hand[w].content \in DocContents
  BY <1>2, Undisturbed, HandRows DEF GraphTyped
<1>5. \/ /\ hand[w].at = "drop" /\ live' = [live EXCEPT ![d] = Graph!Absent]
         /\ Moved(w, IF hand[w].removal THEN "mentions" ELSE "add")
      \/ hand[w].at = "add" /\ live' = [live EXCEPT ![d] = hand[w].content] /\ Moved(w, "lock")
  <2>1. {"mentions", "add", "lock"} \subseteq HandPlaces
    BY DEF HandPlaces
  <2> QED
    BY <1>1, <1>4, <2>1, Stepping DEF Graph!DropChunks, Graph!AddChunks, Graph!At
<1>6. live' \in [Docs -> DocContents] /\ \A c \in Docs \ {d} : live'[c] = live[c]
  BY <1>3, <1>4, <1>5, OffRow
<1>7. /\ hand' \in [GraphWriters -> HandRow] /\ \A v \in GraphWriters \ {w} : hand'[v] = hand[v]
      /\ hand'[w].doc = d /\ hand'[w].content = hand[w].content
      /\ hand'[w].removal = hand[w].removal /\ hand'[w].degraded = hand[w].degraded
      /\ hand'[w].newNodes = hand[w].newNodes /\ hand'[w].newEdges = hand[w].newEdges /\ hand'[w].cut = hand[w].cut
  BY <1>1, <1>5 DEF Moved
<1>8. \/ hand[w].removal /\ hand'[w].at = "mentions" /\ live'[d] = Graph!Absent
      \/ ~hand[w].removal /\ hand'[w].at = "add"
      \/ ~hand[w].removal /\ hand'[w].at = "lock" /\ live'[d] = hand[w].content
  BY <1>3, <1>4, <1>5 DEF Moved, HandFit
<1>9. GraphTyped' /\ RowsFit'
  BY <1>2, <1>4, <1>6, <1>7, RowsStill DEF GraphTyped
<1>10. Framed(w)
  BY <1>1, <1>2, <1>3, <1>4, <1>6, <1>7, Zenon DEF Framed, Graph!MentionedBy
<1>11. HandFit(w)'
  BY <1>1, <1>2, <1>3, <1>4, <1>7, <1>8 DEF HandFit, DefPass, Locked, Passing
<1>12. Phase(w, d)'
  BY <1>2, <1>3, <1>7, <1>8 DEF Phase, DefPass, Passing
<1> QED
  BY <1>1, <1>3, <1>7, <1>9, <1>10, <1>11, <1>12, FrameHolds

LEMMA LockKeeps ==
  ASSUME GraphInv, NEW w \in GraphWriters, Graph!LockGraph(w)
  PROVE  GraphInv'
<1>1. PICK d : d = hand[w].doc
  OBVIOUS
<1>2. /\ hand[w].at = "lock" /\ graphLock = "free" /\ graphLock' = w /\ swept' = FALSE
      /\ UNCHANGED <<live, mentions, nodes, edges, sweep, met, touched>>
  BY DEF Graph!LockGraph, Graph!At, Graph!Stays
<1>3. d \in Docs /\ d # 0
  BY <1>1, <1>2, AtWork
<1>4. sweep.at = "none" /\ hand[w] \in HandRow /\ HandFit(w) /\ PhaseFit(w) /\ GraphTyped /\ RowsFit /\ hand[w].removal \in BOOLEAN
  BY <1>2, Undisturbed
<1>5. Moved(w, IF hand[w].degraded THEN "cutEdges" ELSE "nodes")
  <2>1. {"cutEdges", "nodes"} \subseteq HandPlaces
    BY DEF HandPlaces
  <2> QED
    BY <1>4, <2>1, Stepping DEF Graph!LockGraph
<1>6. ~hand[w].removal
  BY <1>2, <1>4 DEF HandFit
<1>7. GraphTyped' /\ RowsFit'
  BY <1>2, <1>4, <1>5, RowsStill DEF GraphTyped, Moved
<1>8. Framed(w)
  BY <1>1, <1>2, <1>3, <1>4, <1>5, GraphFits DEF Framed, Graph!MentionedBy, Moved
<1>9. HandFit(w)'
  BY <1>1, <1>2, <1>3, <1>4, <1>5, <1>6 DEF HandFit, DefPass, Locked, Passing, Moved
<1>10. d \notin touched => Phase(w, d)'
  BY <1>1, <1>2, <1>3, <1>4, <1>5, <1>6 DEF PhaseFit, Phase, DefPass, Passing, Moved
<1> QED
  BY <1>1, <1>2, <1>3, <1>5, <1>7, <1>8, <1>9, <1>10, FrameHolds DEF Moved

LEMMA NodesWrite ==
  ASSUME GraphTyped, NEW new \in SUBSET Ents, NEW d \in Docs
  PROVE  /\ Graph!Written(nodes, new, d) \in [Ents -> Docs \cup {0}]
         /\ \A n \in Ents : Graph!Written(nodes, new, d)[n] = IF n \in new THEN d ELSE nodes[n]
         /\ Graph!Without(nodes, new) \in [Ents -> Docs \cup {0}]
         /\ \A n \in Ents : Graph!Without(nodes, new)[n] = IF n \in new THEN 0 ELSE nodes[n]
<1>1. nodes \in [Ents -> Docs \cup {0}] /\ DOMAIN nodes = Ents
  BY DEF GraphTyped
<1> QED
  BY <1>1, OffRow DEF Graph!Written, Graph!Without

LEMMA EdgesWrite ==
  ASSUME GraphTyped, NEW new \in SUBSET Rels, NEW d \in Docs
  PROVE  /\ Graph!Written(edges, new, d) \in [Rels -> Docs \cup {0}]
         /\ \A e \in Rels : Graph!Written(edges, new, d)[e] = IF e \in new THEN d ELSE edges[e]
         /\ Graph!Without(edges, new) \in [Rels -> Docs \cup {0}]
         /\ \A e \in Rels : Graph!Without(edges, new)[e] = IF e \in new THEN 0 ELSE edges[e]
<1>1. edges \in [Rels -> Docs \cup {0}] /\ DOMAIN edges = Rels
  BY DEF GraphTyped
<1> QED
  BY <1>1, OffRow DEF Graph!Written, Graph!Without

\* What a chunk mentions: prose, and the symbol of a code file.
LEMMA ProseNodesOwn ==
  ASSUME NEW d \in Docs, NEW h \in HandRow
  PROVE  /\ Graph!ProseNodes(d, h.content, h.degraded) \subseteq Ents
         /\ \A n \in Graph!ProseNodes(d, h.content, h.degraded) : n \in ProseOf(h) \/ (d \in CodeDocs /\ n = Graph!Symbol(d))
         /\ ProseOf(h) \subseteq Graph!ProseNodes(d, h.content, h.degraded) /\ ProseOf(h) \subseteq Graph!Prose
         /\ d \in CodeDocs => Graph!Symbol(d) \in Graph!ProseNodes(d, h.content, h.degraded)
<1>1. h.content.prose \subseteq Graph!Prose
  BY HandRows DEF DocContents
<1> QED
  BY <1>1, EntityFacts DEF Graph!ProseNodes, Graph!Own, ProseOf

LEMMA WriteNodesKeeps ==
  ASSUME GraphInv, NEW w \in GraphWriters, Graph!WriteNodes(w)
  PROVE  GraphInv'
<1>1. PICK d : d = hand[w].doc
  OBVIOUS
<1>2. /\ hand[w].at = "nodes" /\ nodes' = Graph!Written(nodes, Graph!ProseNodes(d, hand[w].content, hand[w].degraded), d)
      /\ UNCHANGED <<live, mentions, edges, sweep, graphLock, met, swept, touched>>
  BY <1>1 DEF Graph!WriteNodes, Graph!At, Graph!Stays
<1>3. d \in Docs /\ d # 0
  BY <1>1, <1>2, AtWork
<1>4. hand[w] \in HandRow /\ HandFit(w) /\ PhaseFit(w) /\ GraphTyped /\ RowsFit /\ hand[w].removal \in BOOLEAN
  BY Undisturbed
<1>5. ~hand[w].removal /\ graphLock = w
  BY <1>2, <1>4 DEF HandFit, Locked
<1>6. sweep.at = "none" /\ swept = FALSE
  BY <1>5, Undisturbed
<1>7. Moved(w, "edges")
  BY <1>4, Stepping DEF Graph!WriteNodes, HandPlaces
<1> DEFINE new == Graph!ProseNodes(d, hand[w].content, hand[w].degraded)
<1>8. /\ new \subseteq Ents /\ ProseOf(hand[w]) \subseteq new /\ (d \in CodeDocs => Graph!Symbol(d) \in new)
      /\ \A n \in new : n \in Graph!Prose \/ (d \in CodeDocs /\ n = Graph!Symbol(d))
      /\ ProseOf(hand[w]) \subseteq Graph!Prose
  BY <1>3, <1>4, ProseNodesOwn
<1> HIDE DEF new
<1>9. nodes' \in [Ents -> Docs \cup {0}] /\ \A n \in Ents : nodes'[n] = IF n \in new THEN d ELSE nodes[n]
  BY <1>2, <1>3, <1>4, <1>8, NodesWrite DEF new
<1>10. GraphTyped'
  BY <1>2, <1>4, <1>7, <1>9 DEF GraphTyped, Moved
<1>11. RowsFit'
  <2>1. \A n \in Ents \ Graph!Prose : nodes'[n] \in {0, n[2]}
    BY <1>4, <1>8, <1>9, EntityFacts DEF RowsFit, RowsOwn
  <2>2. \A n \in Ents : nodes[n] # 0 => nodes'[n] # 0
    BY <1>3, <1>9
  <2> QED
    BY <1>2, <1>4, <2>1, <2>2, EntityFacts, OffRow DEF RowsFit, RowsOwn, ProseHeld, Graph!RelatedHasEnds
<1>12. Framed(w)
  <2>1. \A n \in Ents \ Graph!Prose : n[2] # d => nodes'[n] = nodes[n]
    BY <1>8, <1>9, EntityFacts
  <2>2. \A n \in Graph!Prose : nodes[n] # 0 => nodes'[n] # 0
    BY <1>3, <1>9, EntityFacts
  <2> QED
    BY <1>1, <1>2, <1>3, <1>6, <1>7, <2>1, <2>2 DEF Framed, Graph!MentionedBy, Moved
<1>13. HandFit(w)'
  <2>1. ProseOf(hand[w])' = ProseOf(hand[w])
    BY <1>7 DEF Moved, ProseOf
  <2>2. \A n \in ProseOf(hand[w]) : nodes'[n] # 0
    BY <1>3, <1>8, <1>9
  <2> QED
    BY <1>1, <1>2, <1>3, <1>4, <1>5, <1>7, <2>1, <2>2 DEF HandFit, DefPass, Locked, Passing, Moved
<1>14. d \notin touched => Phase(w, d)'
  <2>1. d \in CodeDocs => nodes'[Graph!Symbol(d)] # 0
    BY <1>3, <1>8, <1>9
  <2> QED
    BY <1>1, <1>2, <1>3, <1>4, <1>5, <1>7, <2>1 DEF PhaseFit, Phase, DefPass, Passing, Moved
<1> QED
  BY <1>1, <1>2, <1>3, <1>7, <1>10, <1>11, <1>12, <1>13, <1>14, FrameHolds DEF Moved

LEMMA WriteEdgesKeeps ==
  ASSUME GraphInv, NEW w \in GraphWriters, Graph!WriteEdges(w)
  PROVE  GraphInv'
<1>1. PICK d : d = hand[w].doc
  OBVIOUS
<1> DEFINE new == Graph!ProseEdges(hand[w].content, hand[w].degraded)
<1>2. /\ hand[w].at = "edges" /\ edges' = Graph!Written(edges, new, d)
      /\ UNCHANGED <<live, mentions, nodes, sweep, graphLock, met, swept, touched>>
  BY <1>1 DEF Graph!WriteEdges, Graph!At, Graph!Stays
<1>3. d \in Docs /\ d # 0
  BY <1>1, <1>2, AtWork
<1>4. hand[w] \in HandRow /\ HandFit(w) /\ PhaseFit(w) /\ GraphTyped /\ RowsFit /\ hand[w].removal \in BOOLEAN
  BY Undisturbed
<1>5. ~hand[w].removal /\ graphLock = w
  BY <1>2, <1>4 DEF HandFit, Locked
<1>6. sweep.at = "none" /\ swept = FALSE
  BY <1>5, Undisturbed
<1>7. Moved(w, "mentions")
  BY <1>4, Stepping DEF Graph!WriteEdges, HandPlaces
<1>8. new \subseteq {Graph!Related} /\ (Graph!Related \in new => \A n \in Graph!Prose : nodes[n] # 0)
  <2>1. \A n \in ProseOf(hand[w]) : nodes[n] # 0
    BY <1>2, <1>4, <1>5 DEF HandFit
  <2> QED
    BY <2>1 DEF Graph!ProseEdges, ProseOf
<1> HIDE DEF new
<1>9. edges' \in [Rels -> Docs \cup {0}] /\ \A e \in Rels : edges'[e] = IF e \in new THEN d ELSE edges[e]
  <2>1. new \in SUBSET Rels
    BY <1>8, EdgeFacts
  <2> QED
    BY <1>2, <1>3, <1>4, <2>1, EdgesWrite
<1>10. \A e \in Graph!DefRef : edges'[e] = edges[e]
  BY <1>8, <1>9, EdgeFacts
<1>11. GraphTyped'
  BY <1>2, <1>4, <1>7, <1>9 DEF GraphTyped, Moved
<1>12. RowsFit'
  <2>1. edges'[Graph!Related] # 0 => \A n \in Graph!Prose : nodes[n] # 0
    BY <1>4, <1>8, <1>9, EdgeFacts, OffRow DEF RowsFit, Graph!RelatedHasEnds
  <2> QED
    BY <1>2, <1>4, <1>10, <2>1, OffRow DEF RowsFit, RowsOwn, ProseHeld, Graph!RelatedHasEnds
<1>13. Framed(w)
  BY <1>1, <1>2, <1>3, <1>6, <1>7, <1>10 DEF Framed, Graph!MentionedBy, Moved
<1>14. HandFit(w)'
  <2>1. ProseOf(hand[w])' = ProseOf(hand[w])
    BY <1>7 DEF Moved, ProseOf
  <2> QED
    BY <1>1, <1>2, <1>3, <1>4, <1>5, <1>7, <2>1 DEF HandFit, DefPass, Locked, Passing, Moved
<1>15. d \notin touched => Phase(w, d)'
  BY <1>1, <1>2, <1>3, <1>4, <1>5, <1>7 DEF PhaseFit, Phase, DefPass, Passing, Moved
<1> QED
  BY <1>1, <1>2, <1>3, <1>7, <1>11, <1>12, <1>13, <1>14, <1>15, FrameHolds DEF Moved

LEMMA DeleteMentionsKeeps ==
  ASSUME GraphInv, NEW w \in GraphWriters, Graph!DeleteMentions(w)
  PROVE  GraphInv'
<1>1. PICK d : d = hand[w].doc
  OBVIOUS
<1>2. /\ hand[w].at = "mentions" /\ mentions' = Graph!OfOthers(d)
      /\ UNCHANGED <<live, nodes, edges, sweep, graphLock, touched>>
      /\ hand[w].removal => Graph!Unlocked
      /\ ~hand[w].removal => UNCHANGED <<met, swept>>
  BY <1>1 DEF Graph!DeleteMentions, Graph!At, Graph!Stays
<1>3. d \in Docs /\ d # 0
  BY <1>1, <1>2, AtWork
<1>4. hand[w] \in HandRow /\ HandFit(w) /\ PhaseFit(w) /\ GraphTyped /\ RowsFit /\ hand[w].removal \in BOOLEAN
  BY Undisturbed
<1>5. /\ hand[w].removal => graphLock # w /\ met' = (met \/ sweep.at # "none") /\ swept' = FALSE
      /\ ~hand[w].removal => graphLock = w
  BY <1>2, <1>4 DEF HandFit, Locked, Graph!Unlocked
<1>6. met \in BOOLEAN /\ (~hand[w].removal => sweep.at = "none" /\ swept = FALSE /\ swept' = FALSE /\ met' = met)
  BY <1>2, <1>5, Undisturbed DEF GraphTyped
<1>7. Moved(w, IF hand[w].removal THEN "cutEdges" ELSE "mention")
  <2>1. {"cutEdges", "mention"} \subseteq HandPlaces
    BY DEF HandPlaces
  <2> QED
    BY <1>4, <2>1, Stepping DEF Graph!DeleteMentions
<1>8. mentions' \subseteq mentions
  BY <1>2 DEF Graph!OfOthers
<1>9. Graph!MentionedBy(d)' = {} /\ \A c \in Docs \ {d} : Graph!MentionedBy(c)' = Graph!MentionedBy(c)
  <2>1. ASSUME NEW c \in Docs \ {d} PROVE Graph!MentionedBy(c)' = Graph!MentionedBy(c)
    <3>1. {x \in mentions' : x[2] = c} = {x \in mentions : x[2] = c}
      BY <1>2 DEF Graph!OfOthers
    <3> QED
      BY <3>1, Zenon DEF Graph!MentionedBy
  <2>2. Graph!MentionedBy(d)' = {}
    BY <1>2 DEF Graph!OfOthers, Graph!MentionedBy
  <2> QED
    BY <2>1, <2>2
<1>10. GraphTyped'
  BY <1>2, <1>4, <1>5, <1>6, <1>7, <1>8 DEF GraphTyped, Moved
<1>11. RowsFit'
  BY <1>2, <1>4, <1>8 DEF RowsFit, RowsOwn, ProseHeld, Graph!RelatedHasEnds
<1>12. Framed(w)
  BY <1>1, <1>2, <1>3, <1>5, <1>6, <1>7, <1>8, <1>9 DEF Framed, Moved
<1>13. HandFit(w)'
  <2>1. ProseOf(hand[w])' = ProseOf(hand[w])
    BY <1>7 DEF Moved, ProseOf
  <2> QED
    BY <1>1, <1>2, <1>3, <1>4, <1>5, <1>7, <2>1 DEF HandFit, DefPass, Locked, Passing, Moved
<1>14. d \notin touched => Phase(w, d)'
  BY <1>1, <1>2, <1>3, <1>4, <1>5, <1>7, <1>9 DEF PhaseFit, Phase, DefPass, Passing, Moved
<1> QED
  BY <1>1, <1>2, <1>3, <1>7, <1>10, <1>11, <1>12, <1>13, <1>14, FrameHolds DEF Moved

\* After the prose write: the mentions are the new ones, and a code file goes on to its def/ref pass.
LEMMA WriteMentionsKeeps ==
  ASSUME GraphInv, NEW w \in GraphWriters, Graph!WriteMentions(w)
  PROVE  GraphInv'
<1>1. PICK d : d = hand[w].doc
  OBVIOUS
<1> DEFINE new == Graph!ProseNodes(d, hand[w].content, hand[w].degraded)
<1>2. /\ hand[w].at = "mention" /\ mentions' = mentions \cup (new \X {d}) /\ graphLock' = "free"
      /\ UNCHANGED <<live, nodes, edges, sweep, met, swept, touched>>
  BY <1>1 DEF Graph!WriteMentions, Graph!At, Graph!Stays
<1>3. d \in Docs /\ d # 0
  BY <1>1, <1>2, AtWork
<1>4. hand[w] \in HandRow /\ HandFit(w) /\ PhaseFit(w) /\ GraphTyped /\ RowsFit /\ hand[w].removal \in BOOLEAN
  BY Undisturbed
<1>5. ~hand[w].removal /\ graphLock = w /\ w # "free"
  BY <1>2, <1>4, GraphFits DEF HandFit, Locked
<1>6. sweep.at = "none" /\ swept = FALSE
  BY <1>5, Undisturbed
<1>7. (d \in CodeDocs /\ Moved(w, "extract")) \/ (d \notin CodeDocs /\ Freed(w))
  <2>1. hand \in [GraphWriters -> HandRow] /\ "extract" \in HandPlaces
    BY <1>4 DEF GraphTyped, HandPlaces
  <2>2. CASE d \in CodeDocs
    <3>1. hand' = [hand EXCEPT ![w] = [hand[w] EXCEPT !.at = "extract"]]
      BY <1>1, <2>1, <2>2 DEF Graph!WriteMentions, Graph!After
    <3> QED
      BY <1>4, <2>1, <2>2, <3>1, Moving
  <2>3. CASE d \notin CodeDocs
    <3>1. hand' = [hand EXCEPT ![w] = Graph!Off]
      BY <1>1, <2>1, <2>3 DEF Graph!WriteMentions, Graph!After
    <3> QED
      BY <1>4, <2>3, <3>1, Freeing
  <2> QED
    BY <2>2, <2>3
<1>8. /\ new \subseteq Ents /\ (d \in CodeDocs => Graph!Symbol(d) \in new)
      /\ \A n \in new : n \in ProseOf(hand[w]) \/ (d \in CodeDocs /\ n = Graph!Symbol(d))
      /\ ProseOf(hand[w]) \subseteq Graph!Prose /\ \A n \in ProseOf(hand[w]) : nodes[n] # 0
  BY <1>2, <1>3, <1>4, <1>5, ProseNodesOwn DEF HandFit
<1>9. \A c \in Docs \ {d} : Graph!MentionedBy(c)' = Graph!MentionedBy(c)
  <2> SUFFICES ASSUME NEW c \in Docs \ {d} PROVE Graph!MentionedBy(c)' = Graph!MentionedBy(c)
    OBVIOUS
  <2>1. {x \in mentions' : x[2] = c} = {x \in mentions : x[2] = c}
    BY <1>2
  <2> QED
    BY <2>1, Zenon DEF Graph!MentionedBy
<1>10. Graph!MentionedBy(d)' = Graph!MentionedBy(d) \cup new
  <2>1. \A n : n \in Graph!MentionedBy(d)' <=> \E x \in mentions' : x[2] = d /\ x[1] = n
    BY DEF Graph!MentionedBy
  <2>2. \A n : n \in Graph!MentionedBy(d) <=> \E x \in mentions : x[2] = d /\ x[1] = n
    BY DEF Graph!MentionedBy
  <2>3. \A n \in new : <<n, d>> \in mentions' /\ <<n, d>>[1] = n /\ <<n, d>>[2] = d
    BY <1>2
  <2>4. \A x \in mentions' : x \in mentions \/ x[1] \in new
    BY <1>2
  <2>5. mentions \subseteq mentions'
    BY <1>2
  <2> HIDE DEF new
  <2> QED
    BY <2>1, <2>2, <2>3, <2>4, <2>5
<1> HIDE DEF new
<1>11. \A m \in mentions' : m \in mentions \/ (m \in new \X {d} /\ m[1] \in new /\ m[2] = d)
  BY <1>2
<1>12. GraphTyped'
  <2>1. mentions' \subseteq Ents \X Docs
    BY <1>2, <1>3, <1>4, <1>8 DEF GraphTyped
  <2> QED
    BY <1>2, <1>4, <1>7, <2>1 DEF GraphTyped, Moved, Freed
<1>13. RowsFit'
  <2>1. RowsOwn'
    BY <1>2, <1>4, <1>8, <1>11 DEF RowsFit, RowsOwn
  <2>2. ProseHeld'
    <3>1. \A n \in new : n \in Graph!Prose => nodes[n] # 0
      BY <1>8, EntityFacts
    <3> QED
      BY <1>2, <1>4, <1>11, <3>1 DEF RowsFit, ProseHeld
  <2> QED
    BY <1>2, <1>4, <2>1, <2>2 DEF RowsFit, Graph!RelatedHasEnds
<1>14. hand'[w].doc \in {d, 0} /\ \A v \in GraphWriters \ {w} : hand'[v] = hand[v]
  BY <1>1, <1>7, OffRow DEF Moved, Freed
<1>15. Framed(w)
  BY <1>1, <1>2, <1>3, <1>5, <1>6, <1>9, <1>14, GraphFits DEF Framed
<1>16. HandFit(w)'
  <2>1. CASE Freed(w)
    BY <1>2, <1>5, <2>1, OffRow DEF HandFit, DefPass, Passing, Locked, Freed
  <2>2. CASE d \in CodeDocs /\ Moved(w, "extract")
    BY <1>1, <1>2, <1>3, <1>4, <1>5, <2>2 DEF HandFit, DefPass, Locked, Passing, Moved
  <2> QED
    BY <1>7, <2>1, <2>2
<1>17. d \notin touched => /\ live[d] = hand[w].content /\ Graph!MentionedBy(d)' = new /\ (d \in CodeDocs => nodes[Graph!Symbol(d)] # 0)
  BY <1>1, <1>2, <1>3, <1>4, <1>5, <1>10 DEF PhaseFit, Phase
<1>18. (hand'[w].doc = d /\ d \notin touched) => Phase(w, d)'
  <2> SUFFICES ASSUME hand'[w].doc = d, d \notin touched PROVE Phase(w, d)'
    OBVIOUS
  <2>1. d \in CodeDocs /\ Moved(w, "extract")
    BY <1>3, <1>7, OffRow DEF Freed
  <2>2. new = Graph!ProseNodes(d, hand[w].content, hand[w].degraded)'
    BY <2>1 DEF new, Moved, Graph!ProseNodes
  <2> QED
    BY <1>2, <1>3, <1>5, <1>17, <2>1, <2>2 DEF Phase, DefPass, Passing, Moved
<1>19. (hand'[w].doc = 0 /\ d \notin touched) => DocSettled(d)'
  <2> SUFFICES ASSUME hand'[w].doc = 0, d \notin touched PROVE DocSettled(d)'
    OBVIOUS
  <2>1. d \notin CodeDocs
    BY <1>1, <1>3, <1>7 DEF Moved
  <2>2. live'[d] = hand[w].content /\ hand[w].content # Graph!Absent /\ hand[w].degraded \in BOOLEAN
    BY <1>2, <1>4, <1>5, <1>17, HandRows DEF HandFit
  <2>3. \E g \in BOOLEAN : Graph!MentionedBy(d)' = Graph!ProseNodes(d, live[d], g)'
    <3>1. Graph!ProseNodes(d, hand[w].content, hand[w].degraded) = Graph!Own(d) \cup IF hand[w].degraded THEN {} ELSE hand[w].content.prose
      BY DEF Graph!ProseNodes
    <3>2. \A g : Graph!ProseNodes(d, live[d], g)' = Graph!Own(d) \cup IF g THEN {} ELSE live'[d].prose
      BY DEF Graph!ProseNodes, Graph!Own
    <3> QED
      BY <1>17, <2>2, <3>1, <3>2 DEF new
  <2> QED
    BY <2>1, <2>2, <2>3 DEF DocSettled
<1> QED
  BY <1>1, <1>2, <1>12, <1>13, <1>15, <1>16, <1>18, <1>19, FrameHolds

LEMMA ExtractKeeps ==
  ASSUME GraphInv, NEW w \in GraphWriters, Graph!Extract(w)
  PROVE  GraphInv'
<1>1. PICK d : d = hand[w].doc
  OBVIOUS
<1>2. hand[w].at = "extract" /\ UNCHANGED <<live, mentions, nodes, edges, sweep, graphLock, met, swept>>
  BY DEF Graph!Extract, Graph!At
<1>3. d \in Docs /\ d # 0
  BY <1>1, <1>2, AtWork
<1>4. hand[w] \in HandRow /\ HandFit(w) /\ PhaseFit(w) /\ GraphTyped /\ RowsFit /\ hand[w].removal \in BOOLEAN
  BY Undisturbed
<1>5. ~hand[w].removal /\ graphLock # w /\ DefPass(w) /\ d \in CodeDocs /\ hand[w].content # Graph!Absent
  BY <1>1, <1>2, <1>4 DEF HandFit, Locked, DefPass, Passing
<1>6. PICK parsed \in BOOLEAN :
        /\ touched' = IF parsed THEN touched ELSE touched \cup {d}
        /\ hand' = [hand EXCEPT ![w] = [hand[w] EXCEPT !.at = "cutEdges", !.newNodes = Graph!DefNodes(d, hand[w].content, parsed),
                                              !.newEdges = Graph!DefEdges(d, hand[w].content, parsed)]]
  <2>1. hand \in [GraphWriters -> HandRow]
    BY <1>4 DEF GraphTyped
  <2> QED
    BY <1>1, <2>1 DEF Graph!Extract
<1> DEFINE ns == Graph!DefNodes(d, hand[w].content, parsed)
           es == Graph!DefEdges(d, hand[w].content, parsed)
           h == [hand[w] EXCEPT !.at = "cutEdges", !.newNodes = ns, !.newEdges = es]
<1>7. /\ ns \subseteq Ents /\ \A n \in ns : n \notin Graph!Prose /\ n[2] = d
      /\ parsed => ns = Graph!DefNodes(d, hand[w].content, TRUE)
  <2>1. ns = IF parsed THEN Graph!DefNodes(d, hand[w].content, TRUE) ELSE {}
    BY DEF Graph!DefNodes
  <2>2. hand[w].content \in DocContents
    BY <1>4, HandRows
  <2>3. \A n \in Graph!DefNodes(d, hand[w].content, TRUE) : n \in Ents \ Graph!Prose /\ n[2] = d
    BY <1>5, <2>2, DefNodesOwn
  <2> HIDE DEF ns
  <2> QED
    BY <2>1, <2>3
<1>8. /\ \A e \in es : e \in Graph!DefRef /\ e[1][2] = d
      /\ parsed => FileEdges(d, hand[w].content) \subseteq es
  <2> DEFINE calls == {Graph!Calls(d, e) : e \in {f \in CodeDocs \ {d} : nodes[Graph!Symbol(f)] # Graph!None}}
  <2>1. \A e \in calls : e \in Graph!DefRef /\ e[1][2] = d
    <3>1. ASSUME NEW f \in CodeDocs PROVE Graph!Calls(d, f) \in Graph!DefRef /\ Graph!Calls(d, f)[1][2] = d
      <4>1. Graph!Calls(d, f) \in Graph!DefRef
        BY <1>5 DEF Graph!DefRef, Graph!Inferred
      <4>2. Graph!Calls(d, f)[1] = Graph!Symbol(d)
        BY DEF Graph!Calls
      <4> QED
        BY <1>5, <4>1, <4>2, EntityFacts
    <3> QED
      BY <3>1
  <2>2. es = IF ~parsed THEN {} ELSE {Graph!Defines(d)} \cup IF hand[w].content.refs THEN {Graph!ImportEdge(d)} \cup calls ELSE {}
    BY DEF Graph!DefEdges
  <2>3. \A e \in {Graph!Defines(d), Graph!ImportEdge(d)} : e \in Graph!DefRef /\ e[1][2] = d
    BY <1>5, EdgeFacts, EntityFacts
  <2> HIDE DEF calls, es
  <2> QED
    BY <2>1, <2>2, <2>3 DEF FileEdges
<1>9. es \subseteq Rels
  BY <1>8, EdgeFacts
<1> HIDE DEF ns, es
<1>10. /\ h \in HandRow /\ h.at = "cutEdges" /\ h.doc = d /\ h.content = hand[w].content /\ ~h.removal
       /\ h.degraded = hand[w].degraded /\ h.newNodes = ns /\ h.newEdges = es /\ h.cut = hand[w].cut
  BY <1>1, <1>4, <1>5, <1>7, <1>9 DEF HandRow, HandPlaces
<1>11. hand' = [hand EXCEPT ![w] = h]
  BY <1>6 DEF ns, es
<1> HIDE DEF h
<1>12. hand' \in [GraphWriters -> HandRow] /\ hand'[w] = h /\ \A v \in GraphWriters \ {w} : hand'[v] = hand[v]
  BY <1>4, <1>10, <1>11 DEF GraphTyped
<1>13. touched \subseteq touched' /\ touched' \subseteq Docs /\ (d \notin touched' => parsed)
  BY <1>3, <1>4, <1>6 DEF GraphTyped
<1>14. GraphTyped' /\ RowsFit'
  BY <1>2, <1>4, <1>12, <1>13, RowsStill DEF GraphTyped
<1>15. Framed(w)
  <2>1. sweep.at # "none" => met'
    BY <1>2, Undisturbed DEF Unwritten
  <2> QED
    BY <1>1, <1>2, <1>3, <1>10, <1>12, <1>13, <2>1 DEF Framed, Graph!MentionedBy
<1>16. HandFit(w)'
  BY <1>1, <1>2, <1>3, <1>4, <1>5, <1>7, <1>8, <1>10, <1>12 DEF HandFit, DefPass, Passing, Locked
<1>17. d \notin touched' => Phase(w, d)'
  <2> SUFFICES ASSUME d \notin touched' PROVE Phase(w, d)'
    OBVIOUS
  <2>1. Phase(w, d)
    BY <1>1, <1>3, <1>4, <1>13 DEF PhaseFit
  <2>2. /\ live'[d] = hand[w].content /\ nodes'[Graph!Symbol(d)] # 0
        /\ Graph!MentionedBy(d)' = Graph!ProseNodes(d, hand[w].content, hand[w].degraded)'
    BY <1>2, <1>5, <1>10, <1>12, <2>1 DEF Phase, Graph!MentionedBy, Graph!ProseNodes
  <2>3. ns = Graph!DefNodes(d, hand[w].content, TRUE)' /\ FileEdges(d, hand[w].content)' \subseteq es
    BY <1>7, <1>8, <1>10, <1>12, <1>13 DEF Graph!DefNodes, FileEdges
  <2> QED
    BY <1>10, <1>12, <2>2, <2>3 DEF Phase
<1> QED
  BY <1>1, <1>3, <1>10, <1>12, <1>14, <1>15, <1>16, <1>17, FrameHolds

LEMMA FailsKeeps ==
  ASSUME GraphInv, NEW w \in GraphWriters, Graph!Fails(w)
  PROVE  GraphInv'
<1>1. PICK d : d = hand[w].doc
  OBVIOUS
<1>2. /\ hand[w].at \notin Unwritten /\ UNCHANGED <<live, mentions, nodes, edges, sweep, met, swept>>
      /\ graphLock' = (IF graphLock = w THEN "free" ELSE graphLock) /\ touched' = touched \cup {d}
  BY <1>1 DEF Graph!Fails, Unwritten
<1>3. d \in Docs /\ d # 0
  BY <1>1, <1>2, AtWork DEF Unwritten
<1>4. /\ hand[w] \in HandRow /\ HandFit(w) /\ GraphTyped /\ RowsFit /\ hand[w].removal \in BOOLEAN
      /\ sweep.at # "none" => met = TRUE /\ graphLock # w
  BY <1>2, Undisturbed
<1>5. \/ hand[w].removal /\ Moved(w, "cutEdges")
      \/ graphLock = w /\ d \in CodeDocs /\ Moved(w, "extract")
      \/ Freed(w)
  <2>1. hand \in [GraphWriters -> HandRow] /\ "extract" \in HandPlaces /\ "cutEdges" \in HandPlaces
    BY <1>4 DEF GraphTyped, HandPlaces
  <2>2. \/ hand[w].removal /\ hand' = [hand EXCEPT ![w] = [hand[w] EXCEPT !.at = "cutEdges"]]
        \/ graphLock = w /\ d \in CodeDocs /\ hand' = [hand EXCEPT ![w] = [hand[w] EXCEPT !.at = "extract"]]
        \/ hand' = [hand EXCEPT ![w] = Graph!Off]
    BY <1>1, <2>1 DEF Graph!Fails, Graph!After
  <2> QED
    BY <1>4, <2>1, <2>2, Moving, Freeing
<1>6. hand' \in [GraphWriters -> HandRow] /\ hand'[w].doc \in {d, 0} /\ \A v \in GraphWriters \ {w} : hand'[v] = hand[v]
  BY <1>1, <1>5, OffRow DEF Moved, Freed
<1>7. GraphTyped' /\ RowsFit'
  BY <1>2, <1>3, <1>4, <1>6, RowsStill DEF GraphTyped
<1>8. graphLock' # w
  BY <1>2, GraphFits
<1>9. \A v \in GraphWriters \ {w} : graphLock' = v <=> graphLock = v
  BY <1>2, GraphFits
<1>10. Framed(w)
  BY <1>1, <1>2, <1>3, <1>4, <1>6, <1>9 DEF Framed, Graph!MentionedBy
<1>11. HandFit(w)'
  <2>1. CASE Freed(w)
    BY <1>8, <2>1, OffRow DEF HandFit, DefPass, Passing, Locked, Freed
  <2>2. CASE hand[w].removal /\ Moved(w, "cutEdges")
    BY <1>1, <1>2, <1>3, <1>4, <1>8, <2>2 DEF HandFit, DefPass, Locked, Passing, Moved
  <2>3. CASE graphLock = w /\ d \in CodeDocs /\ Moved(w, "extract")
    <3>1. ~hand[w].removal
      BY <1>4, <2>3 DEF HandFit
    <3>2. hand[w].content # Graph!Absent
      BY <1>2, <1>4, <3>1 DEF HandFit, Unwritten
    <3> QED
      BY <1>1, <1>2, <1>3, <1>4, <1>8, <2>3, <3>1, <3>2 DEF HandFit, DefPass, Locked, Passing, Moved
  <2> QED
    BY <1>5, <2>1, <2>2, <2>3
<1> QED
  BY <1>1, <1>2, <1>7, <1>10, <1>11, FrameHolds

LEMMA LeavingOwn ==
  ASSUME GraphInv, NEW d \in Docs, d # 0, NEW keep
  PROVE  /\ Graph!Leaving(d, keep) \subseteq Ents
         /\ \A n \in Graph!Leaving(d, keep) : n \notin Graph!Prose /\ n[2] = d /\ n \notin keep
<1>1. nodes \in [Ents -> Docs \cup {0}] /\ DOMAIN nodes = Ents /\ RowsOwn
  BY DEF GraphInv, GraphTyped, RowsFit
<1>2. ASSUME NEW n \in Graph!Leaving(d, keep) PROVE n \in Ents /\ n \notin Graph!Prose /\ n[2] = d /\ n \notin keep
  <2>1. n \in Ents /\ nodes[n] = d /\ n \notin keep
    BY <1>1 DEF Graph!Leaving, Graph!Rows
  <2>2. n \in Graph!Modules \/ \E e \in Graph!DefRef : n \in {e[1], e[2]}
    BY DEF Graph!Leaving, Graph!OwnDefRef
  <2>3. n \notin Graph!Prose
    BY <2>2, EntityFacts, EdgeFacts
  <2> QED
    BY <1>1, <2>1, <2>3 DEF RowsOwn
<1> QED
  BY <1>2

LEMMA CutEdgesKeeps ==
  ASSUME GraphInv, NEW w \in GraphWriters, Graph!CutEdges(w)
  PROVE  GraphInv'
<1>1. PICK d : d = hand[w].doc
  OBVIOUS
<1> DEFINE going == Graph!Leaving(d, hand[w].newNodes)
           lost == Graph!OwnDefRef(d) \cup {e \in Rels : e[1] \in going \/ e[2] \in going}
           h == [hand[w] EXCEPT !.at = "cutNodes", !.cut = going]
<1>0. hand[w] \in HandRow /\ HandFit(w) /\ PhaseFit(w) /\ GraphTyped /\ RowsFit /\ hand[w].removal \in BOOLEAN
  BY Undisturbed
<1>2. /\ hand[w].at = "cutEdges" /\ edges' = Graph!Without(edges, lost) /\ hand' = [hand EXCEPT ![w] = h]
      /\ UNCHANGED <<live, mentions, nodes, sweep, graphLock, touched>>
      /\ graphLock = w => UNCHANGED <<met, swept>>
      /\ graphLock # w => Graph!Unlocked
  <2>1. hand \in [GraphWriters -> HandRow]
    BY <1>0 DEF GraphTyped
  <2> QED
    BY <1>1, <2>1 DEF Graph!CutEdges, Graph!At, Graph!Stays, Rels
<1>3. d \in Docs /\ d # 0
  BY <1>1, <1>2, AtWork
<1>4. /\ graphLock # w => met' = (met \/ sweep.at # "none") /\ swept' = FALSE
      /\ graphLock = w => sweep.at = "none" /\ swept' = FALSE /\ met' = met
      /\ met \in BOOLEAN /\ met' \in BOOLEAN
  BY <1>0, <1>2, Undisturbed DEF Graph!Unlocked, GraphTyped
<1>5. going \subseteq Ents /\ \A n \in going : n \notin Graph!Prose /\ n[2] = d /\ n \notin hand[w].newNodes
  BY <1>3, LeavingOwn
<1>6. /\ lost \in SUBSET Rels /\ Graph!Related \notin lost
      /\ \A e \in Graph!DefRef : (e[1][2] # d /\ e[2][2] # d) => e \notin lost
  <2>1. Graph!OwnDefRef(d) \subseteq Graph!DefRef /\ \A e \in Graph!OwnDefRef(d) : e[1][2] = d
    BY <1>0, <1>3 DEF Graph!OwnDefRef, RowsFit, RowsOwn
  <2> HIDE DEF going
  <2> QED
    BY <1>5, <2>1, EdgeFacts
<1> HIDE DEF going, lost
<1>7. /\ h \in HandRow /\ h.at = "cutNodes" /\ h.doc = d /\ h.content = hand[w].content /\ h.removal = hand[w].removal
      /\ h.degraded = hand[w].degraded /\ h.newNodes = hand[w].newNodes /\ h.newEdges = hand[w].newEdges /\ h.cut = going
  BY <1>0, <1>1, <1>5 DEF HandRow, HandPlaces
<1> HIDE DEF h
<1>8. hand' \in [GraphWriters -> HandRow] /\ hand'[w] = h /\ \A v \in GraphWriters \ {w} : hand'[v] = hand[v]
  BY <1>0, <1>2, <1>7 DEF GraphTyped
<1>9. edges' \in [Rels -> Docs \cup {0}] /\ \A e \in Rels : edges'[e] = IF e \in lost THEN 0 ELSE edges[e]
  BY <1>0, <1>2, <1>3, <1>6, EdgesWrite
<1>10. edges'[Graph!Related] = edges[Graph!Related] /\ \A e \in Graph!DefRef : edges'[e] \in {0, edges[e]}
  BY <1>6, <1>9, EdgeFacts
<1>11. GraphTyped'
  BY <1>0, <1>2, <1>4, <1>8, <1>9 DEF GraphTyped
<1>12. RowsFit'
  BY <1>0, <1>2, <1>10 DEF RowsFit, RowsOwn, ProseHeld, Graph!RelatedHasEnds
<1>13. Framed(w)
  <2>1. \A e \in Graph!DefRef : (e[1][2] # d /\ e[2][2] # d) => edges'[e] = edges[e]
    BY <1>6, <1>9, EdgeFacts
  <2> QED
    BY <1>1, <1>2, <1>3, <1>4, <1>7, <1>8, <1>10, <2>1 DEF Framed, Graph!MentionedBy
<1>14. HandFit(w)'
  BY <1>0, <1>1, <1>2, <1>3, <1>5, <1>7, <1>8 DEF HandFit, DefPass, Locked, Passing
<1>15. d \notin touched => Phase(w, d)'
  <2> SUFFICES ASSUME d \notin touched PROVE Phase(w, d)'
    OBVIOUS
  <2>1. Phase(w, d)
    BY <1>0, <1>1, <1>3 DEF PhaseFit
  <2>2. DefPass(w)' <=> DefPass(w)
    BY <1>2, <1>7, <1>8 DEF DefPass, Passing
  <2>3. DefPass(w) => d \in CodeDocs
    BY <1>0, <1>1 DEF HandFit
  <2>4. DefPass(w) => Graph!Symbol(d) \notin going
    <3> SUFFICES ASSUME DefPass(w) PROVE Graph!Symbol(d) \notin going
      OBVIOUS
    <3>1. hand[w].newNodes = Graph!DefNodes(d, hand[w].content, TRUE)
      BY <1>2, <2>1 DEF Phase
    <3>2. hand[w].content \in DocContents
      BY <1>0, HandRows
    <3>3. Graph!Symbol(d) \in Graph!DefNodes(d, hand[w].content, TRUE)
      BY <2>3, <3>2, DefNodesOwn
    <3> QED
      BY <1>5, <3>1, <3>3
  <2> QED
    BY <1>2, <1>7, <1>8, <2>1, <2>2, <2>4 DEF Phase, Graph!MentionedBy, Graph!ProseNodes, Graph!DefNodes, FileEdges
<1> QED
  BY <1>1, <1>2, <1>3, <1>7, <1>8, <1>11, <1>12, <1>13, <1>14, <1>15, FrameHolds

LEMMA CutNodesKeeps ==
  ASSUME GraphInv, NEW w \in GraphWriters, Graph!CutNodes(w)
  PROVE  GraphInv'
<1>1. PICK d : d = hand[w].doc
  OBVIOUS
<1>0. hand[w] \in HandRow /\ HandFit(w) /\ PhaseFit(w) /\ GraphTyped /\ RowsFit /\ hand[w].removal \in BOOLEAN
  BY Undisturbed
<1>2. /\ hand[w].at = "cutNodes" /\ nodes' = Graph!Without(nodes, hand[w].cut)
      /\ UNCHANGED <<live, mentions, edges, sweep, graphLock, touched>>
      /\ graphLock = w => UNCHANGED <<met, swept>>
      /\ graphLock # w => Graph!Unlocked
  BY DEF Graph!CutNodes, Graph!At, Graph!Stays
<1>3. d \in Docs /\ d # 0
  BY <1>1, <1>2, AtWork
<1>4. /\ graphLock # w => met' = (met \/ sweep.at # "none") /\ swept' = FALSE
      /\ graphLock = w => sweep.at = "none" /\ swept' = FALSE /\ met' = met
      /\ met \in BOOLEAN /\ met' \in BOOLEAN
  BY <1>0, <1>2, Undisturbed DEF Graph!Unlocked, GraphTyped
<1>5. Moved(w, IF hand[w].removal \/ graphLock = w THEN "cutProse" ELSE "defNodes")
  <2>1. {"cutProse", "defNodes"} \subseteq HandPlaces
    BY DEF HandPlaces
  <2> QED
    BY <1>0, <2>1, Stepping DEF Graph!CutNodes
<1>6. hand[w].cut \in SUBSET Ents /\ \A n \in hand[w].cut : n \notin Graph!Prose /\ n[2] = d
  BY <1>0, <1>1, HandRows DEF HandFit
<1>7. nodes' \in [Ents -> Docs \cup {0}] /\ \A n \in Ents : nodes'[n] = IF n \in hand[w].cut THEN 0 ELSE nodes[n]
  BY <1>0, <1>2, <1>3, <1>6, NodesWrite
<1>8. \A n \in Graph!Prose : nodes'[n] = nodes[n]
  BY <1>6, <1>7, EntityFacts
<1>9. GraphTyped'
  BY <1>0, <1>2, <1>4, <1>5, <1>7 DEF GraphTyped, Moved
<1>10. RowsFit'
  BY <1>0, <1>2, <1>7, <1>8 DEF RowsFit, RowsOwn, ProseHeld, Graph!RelatedHasEnds
<1>11. Framed(w)
  <2>1. \A n \in Ents \ Graph!Prose : n[2] # d => nodes'[n] = nodes[n]
    BY <1>6, <1>7
  <2> QED
    BY <1>1, <1>2, <1>3, <1>4, <1>5, <1>8, <2>1 DEF Framed, Graph!MentionedBy, Moved
<1>12. HandFit(w)'
  BY <1>0, <1>1, <1>2, <1>3, <1>5 DEF HandFit, DefPass, Locked, Passing, Moved
<1>13. d \notin touched => Phase(w, d)'
  <2> SUFFICES ASSUME d \notin touched PROVE Phase(w, d)'
    OBVIOUS
  <2>1. Phase(w, d)
    BY <1>0, <1>1, <1>3 DEF PhaseFit
  <2>2. DefPass(w)' <=> DefPass(w)
    BY <1>2, <1>5 DEF DefPass, Passing, Moved
  <2>3. DefPass(w) => d \in CodeDocs
    BY <1>0, <1>1 DEF HandFit
  <2>4. DefPass(w) => nodes'[Graph!Symbol(d)] # 0
    BY <1>2, <1>7, <2>1, <2>3, EntityFacts DEF Phase
  <2> QED
    BY <1>2, <1>5, <2>1, <2>2, <2>4 DEF Phase, Moved, Graph!MentionedBy, Graph!ProseNodes, Graph!DefNodes, FileEdges
<1> QED
  BY <1>1, <1>2, <1>3, <1>5, <1>9, <1>10, <1>11, <1>12, <1>13, FrameHolds DEF Moved

LEMMA CutProseKeeps ==
  ASSUME GraphInv, NEW w \in GraphWriters, Graph!CutProse(w)
  PROVE  GraphInv'
<1>1. PICK d : d = hand[w].doc
  OBVIOUS
<1> DEFINE lost == {e \in Rels : edges[e] = d}
<1>0. hand[w] \in HandRow /\ HandFit(w) /\ PhaseFit(w) /\ GraphTyped /\ RowsFit /\ hand[w].removal \in BOOLEAN
  BY Undisturbed
<1>2. /\ hand[w].at = "cutProse" /\ edges' = Graph!Without(edges, lost)
      /\ UNCHANGED <<live, mentions, nodes, sweep, graphLock, touched>>
      /\ hand[w].removal => hand' = [hand EXCEPT ![w] = Graph!Off] /\ Graph!Unlocked
      /\ ~hand[w].removal => Graph!Step(w, "nodes") /\ UNCHANGED <<met, swept>>
  BY <1>1 DEF Graph!CutProse, Graph!At, Graph!Stays, Rels
<1>3. d \in Docs /\ d # 0
  BY <1>1, <1>2, AtWork
<1>4. /\ hand[w].removal => graphLock # w /\ Freed(w) /\ met' = (met \/ sweep.at # "none") /\ swept' = FALSE
      /\ ~hand[w].removal => graphLock = w /\ Moved(w, "nodes")
  <2>1. hand[w].removal => graphLock # w /\ met' = (met \/ sweep.at # "none") /\ swept' = FALSE
    BY <1>0, <1>2 DEF HandFit, Graph!Unlocked
  <2>2. ~hand[w].removal => graphLock = w
    BY <1>0, <1>2 DEF HandFit, Locked
  <2>3. "nodes" \in HandPlaces
    BY DEF HandPlaces
  <2> QED
    BY <1>0, <1>2, <2>1, <2>2, <2>3, Stepping, Freeing
<1>5. /\ ~hand[w].removal => sweep.at = "none" /\ swept' = FALSE /\ met' = met
      /\ met \in BOOLEAN /\ met' \in BOOLEAN
  BY <1>0, <1>2, <1>4, Undisturbed DEF GraphTyped
<1>6. edges' \in [Rels -> Docs \cup {0}] /\ \A e \in Rels : edges'[e] = IF edges[e] = d THEN 0 ELSE edges[e]
  BY <1>0, <1>2, <1>3, EdgesWrite
<1>7. \A e \in Graph!DefRef : e \in Rels /\ (e[1][2] # d => edges'[e] = edges[e])
  BY <1>0, <1>3, <1>6, EdgeFacts DEF RowsFit, RowsOwn
<1>8. Graph!Related \in Rels /\ \A e \in Rels : edges'[e] \in {0, edges[e]}
  BY <1>6, EdgeFacts
<1>9. hand' \in [GraphWriters -> HandRow] /\ hand'[w].doc \in {d, 0} /\ \A v \in GraphWriters \ {w} : hand'[v] = hand[v]
  BY <1>0, <1>1, <1>4, OffRow DEF Moved, Freed
<1>10. GraphTyped'
  BY <1>0, <1>2, <1>4, <1>5, <1>6, <1>9 DEF GraphTyped
<1>11. RowsFit'
  BY <1>0, <1>2, <1>7, <1>8, OffRow DEF RowsFit, RowsOwn, ProseHeld, Graph!RelatedHasEnds
<1>12. Framed(w)
  BY <1>0, <1>1, <1>2, <1>3, <1>4, <1>5, <1>7, <1>8, <1>9 DEF Framed, Graph!MentionedBy
<1>13. HandFit(w)'
  <2>1. CASE hand[w].removal
    BY <1>2, <1>4, <2>1, OffRow DEF HandFit, DefPass, Passing, Locked, Freed
  <2>2. CASE ~hand[w].removal
    BY <1>0, <1>1, <1>2, <1>3, <1>4, <2>2 DEF HandFit, DefPass, Locked, Passing, Moved
  <2> QED
    BY <2>1, <2>2
<1>14. (hand'[w].doc = d /\ d \notin touched) => Phase(w, d)'
  <2> SUFFICES ASSUME hand'[w].doc = d, d \notin touched PROVE Phase(w, d)'
    OBVIOUS
  <2>1. Phase(w, d)
    BY <1>0, <1>1, <1>3 DEF PhaseFit
  <2>2. ~hand[w].removal
    BY <1>3, <1>4, OffRow DEF Freed
  <2> QED
    BY <1>2, <1>4, <2>1, <2>2 DEF Phase, DefPass, Passing, Moved
<1>15. (hand'[w].doc = 0 /\ d \notin touched) => DocSettled(d)'
  <2> SUFFICES ASSUME hand'[w].doc = 0, d \notin touched PROVE DocSettled(d)'
    OBVIOUS
  <2>1. Phase(w, d)
    BY <1>0, <1>1, <1>3 DEF PhaseFit
  <2>2. hand[w].removal
    BY <1>0, <1>1, <1>3, <1>4 DEF Moved
  <2>3. live'[d] = Graph!Absent /\ Graph!MentionedBy(d)' = {}
    BY <1>2, <2>1, <2>2 DEF Phase, Graph!MentionedBy
  <2> QED
    BY <2>3 DEF DocSettled
<1> QED
  BY <1>1, <1>2, <1>10, <1>11, <1>12, <1>13, <1>14, <1>15, FrameHolds

LEMMA WriteDefNodesKeeps ==
  ASSUME GraphInv, NEW w \in GraphWriters, Graph!WriteDefNodes(w)
  PROVE  GraphInv'
<1>1. PICK d : d = hand[w].doc
  OBVIOUS
<1>0. hand[w] \in HandRow /\ HandFit(w) /\ PhaseFit(w) /\ GraphTyped /\ RowsFit /\ hand[w].removal \in BOOLEAN
  BY Undisturbed
<1>2. /\ hand[w].at = "defNodes" /\ nodes' = Graph!Written(nodes, hand[w].newNodes, d)
      /\ UNCHANGED <<live, mentions, edges, sweep, graphLock, touched>>
      /\ met' = (met \/ sweep.at # "none") /\ swept' = FALSE
  BY <1>1 DEF Graph!WriteDefNodes, Graph!At, Graph!Stays, Graph!Unlocked
<1>3. d \in Docs /\ d # 0 /\ met \in BOOLEAN /\ met' \in BOOLEAN
  BY <1>0, <1>1, <1>2, AtWork DEF GraphTyped
<1>4. Moved(w, "defEdges")
  BY <1>0, Stepping DEF Graph!WriteDefNodes, HandPlaces
<1>5. ~hand[w].removal /\ graphLock # w /\ DefPass(w) /\ d \in CodeDocs
  BY <1>0, <1>1, <1>2 DEF HandFit, Locked, DefPass, Passing
<1>6. hand[w].newNodes \in SUBSET Ents /\ \A n \in hand[w].newNodes : n \notin Graph!Prose /\ n[2] = d
  BY <1>0, <1>1, HandRows DEF HandFit
<1>7. nodes' \in [Ents -> Docs \cup {0}] /\ \A n \in Ents : nodes'[n] = IF n \in hand[w].newNodes THEN d ELSE nodes[n]
  <2> DEFINE new == hand[w].newNodes
  <2>1. GraphTyped /\ new \in SUBSET Ents /\ d \in Docs /\ nodes' = Graph!Written(nodes, new, d)
    BY <1>0, <1>2, <1>3, <1>6
  <2> HIDE DEF new
  <2>2. nodes' \in [Ents -> Docs \cup {0}] /\ \A n \in Ents : nodes'[n] = IF n \in new THEN d ELSE nodes[n]
    BY <2>1, NodesWrite
  <2> QED
    BY <2>2 DEF new
<1>8. \A n \in Graph!Prose : nodes'[n] = nodes[n]
  BY <1>6, <1>7, EntityFacts
<1>9. GraphTyped'
  BY <1>0, <1>2, <1>3, <1>4, <1>7 DEF GraphTyped, Moved
<1>10. RowsFit'
  BY <1>0, <1>2, <1>6, <1>7, <1>8 DEF RowsFit, RowsOwn, ProseHeld, Graph!RelatedHasEnds
<1>11. Framed(w)
  <2>1. \A n \in Ents \ Graph!Prose : n[2] # d => nodes'[n] = nodes[n]
    BY <1>6, <1>7
  <2> QED
    BY <1>1, <1>2, <1>3, <1>4, <1>8, <2>1 DEF Framed, Graph!MentionedBy, Moved
<1>12. HandFit(w)'
  BY <1>0, <1>1, <1>2, <1>3, <1>4 DEF HandFit, DefPass, Locked, Passing, Moved
<1>13. d \notin touched => Phase(w, d)'
  <2> SUFFICES ASSUME d \notin touched PROVE Phase(w, d)'
    OBVIOUS
  <2>1. Phase(w, d)
    BY <1>0, <1>1, <1>3 DEF PhaseFit
  <2>2. DefPass(w)' <=> DefPass(w)
    BY <1>2, <1>4 DEF DefPass, Passing, Moved
  <2>3. nodes'[Graph!Symbol(d)] # 0 /\ \A n \in hand[w].newNodes : nodes'[n] # 0
    BY <1>3, <1>5, <1>6, <1>7, <2>1, EntityFacts DEF Phase
  <2> QED
    BY <1>2, <1>4, <2>1, <2>2, <2>3 DEF Phase, Moved, Graph!MentionedBy, Graph!ProseNodes, Graph!DefNodes, FileEdges
<1> QED
  BY <1>1, <1>2, <1>3, <1>4, <1>9, <1>10, <1>11, <1>12, <1>13, FrameHolds DEF Moved

LEMMA WriteDefEdgesKeeps ==
  ASSUME GraphInv, NEW w \in GraphWriters, Graph!WriteDefEdges(w)
  PROVE  GraphInv'
<1>1. PICK d : d = hand[w].doc
  OBVIOUS
<1>0. hand[w] \in HandRow /\ HandFit(w) /\ PhaseFit(w) /\ GraphTyped /\ RowsFit /\ hand[w].removal \in BOOLEAN
  BY Undisturbed
<1>2. /\ hand[w].at = "defEdges" /\ edges' = Graph!Written(edges, hand[w].newEdges, d) /\ hand' = [hand EXCEPT ![w] = Graph!Off]
      /\ UNCHANGED <<live, mentions, nodes, sweep, graphLock, touched>>
      /\ met' = (met \/ sweep.at # "none") /\ swept' = FALSE
  BY <1>1 DEF Graph!WriteDefEdges, Graph!At, Graph!Stays, Graph!Unlocked
<1>3. d \in Docs /\ d # 0 /\ met \in BOOLEAN /\ met' \in BOOLEAN
  BY <1>0, <1>1, <1>2, AtWork DEF GraphTyped
<1>4. Freed(w)
  BY <1>0, <1>2, Freeing
<1>5. ~hand[w].removal /\ graphLock # w /\ DefPass(w) /\ d \in CodeDocs /\ hand[w].content # Graph!Absent
  BY <1>0, <1>1, <1>2 DEF HandFit, Locked, DefPass, Passing
<1>6. hand[w].newEdges \in SUBSET Rels /\ \A e \in hand[w].newEdges : e \in Graph!DefRef /\ e[1][2] = d
  BY <1>0, <1>1, HandRows DEF HandFit
<1>7. edges' \in [Rels -> Docs \cup {0}] /\ \A e \in Rels : edges'[e] = IF e \in hand[w].newEdges THEN d ELSE edges[e]
  <2> DEFINE new == hand[w].newEdges
  <2>1. GraphTyped /\ new \in SUBSET Rels /\ d \in Docs /\ edges' = Graph!Written(edges, new, d)
    BY <1>0, <1>2, <1>3, <1>6
  <2> HIDE DEF new
  <2>2. edges' \in [Rels -> Docs \cup {0}] /\ \A e \in Rels : edges'[e] = IF e \in new THEN d ELSE edges[e]
    BY <2>1, EdgesWrite
  <2> QED
    BY <2>2 DEF new
<1>8. edges'[Graph!Related] = edges[Graph!Related] /\ \A e \in Graph!DefRef : e[1][2] # d => edges'[e] = edges[e]
  BY <1>6, <1>7, EdgeFacts
<1>9. GraphTyped'
  BY <1>0, <1>2, <1>3, <1>4, <1>7 DEF GraphTyped, Freed
<1>10. RowsFit'
  <2>1. \A e \in Graph!DefRef : edges'[e] \in {0, e[1][2]}
    BY <1>0, <1>6, <1>7, EdgeFacts DEF RowsFit, RowsOwn
  <2> QED
    BY <1>0, <1>2, <1>8, <2>1 DEF RowsFit, RowsOwn, ProseHeld, Graph!RelatedHasEnds
<1>11. Framed(w)
  BY <1>1, <1>2, <1>3, <1>4, <1>8, OffRow DEF Framed, Graph!MentionedBy, Freed
<1>12. HandFit(w)'
  BY <1>2, <1>4, <1>5, OffRow DEF HandFit, DefPass, Passing, Locked, Freed
<1>13. d \notin touched => DocSettled(d)'
  <2> SUFFICES ASSUME d \notin touched PROVE DocSettled(d)'
    OBVIOUS
  <2>1. Phase(w, d)
    BY <1>0, <1>1, <1>3 DEF PhaseFit
  <2>2. /\ live[d] = hand[w].content /\ Graph!MentionedBy(d) = Graph!ProseNodes(d, live[d], hand[w].degraded)
        /\ nodes[Graph!Symbol(d)] # 0 /\ hand[w].newNodes = Graph!DefNodes(d, live[d], TRUE)
        /\ FileEdges(d, live[d]) \subseteq hand[w].newEdges
        /\ ~met => \A n \in hand[w].newNodes : nodes[n] # 0
    BY <1>2, <1>5, <2>1 DEF Phase
  <2>3. \A e \in FileEdges(d, live[d]) : edges'[e] # 0
    BY <1>3, <1>6, <1>7, <2>2
  <2>4. hand[w].degraded \in BOOLEAN
    BY <1>0, HandRows
  <2>5. \E g \in BOOLEAN : Graph!MentionedBy(d)' = Graph!ProseNodes(d, live[d], g)'
    BY <1>2, <2>2, <2>4 DEF Graph!MentionedBy, Graph!ProseNodes
  <2>6. Graph!DefNodes(d, live[d], TRUE)' = Graph!DefNodes(d, live[d], TRUE) /\ FileEdges(d, live[d])' = FileEdges(d, live[d])
    BY <1>2 DEF Graph!DefNodes, FileEdges
  <2> QED
    BY <1>2, <1>3, <1>5, <2>2, <2>3, <2>5, <2>6 DEF DocSettled
<1> QED
  BY <1>1, <1>2, <1>3, <1>4, <1>9, <1>10, <1>11, <1>12, <1>13, OffRow, FrameHolds DEF Freed

-----------------------------------------------------------------------------
\* The garbage collection writes no document's rows but those that no chunk has.
SweepFramed ==
  /\ UNCHANGED <<live, hand, touched>> /\ (met => met') /\ met' \in BOOLEAN /\ swept' \in BOOLEAN
  /\ sweep' \in SweepRow /\ graphLock' \in {"free", "gc"}
  /\ \A w \in GraphWriters : graphLock' # w /\ graphLock # w
  /\ ~met' => \A w \in GraphWriters : hand[w].at \in Unwritten
  /\ mentions' \subseteq mentions /\ \A m \in mentions : live[m[2]] # Graph!Absent => m \in mentions'
  /\ nodes' \in [Ents -> Docs \cup {0}] /\ edges' \in [Rels -> Docs \cup {0}]
  /\ \A n \in Ents : nodes'[n] \in {0, nodes[n]}
  /\ \A m \in mentions' : nodes'[m[1]] = nodes[m[1]]
  /\ \A e \in Graph!DefRef : edges'[e] = edges[e]
  /\ ~met' => \A e \in Graph!DefRef : edges[e] # 0 => nodes'[e[1]] = nodes[e[1]] /\ nodes'[e[2]] = nodes[e[2]]
  /\ edges'[Graph!Related] \in {0, edges[Graph!Related]}
  /\ edges'[Graph!Related] # 0 => \A n \in Graph!Prose : nodes'[n] = nodes[n]

LEMMA SweepMentions ==
  ASSUME GraphTyped, SweepFramed, NEW d \in Docs
  PROVE  /\ Graph!MentionedBy(d)' \subseteq Graph!MentionedBy(d)
         /\ live[d] # Graph!Absent => /\ Graph!MentionedBy(d)' = Graph!MentionedBy(d)
                                      /\ \A n \in Graph!MentionedBy(d) : nodes'[n] = nodes[n]
<1>1. mentions' \subseteq mentions
  BY DEF SweepFramed
<1>2. Graph!MentionedBy(d)' \subseteq Graph!MentionedBy(d)
  BY <1>1 DEF Graph!MentionedBy
<1>3. ASSUME live[d] # Graph!Absent, NEW n \in Graph!MentionedBy(d)
      PROVE  n \in Graph!MentionedBy(d)' /\ nodes'[n] = nodes[n]
  <2>1. PICK m \in mentions : m[2] = d /\ m[1] = n
    BY <1>3 DEF Graph!MentionedBy
  <2>2. m \in mentions' /\ nodes'[m[1]] = nodes[m[1]]
    BY <1>3, <2>1 DEF SweepFramed
  <2> QED
    BY <2>1, <2>2 DEF Graph!MentionedBy
<1> QED
  BY <1>2, <1>3

LEMMA SweepPhases ==
  ASSUME GraphInv, SweepFramed, NEW w \in GraphWriters
  PROVE  HandFit(w)' /\ PhaseFit(w)'
<1>0. /\ hand' = hand /\ graphLock # w /\ graphLock' # w /\ HandFit(w) /\ PhaseFit(w) /\ hand[w] \in HandRow /\ GraphTyped
      /\ live' = live /\ touched' = touched /\ (~met' => hand[w].at \in Unwritten)
  BY DEF SweepFramed, GraphInv, GraphTyped
<1>1. DefPass(w)' <=> DefPass(w)
  BY <1>0 DEF DefPass
<1>2. hand[w].at \in {"edges", "mentions", "mention"} => hand[w].removal
  BY <1>0, HandRows DEF HandFit, Locked
<1>3. HandFit(w)'
  BY <1>0, <1>1, <1>2 DEF HandFit
<1>4. PhaseFit(w)'
  <2> SUFFICES ASSUME NEW d, d = hand[w].doc, d # 0, d \notin touched PROVE Phase(w, d)'
    BY <1>0 DEF PhaseFit
  <2>1. d \in Docs /\ Phase(w, d)
    BY <1>0, HandRows DEF PhaseFit
  <2>2. Graph!MentionedBy(d)' \subseteq Graph!MentionedBy(d)
    BY <1>0, <2>1, SweepMentions
  <2>3. hand[w].at # "mention"
    BY <1>0, <1>2 DEF HandFit
  <2>4. DefPass(w) => /\ Graph!MentionedBy(d)' = Graph!ProseNodes(d, hand[w].content, hand[w].degraded)
                      /\ nodes'[Graph!Symbol(d)] # 0
    <3> SUFFICES ASSUME DefPass(w)
                 PROVE  /\ Graph!MentionedBy(d)' = Graph!ProseNodes(d, hand[w].content, hand[w].degraded)
                        /\ nodes'[Graph!Symbol(d)] # 0
      OBVIOUS
    <3>1. d \in CodeDocs /\ hand[w].content # Graph!Absent /\ live[d] = hand[w].content
      BY <1>0, <2>1 DEF HandFit, DefPass, Passing, Phase
    <3>2. Graph!MentionedBy(d) = Graph!ProseNodes(d, hand[w].content, hand[w].degraded) /\ nodes[Graph!Symbol(d)] # 0
      BY <2>1 DEF Phase
    <3>3. Graph!MentionedBy(d)' = Graph!MentionedBy(d) /\ \A n \in Graph!MentionedBy(d) : nodes'[n] = nodes[n]
      BY <1>0, <2>1, <3>1, SweepMentions
    <3>4. Graph!Symbol(d) \in Graph!ProseNodes(d, hand[w].content, hand[w].degraded)
      BY <3>1 DEF Graph!ProseNodes, Graph!Own
    <3> QED
      BY <3>2, <3>3, <3>4
  <2>5. hand[w].at = "defEdges" => met'
    BY <1>0 DEF Unwritten
  <2>6. (hand[w].removal /\ hand[w].at \notin {"drop", "mentions"}) => Graph!MentionedBy(d)' = {}
    BY <2>1, <2>2 DEF Phase
  <2>7. /\ Graph!ProseNodes(d, hand[w].content, hand[w].degraded)' = Graph!ProseNodes(d, hand[w].content, hand[w].degraded)
        /\ Graph!DefNodes(d, hand[w].content, TRUE)' = Graph!DefNodes(d, hand[w].content, TRUE)
        /\ FileEdges(d, hand[w].content)' = FileEdges(d, hand[w].content)
    BY <1>0 DEF Graph!ProseNodes, Graph!DefNodes, FileEdges
  <2> QED
    BY <1>0, <1>1, <1>2, <2>1, <2>3, <2>4, <2>5, <2>6, <2>7 DEF Phase
<1> QED
  BY <1>3, <1>4

LEMMA SweepSettled ==
  ASSUME GraphInv, SweepFramed, NEW d \in Docs
  PROVE  SettledFit(d)'
<1> SUFFICES ASSUME Graph!Settled(d)' PROVE DocSettled(d)'
  BY DEF SettledFit
<1>0. live' = live /\ (met => met') /\ GraphTyped /\ live[d] \in DocContents
  BY DEF SweepFramed, GraphInv, GraphTyped
<1>1. Graph!Settled(d)
  BY DEF Graph!Settled, SweepFramed
<1>2. DocSettled(d)
  BY <1>1 DEF GraphInv, SettledFit
<1>3. Graph!MentionedBy(d)' \subseteq Graph!MentionedBy(d)
  BY <1>0, SweepMentions
<1>4. CASE live[d] = Graph!Absent
  BY <1>0, <1>2, <1>3, <1>4 DEF DocSettled
<1>5. CASE live[d] # Graph!Absent
  <2>1. Graph!MentionedBy(d)' = Graph!MentionedBy(d) /\ \A n \in Graph!MentionedBy(d) : nodes'[n] = nodes[n]
    BY <1>0, <1>5, SweepMentions
  <2>2. PICK g \in BOOLEAN : Graph!MentionedBy(d) = Graph!ProseNodes(d, live[d], g)
    BY <1>2, <1>5 DEF DocSettled
  <2>3. d \in CodeDocs => nodes'[Graph!Symbol(d)] # 0
    BY <1>2, <1>5, <2>1, <2>2 DEF DocSettled, Graph!ProseNodes, Graph!Own
  <2>4. ASSUME d \in CodeDocs, ~met'
        PROVE  /\ \A n \in Graph!DefNodes(d, live[d], TRUE) : nodes'[n] # 0
               /\ \A e \in FileEdges(d, live[d]) : edges'[e] # 0
    <3>1. /\ \A n \in Graph!DefNodes(d, live[d], TRUE) : nodes[n] # 0
          /\ \A e \in FileEdges(d, live[d]) : edges[e] # 0
      BY <1>0, <1>2, <1>5, <2>4 DEF DocSettled
    <3>2. \A e \in FileEdges(d, live[d]) : e \in Graph!DefRef
      BY <1>0, <2>4, DefNodesOwn
    <3>3. \A e \in FileEdges(d, live[d]) : edges'[e] # 0 /\ nodes'[e[1]] = nodes[e[1]] /\ nodes'[e[2]] = nodes[e[2]]
      BY <2>4, <3>1, <3>2 DEF SweepFramed
    <3>4. \A n \in Graph!DefNodes(d, live[d], TRUE) : \E e \in FileEdges(d, live[d]) : n = e[1] \/ n = e[2]
      <4>1. Graph!DefNodes(d, live[d], TRUE) = {Mod(d), Graph!Symbol(d)} \cup IF live[d].refs THEN {Graph!Import(d)} ELSE {}
        BY DEF Graph!DefNodes, Mod
      <4>2. /\ Graph!Defines(d)[1] = Mod(d) /\ Graph!Defines(d)[2] = Graph!Symbol(d) /\ Graph!ImportEdge(d)[2] = Graph!Import(d)
        BY <2>4, EdgeFacts
      <4> QED
        BY <4>1, <4>2 DEF FileEdges
    <3>5. ASSUME NEW n \in Graph!DefNodes(d, live[d], TRUE)
          PROVE  nodes'[n] # 0
      <4>1. PICK e \in FileEdges(d, live[d]) : n = e[1] \/ n = e[2]
        BY <3>4
      <4>2. nodes'[n] = nodes[n]
        BY <3>3, <4>1
      <4> QED
        BY <3>1, <4>2
    <3> QED
      BY <3>3, <3>5
  <2>5. \E h \in BOOLEAN : Graph!MentionedBy(d)' = Graph!ProseNodes(d, live[d], h)'
    BY <1>0, <2>1, <2>2 DEF Graph!ProseNodes
  <2>6. Graph!DefNodes(d, live[d], TRUE)' = Graph!DefNodes(d, live[d], TRUE) /\ FileEdges(d, live[d])' = FileEdges(d, live[d])
    BY <1>0 DEF Graph!DefNodes, FileEdges
  <2> QED
    BY <1>0, <1>5, <2>3, <2>4, <2>5, <2>6 DEF DocSettled
<1> QED
  BY <1>4, <1>5

LEMMA SweepHolds ==
  ASSUME GraphInv, SweepFramed, SweepFit', SweptFit'
  PROVE  GraphInv'
<1>1. GraphTyped'
  BY DEF GraphInv, GraphTyped, SweepFramed
<1>2. RowsOwn'
  BY DEF GraphInv, RowsFit, RowsOwn, SweepFramed
<1>3. ProseHeld'
  BY DEF GraphInv, RowsFit, ProseHeld, SweepFramed
<1>4. Graph!RelatedHasEnds'
  BY OffRow DEF GraphInv, RowsFit, Graph!RelatedHasEnds, SweepFramed
<1>5. OneWriter'
  BY DEF GraphInv, OneWriter, SweepFramed
<1> QED
  BY <1>1, <1>2, <1>3, <1>4, <1>5, SweepPhases, SweepSettled DEF GraphInv, RowsFit

\* The garbage collection's record.
LEMMA SweepRows ==
  ASSUME NEW s \in SweepRow
  PROVE  /\ s.chunks \subseteq Docs /\ s.mentioned \subseteq Ents \X Docs /\ s.nodes \subseteq Ents
         /\ s.orphans \subseteq Ents /\ s.cut \subseteq Rels
  BY DEF SweepRow

LEMMA NoSweepRow == Graph!NoSweep \in SweepRow /\ Graph!NoSweep.at = "none"
  BY DEF Graph!NoSweep, SweepRow

\* While it is under way the garbage collection has the lock.
LEMMA Sweeping ==
  ASSUME GraphInv, sweep.at # "none"
  PROVE  /\ SweepReads /\ SweptFit /\ GraphTyped /\ RowsFit /\ sweep \in SweepRow /\ graphLock = "gc" /\ graphLock # "free"
         /\ \A w \in GraphWriters : graphLock # w /\ "free" # w
         /\ met \in BOOLEAN /\ swept \in BOOLEAN /\ mentions \subseteq Ents \X Docs
         /\ nodes \in [Ents -> Docs \cup {0}] /\ edges \in [Rels -> Docs \cup {0}]
  BY GraphFits DEF GraphInv, SweepFit, SweepReads, GraphTyped

LEMMA Ending ==
  ASSUME Graph!Done, graphLock = "gc"
  PROVE  sweep' \in SweepRow /\ sweep'.at = "none" /\ graphLock' = "free"
  BY NoSweepRow DEF Graph!Done

\* A step of the garbage collection that writes no row.
LEMMA SweepReading ==
  ASSUME GraphInv, UNCHANGED <<live, mentions, nodes, edges, hand, touched, met, swept>>, sweep' \in SweepRow, sweep.at # "none",
         graphLock' \in {"free", "gc"}, SweepFit'
  PROVE  GraphInv'
<1>1. \A w \in GraphWriters : graphLock' # w
  BY GraphFits
<1>2. SweepFramed
  BY <1>1, Sweeping, EdgeFacts DEF SweepFramed, SweepReads
<1>3. SweptFit'
  BY <1>1, Sweeping DEF SweptFit, Graph!GcComplete, Graph!Present, Graph!MentionedBy
<1> QED
  BY <1>2, <1>3, SweepHolds

LEMMA GcFailsKeeps == ASSUME GraphInv, Graph!GcFails PROVE GraphInv'
<1>1. sweep.at # "none" /\ Graph!Done /\ UNCHANGED <<live, mentions, nodes, edges, hand, touched, met, swept>>
  BY DEF Graph!GcFails
<1>2. sweep' \in SweepRow /\ sweep'.at = "none" /\ graphLock' = "free"
  BY <1>1, Sweeping, Ending
<1> QED
  BY <1>1, <1>2, SweepReading DEF SweepFit

LEMMA BeginGcKeeps == ASSUME GraphInv, Graph!BeginGc PROVE GraphInv'
<1>1. /\ sweep.at = "none" /\ graphLock = "free" /\ graphLock' = "gc" /\ sweep' = [Graph!NoSweep EXCEPT !.at = "prune", !.chunks = Graph!Present]
      /\ met' = (met \/ \E w \in GraphWriters : hand[w].at \notin {"none", "drop", "add", "lock"})
      /\ UNCHANGED <<live, mentions, nodes, edges, hand, touched, swept>>
  BY DEF Graph!BeginGc, Graph!MayCollect, Graph!FreeForSweep
<1>2. GraphTyped /\ SweptFit
  BY DEF GraphInv
<1>3. sweep' \in SweepRow /\ sweep'.at = "prune" /\ sweep'.chunks = Graph!Present
  <2>1. Graph!Present \in SUBSET Docs
    BY DEF Graph!Present
  <2> QED
    BY <1>1, <2>1 DEF Graph!NoSweep, SweepRow
<1>4. met' \in BOOLEAN /\ (met => met') /\ (~met' => \A w \in GraphWriters : hand[w].at \in Unwritten)
  BY <1>1, <1>2 DEF GraphTyped, Unwritten
<1>5. \A w \in GraphWriters : graphLock' # w /\ graphLock # w
  BY <1>1, GraphFits
<1>6. SweepFramed
  BY <1>1, <1>2, <1>3, <1>4, <1>5 DEF SweepFramed, GraphTyped
<1>7. SweepFit'
  <2>1. Graph!Present' = Graph!Present
    BY <1>1 DEF Graph!Present
  <2>2. SweepReads'
    BY <1>1, <1>3, <1>4, <2>1 DEF SweepReads
  <2> QED
    BY <2>2 DEF SweepFit
<1>8. SweptFit'
  BY <1>1, <1>2, <1>5 DEF SweptFit, Graph!GcComplete, Graph!Present, Graph!MentionedBy
<1> QED
  BY <1>6, <1>7, <1>8, SweepHolds

LEMMA PruneKeeps == ASSUME GraphInv, Graph!Prune PROVE GraphInv'
<1>1. /\ sweep.at = "prune" /\ mentions' = {m \in mentions : m[2] \in sweep.chunks}
      /\ sweep' = [sweep EXCEPT !.at = "nodes", !.mentioned = mentions']
      /\ UNCHANGED <<live, nodes, edges, hand, graphLock, met, swept, touched>>
  BY DEF Graph!Prune, Graph!Stays
<1>2. /\ SweepReads /\ SweptFit /\ GraphTyped /\ RowsFit /\ sweep \in SweepRow /\ graphLock = "gc"
      /\ \A w \in GraphWriters : graphLock # w
      /\ met \in BOOLEAN /\ swept \in BOOLEAN /\ mentions \subseteq Ents \X Docs
      /\ nodes \in [Ents -> Docs \cup {0}] /\ edges \in [Rels -> Docs \cup {0}]
  BY <1>1, Sweeping
<1>3. sweep.chunks = Graph!Present /\ Graph!Present' = Graph!Present
  BY <1>1, <1>2 DEF SweepReads, Graph!Present
<1>4. mentions' \subseteq mentions /\ \A m \in mentions : live[m[2]] # Graph!Absent => m \in mentions'
  <2>1. ASSUME NEW m \in mentions, live[m[2]] # Graph!Absent PROVE m \in mentions'
    <3>1. m[2] \in Graph!Present
      BY <1>2, <2>1 DEF Graph!Present
    <3> QED
      BY <1>1, <1>3, <3>1
  <2> QED
    BY <1>1, <2>1
<1>5. sweep' \in SweepRow /\ sweep'.at = "nodes" /\ sweep'.chunks = sweep.chunks /\ sweep'.mentioned = mentions'
  <2>1. mentions' \in SUBSET (Ents \X Docs)
    BY <1>2, <1>4
  <2> QED
    BY <1>1, <1>2, <2>1 DEF SweepRow
<1>6. SweepFramed
  <2>1. ~met' => \A w \in GraphWriters : hand[w].at \in Unwritten
    BY <1>1, <1>2 DEF SweepReads
  <2> QED
    BY <1>1, <1>2, <1>4, <1>5, <2>1 DEF SweepFramed
<1>7. SweepFit'
  <2>1. \A m \in sweep'.mentioned : m[2] \in sweep'.chunks
    BY <1>1, <1>5
  <2>2. SweepReads'
    BY <1>1, <1>2, <1>3, <1>5, <2>1 DEF SweepReads
  <2> QED
    BY <2>2 DEF SweepFit
<1>8. SweptFit'
  <2>1. \A n, d : (d \in Graph!Present /\ <<n, d>> \in mentions) => <<n, d>> \in mentions'
    BY <1>1, <1>3
  <2>2. ASSUME NEW d \in Graph!Present PROVE Graph!MentionedBy(d)' = Graph!MentionedBy(d)
    <3>1. d \in Docs /\ live[d] # Graph!Absent
      BY <2>2 DEF Graph!Present
    <3> QED
      BY <1>2, <1>6, <3>1, SweepMentions
  <2>3. Graph!GcComplete'
    BY <1>1, <1>2, <1>3, <2>1, <2>2 DEF SweptFit, Graph!GcComplete
  <2> QED
    BY <1>1, <1>2, <2>3 DEF SweptFit
<1> QED
  BY <1>6, <1>7, <1>8, SweepHolds

LEMMA ReadNodesKeeps == ASSUME GraphInv, Graph!ReadNodes PROVE GraphInv'
<1>1. sweep.at = "nodes" /\ UNCHANGED <<live, mentions, nodes, edges, hand, met, swept, touched>>
  BY DEF Graph!ReadNodes, Graph!Stays
<1>2. SweepReads /\ sweep \in SweepRow /\ graphLock = "gc" /\ nodes \in [Ents -> Docs \cup {0}]
  BY <1>1, Sweeping
<1>3. CASE Graph!Done
  <2>1. sweep' \in SweepRow /\ sweep'.at = "none" /\ graphLock' = "free"
    BY <1>2, <1>3, Ending
  <2> QED
    BY <1>1, <2>1, SweepReading DEF SweepFit
<1>4. CASE sweep' = [sweep EXCEPT !.at = "edges", !.nodes = Graph!Rows(nodes)] /\ UNCHANGED graphLock
  <2>1. Graph!Rows(nodes) \in SUBSET Ents /\ \A n \in Ents : nodes[n] # 0 => n \in Graph!Rows(nodes)
    BY <1>2, OffRow DEF Graph!Rows
  <2>2. /\ sweep' \in SweepRow /\ sweep'.at = "edges" /\ sweep'.chunks = sweep.chunks /\ sweep'.mentioned = sweep.mentioned
        /\ sweep'.nodes = Graph!Rows(nodes)
    BY <1>2, <1>4, <2>1 DEF SweepRow
  <2>3. Graph!Present' = Graph!Present
    BY <1>1 DEF Graph!Present
  <2>4. \A n \in Graph!Prose : nodes'[n] # 0 => n \in sweep'.nodes
    BY <1>1, <2>1, <2>2, EntityFacts
  <2>5. SweepReads'
    BY <1>1, <1>2, <1>4, <2>2, <2>3, <2>4 DEF SweepReads
  <2> QED
    BY <1>1, <1>2, <1>4, <2>2, <2>5, SweepReading DEF SweepFit
<1> QED
  BY <1>3, <1>4 DEF Graph!ReadNodes

LEMMA ReadEdgesKeeps == ASSUME GraphInv, Graph!ReadEdges PROVE GraphInv'
<1>1. /\ sweep.at = "edges" /\ UNCHANGED <<live, mentions, nodes, edges, hand, graphLock, met, swept, touched>>
      /\ sweep' = [sweep EXCEPT !.at = "deleteEdges", !.orphans = Graph!Orphans, !.cut = Graph!OrphanEdges(Graph!Orphans)]
  BY DEF Graph!ReadEdges, Graph!Stays
<1>2. SweepReads /\ sweep \in SweepRow /\ graphLock = "gc" /\ edges \in [Rels -> Docs \cup {0}]
  BY <1>1, Sweeping
<1>3. sweep.mentioned \subseteq Ents \X Docs /\ sweep.nodes \subseteq Ents
  BY <1>2, SweepRows
<1>4. /\ Graph!Rows(edges) \subseteq Rels /\ \A e \in Rels : edges[e] # 0 <=> e \in Graph!Rows(edges)
  BY <1>2, OffRow DEF Graph!Rows
<1>5. /\ Graph!Orphans \subseteq Ents
      /\ \A n \in Graph!Orphans : n \notin Graph!Modules /\ \A m \in sweep.mentioned : m[1] # n
      /\ \A e \in Graph!DefRef : edges[e] # 0 => e[1] \notin Graph!Orphans /\ e[2] \notin Graph!Orphans
  <2>1. \A n \in Graph!Orphans : n \notin Graph!Exempt /\ n \in sweep.nodes /\ Graph!MentionedIn(n) = {}
    BY DEF Graph!Orphans
  <2>2. \A e \in Graph!DefRef : edges[e] # 0 => e[1] \in Graph!Exempt /\ e[2] \in Graph!Exempt
    <3>1. \A e \in Graph!DefRef : edges[e] # 0 => e \in Graph!Rows(edges) \cap Graph!DefRef
      BY <1>4, EdgeFacts
    <3> QED
      BY <3>1 DEF Graph!Exempt
  <2>3. Graph!Modules \subseteq Graph!Exempt
    BY DEF Graph!Exempt
  <2>4. \A n : Graph!MentionedIn(n) = {} => \A m \in sweep.mentioned : m[1] # n
    BY DEF Graph!MentionedIn
  <2> QED
    BY <1>3, <2>1, <2>2, <2>3, <2>4
<1>6. \A n \in Graph!Prose \cap sweep.nodes : n \in Graph!Orphans \/ \E m \in sweep.mentioned : m[1] = n
  <2> SUFFICES ASSUME NEW n \in Graph!Prose \cap sweep.nodes, \A m \in sweep.mentioned : m[1] # n PROVE n \in Graph!Orphans
    OBVIOUS
  <2>1. n \notin Graph!Exempt
    BY EntityFacts, EdgeFacts DEF Graph!Exempt
  <2>2. Graph!MentionedIn(n) = {}
    BY DEF Graph!MentionedIn
  <2> QED
    BY <2>1, <2>2 DEF Graph!Orphans
<1> DEFINE gone == Graph!Orphans
           lost == Graph!OrphanEdges(gone)
<1>7. lost \subseteq Rels /\ lost \cap Graph!DefRef = {}
  BY <1>4 DEF Graph!OrphanEdges
<1>8. ASSUME Graph!Related \notin lost, edges[Graph!Related] # 0
      PROVE  /\ Graph!Prose \cap gone = {}
             /\ \E d \in sweep.chunks : \A n \in Graph!Prose : <<n, d>> \in sweep.mentioned
  <2>1. Graph!Related \in Graph!Rows(edges) \ Graph!DefRef
    BY <1>4, <1>8, EdgeFacts
  <2>2. Graph!Related[1] \notin gone /\ Graph!Related[2] \notin gone /\ ~Graph!Unsupported(Graph!Related)
    BY <1>8, <2>1 DEF Graph!OrphanEdges
  <2>3. PICK d : d \in Graph!MentionedIn(Graph!Related[1]) /\ d \in Graph!MentionedIn(Graph!Related[2])
    BY <2>2 DEF Graph!Unsupported
  <2>4. ASSUME NEW n, d \in Graph!MentionedIn(n) PROVE <<n, d>> \in sweep.mentioned
    <3>1. PICK m \in sweep.mentioned : m[1] = n /\ m[2] = d
      BY <2>4 DEF Graph!MentionedIn
    <3>2. m \in Ents \X Docs
      BY <1>3
    <3>3. m = <<n, d>>
      BY <3>1, <3>2
    <3> QED
      BY <3>3
  <2>5. <<Graph!Related[1], d>> \in sweep.mentioned /\ <<Graph!Related[2], d>> \in sweep.mentioned
    BY <2>3, <2>4
  <2>6. d \in sweep.chunks
    BY <1>1, <1>2, <2>5 DEF SweepReads
  <2> HIDE DEF gone
  <2> QED
    BY <2>2, <2>5, <2>6, EdgeFacts
<1>9. sweep' = [sweep EXCEPT !.at = "deleteEdges", !.orphans = gone, !.cut = lost]
  BY <1>1
<1> HIDE DEF gone, lost
<1>10. /\ sweep' \in SweepRow /\ sweep'.at = "deleteEdges" /\ sweep'.chunks = sweep.chunks /\ sweep'.mentioned = sweep.mentioned
       /\ sweep'.nodes = sweep.nodes /\ sweep'.orphans = gone /\ sweep'.cut = lost
  <2>1. gone \in SUBSET Ents /\ lost \in SUBSET Rels
    BY <1>5, <1>7 DEF gone
  <2> QED
    BY <1>2, <1>9, <2>1 DEF SweepRow
<1>11. SweepReads'
  <2>1. Graph!Present' = Graph!Present
    BY <1>1 DEF Graph!Present
  <2>2. /\ \A n \in gone : n \notin Graph!Modules /\ \A m \in sweep.mentioned : m[1] # n
        /\ \A n \in Graph!Prose \cap sweep.nodes : n \in gone \/ \E m \in sweep.mentioned : m[1] = n
        /\ \A e \in Graph!DefRef : edges[e] # 0 => e[1] \notin gone /\ e[2] \notin gone
    BY <1>5, <1>6 DEF gone
  <2> QED
    BY <1>1, <1>2, <1>7, <1>8, <1>10, <2>1, <2>2 DEF SweepReads
<1> QED
  BY <1>1, <1>2, <1>10, <1>11, SweepReading DEF SweepFit

LEMMA DeleteOrphanEdgesKeeps == ASSUME GraphInv, Graph!DeleteOrphanEdges PROVE GraphInv'
<1>1. /\ sweep.at = "deleteEdges" /\ edges' = Graph!Without(edges, sweep.cut) /\ sweep' = [sweep EXCEPT !.at = "deleteNodes"]
      /\ UNCHANGED <<live, mentions, nodes, hand, graphLock, met, swept, touched>>
  BY DEF Graph!DeleteOrphanEdges, Graph!Stays
<1>2. /\ SweepReads /\ SweptFit /\ GraphTyped /\ RowsFit /\ sweep \in SweepRow /\ graphLock = "gc"
      /\ \A w \in GraphWriters : graphLock # w
      /\ met \in BOOLEAN /\ swept \in BOOLEAN /\ mentions \subseteq Ents \X Docs
      /\ nodes \in [Ents -> Docs \cup {0}] /\ edges \in [Rels -> Docs \cup {0}]
  BY <1>1, Sweeping
<1>3. edges' \in [Rels -> Docs \cup {0}] /\ \A e \in Rels : edges'[e] = IF e \in sweep.cut THEN 0 ELSE edges[e]
  BY <1>1, <1>2, OffRow DEF Graph!Without
<1>4. sweep.cut \cap Graph!DefRef = {}
  BY <1>1, <1>2 DEF SweepReads
<1>5. (\A e \in Graph!DefRef : edges'[e] = edges[e]) /\ edges'[Graph!Related] \in {0, edges[Graph!Related]}
  BY <1>3, <1>4, EdgeFacts
<1>6. /\ sweep' \in SweepRow /\ sweep'.at = "deleteNodes" /\ sweep'.chunks = sweep.chunks /\ sweep'.mentioned = sweep.mentioned
      /\ sweep'.nodes = sweep.nodes /\ sweep'.orphans = sweep.orphans /\ sweep'.cut = sweep.cut
  BY <1>1, <1>2 DEF SweepRow
<1>7. SweepFramed
  <2>1. ~met' => \A w \in GraphWriters : hand[w].at \in Unwritten
    BY <1>1, <1>2 DEF SweepReads
  <2> QED
    BY <1>1, <1>2, <1>3, <1>5, <1>6, <2>1 DEF SweepFramed
<1>8. SweepFit'
  <2>1. Graph!Present' = Graph!Present
    BY <1>1 DEF Graph!Present
  <2>2. edges'[Graph!Related] # 0 => Graph!Related \notin sweep.cut /\ edges[Graph!Related] # 0
    BY <1>3, EdgeFacts
  <2>3. SweepReads'
    BY <1>1, <1>2, <1>5, <1>6, <2>1, <2>2 DEF SweepReads
  <2> QED
    BY <2>3 DEF SweepFit
<1>9. SweptFit'
  BY <1>1, <1>2, <1>5, OffRow DEF SweptFit, Graph!GcComplete, Graph!Present, Graph!MentionedBy
<1> QED
  BY <1>7, <1>8, <1>9, SweepHolds

LEMMA DeleteOrphanNodesKeeps == ASSUME GraphInv, Graph!DeleteOrphanNodes PROVE GraphInv'
<1>1. /\ sweep.at = "deleteNodes" /\ nodes' = Graph!Without(nodes, sweep.orphans) /\ Graph!Done /\ swept' = ~met
      /\ UNCHANGED <<live, mentions, edges, hand, met, touched>>
  BY DEF Graph!DeleteOrphanNodes, Graph!Stays
<1>2. /\ SweepReads /\ GraphTyped /\ RowsFit /\ sweep \in SweepRow /\ graphLock = "gc"
      /\ \A w \in GraphWriters : graphLock # w /\ "free" # w
      /\ met \in BOOLEAN /\ mentions \subseteq Ents \X Docs
      /\ nodes \in [Ents -> Docs \cup {0}] /\ edges \in [Rels -> Docs \cup {0}]
  BY <1>1, Sweeping
<1>3. nodes' \in [Ents -> Docs \cup {0}] /\ \A n \in Ents : nodes'[n] = IF n \in sweep.orphans THEN 0 ELSE nodes[n]
  BY <1>1, <1>2, OffRow DEF Graph!Without
<1>4. sweep' \in SweepRow /\ sweep'.at = "none" /\ graphLock' = "free"
  BY <1>1, <1>2, Ending
<1>5. /\ mentions \subseteq sweep.mentioned /\ \A m \in sweep.mentioned : m[2] \in sweep.chunks
      /\ ~met => sweep.mentioned = mentions
      /\ \A n \in Graph!Prose : nodes[n] # 0 => n \in sweep.nodes
      /\ \A n \in sweep.orphans : \A m \in sweep.mentioned : m[1] # n
      /\ \A n \in Graph!Prose \cap sweep.nodes : n \in sweep.orphans \/ \E m \in sweep.mentioned : m[1] = n
      /\ ~met => \A e \in Graph!DefRef : edges[e] # 0 => e[1] \notin sweep.orphans /\ e[2] \notin sweep.orphans
      /\ edges[Graph!Related] # 0 => /\ Graph!Prose \cap sweep.orphans = {}
                                     /\ \E d \in sweep.chunks : \A n \in Graph!Prose : <<n, d>> \in sweep.mentioned
      /\ sweep.chunks = Graph!Present
      /\ ~met => \A w \in GraphWriters : hand[w].at \in Unwritten
  BY <1>1, <1>2 DEF SweepReads
<1>6. \A m \in mentions : nodes'[m[1]] = nodes[m[1]]
  <2> SUFFICES ASSUME NEW m \in mentions PROVE nodes'[m[1]] = nodes[m[1]]
    OBVIOUS
  <2>1. m[1] \in Ents /\ m[1] \notin sweep.orphans
    BY <1>2, <1>5
  <2> QED
    BY <1>3, <2>1
<1>7. ~met => \A e \in Graph!DefRef : edges[e] # 0 => nodes'[e[1]] = nodes[e[1]] /\ nodes'[e[2]] = nodes[e[2]]
  <2> SUFFICES ASSUME ~met, NEW e \in Graph!DefRef, edges[e] # 0 PROVE nodes'[e[1]] = nodes[e[1]] /\ nodes'[e[2]] = nodes[e[2]]
    OBVIOUS
  <2>1. e[1] \in Ents /\ e[2] \in Ents /\ e[1] \notin sweep.orphans /\ e[2] \notin sweep.orphans
    BY <1>5, EdgeFacts
  <2> QED
    BY <1>3, <2>1
<1>8. edges[Graph!Related] # 0 => \A n \in Graph!Prose : nodes'[n] = nodes[n]
  BY <1>3, <1>5, EntityFacts
<1>9. SweepFramed
  BY <1>1, <1>2, <1>3, <1>4, <1>5, <1>6, <1>7, <1>8 DEF SweepFramed
<1>10. SweptFit'
  <2> SUFFICES ASSUME ~met PROVE Graph!GcComplete'
    BY <1>1, <1>2, <1>4 DEF SweptFit, Graph!GcComplete
  <2>1. Graph!Present' = Graph!Present
    BY <1>1 DEF Graph!Present
  <2>2. ASSUME NEW n \in Graph!Prose, nodes'[n] # 0 PROVE \E d \in Graph!Present : <<n, d>> \in mentions
    <3>1. nodes[n] # 0 /\ n \notin sweep.orphans
      BY <1>3, <2>2, EntityFacts
    <3>2. PICK m \in mentions : m[1] = n
      BY <1>5, <3>1
    <3>3. m[2] \in Graph!Present /\ m \in Ents \X Docs
      BY <1>2, <1>5
    <3>4. m = <<n, m[2]>>
      BY <3>2, <3>3
    <3> QED
      BY <3>3, <3>4
  <2>3. ASSUME edges[Graph!Related] # 0 PROVE \E d \in Graph!Present : Graph!Prose \subseteq Graph!MentionedBy(d)'
    <3>1. PICK d \in Graph!Present : \A n \in Graph!Prose : <<n, d>> \in mentions
      BY <1>5, <2>3
    <3>2. ASSUME NEW n \in Graph!Prose PROVE n \in Graph!MentionedBy(d)'
      <4>1. <<n, d>> \in mentions' /\ <<n, d>>[1] = n /\ <<n, d>>[2] = d
        BY <1>1, <3>1
      <4> QED
        BY <4>1 DEF Graph!MentionedBy
    <3> QED
      BY <3>2
  <2> QED
    BY <1>1, <2>1, <2>2, <2>3, OffRow DEF Graph!GcComplete
<1> QED
  BY <1>4, <1>9, <1>10, SweepHolds DEF SweepFit

-----------------------------------------------------------------------------
LEMMA LastIn ==
  ASSUME NEW ds \in SUBSET Docs
  PROVE  Graph!LastOf(ds) \in Docs \cup {0} /\ (ds # {} <=> Graph!LastOf(ds) # 0)
<1>1. CASE ds = {}
  BY <1>1, OffRow DEF Graph!LastOf
<1>2. CASE ds # {}
  <2>1. \E d \in ds : \A e \in ds : e <= d
    BY <1>2, GraphFits
  <2>2. Graph!LastOf(ds) \in ds
    BY <1>2, <2>1 DEF Graph!LastOf
  <2> QED
    BY <1>2, <2>2, GraphFits
<1> QED
  BY <1>1, <1>2

\* The documents of the first state: the first of them has little in it.
StartRich(old) == {d \in old : ~Graph!First(d)}
StartLive(old) == [d \in Docs |-> IF d \in StartRich(old) THEN Graph!Rich ELSE IF d \in old THEN Graph!Thin(d) ELSE Graph!Absent]

LEMMA StartContents ==
  ASSUME NEW old \in SUBSET Docs, live = StartLive(old)
  PROVE  /\ live \in [Docs -> DocContents] /\ \A d \in Docs : live[d] # Graph!Absent <=> d \in old
         /\ \A d \in Docs : live[d].refs => d \in StartRich(old)
         /\ \A d \in old : Graph!First(d) => <<"b", 0>> \notin live[d].prose
<1>1. /\ Graph!Rich \in DocContents /\ Graph!Rich # Graph!Absent
      /\ \A d : /\ Graph!Thin(d) \in DocContents /\ Graph!Thin(d) # Graph!Absent /\ ~Graph!Thin(d).refs
                /\ Graph!First(d) => <<"b", 0>> \notin Graph!Thin(d).prose
  BY DEF Graph!Rich, Graph!Thin, Graph!Absent, DocContents, Graph!Prose
<1>2. ASSUME NEW d \in Docs
      PROVE  /\ live[d] \in DocContents /\ (live[d] # Graph!Absent <=> d \in old) /\ (live[d].refs => d \in StartRich(old))
             /\ (d \in old /\ Graph!First(d)) => <<"b", 0>> \notin live[d].prose
  <2>1. live[d] = IF d \in StartRich(old) THEN Graph!Rich ELSE IF d \in old THEN Graph!Thin(d) ELSE Graph!Absent
    BY DEF StartLive
  <2>2. d \in StartRich(old) <=> d \in old /\ ~Graph!First(d)
    BY DEF StartRich
  <2>3. CASE d \in StartRich(old)
    BY <1>1, <2>1, <2>2, <2>3
  <2>4. CASE d \in old \ StartRich(old)
    BY <1>1, <2>1, <2>4
  <2>5. CASE d \notin old
    BY <1>1, <2>1, <2>2, <2>5, OffRow
  <2> QED
    BY <2>3, <2>4, <2>5
<1>3. live \in [Docs -> DocContents]
  BY <1>2 DEF StartLive
<1> QED
  BY <1>2, <1>3

\* What the chunk of a document mentions when nothing is degraded.
Said(d) == Graph!ProseNodes(d, live[d], FALSE)

LEMMA GraphStarts == Graph!GraphInit => GraphInv
<1> SUFFICES ASSUME Graph!GraphInit PROVE GraphInv
  OBVIOUS
<1>0. /\ hand = [w \in GraphWriters |-> Graph!Off] /\ sweep = Graph!NoSweep
      /\ graphLock = "free" /\ touched = {} /\ met = FALSE /\ swept = FALSE
  BY DEF Graph!GraphInit
<1>1. PICK old \in SUBSET Docs :
        /\ live = StartLive(old)
        /\ mentions = UNION {Said(d) \X {d} : d \in old}
        /\ nodes = [n \in Ents |-> IF n \in Graph!Prose THEN Graph!LastOf(Graph!Told(old, n))
                                   ELSE IF n[2] \in (IF n[1] = "import" THEN StartRich(old) ELSE old) THEN n[2] ELSE Graph!None]
        /\ edges = [e \in Rels |-> IF e = Graph!Related THEN Graph!LastOf(StartRich(old))
                                   ELSE IF e[1][2] \in (IF e \in Graph!Inferred \/ e[2][1] = "import" THEN StartRich(old) ELSE old)
                                           /\ (e \in Graph!Inferred => e[2][2] \in {d \in old : d < e[1][2]})
                                        THEN e[1][2] ELSE Graph!None]
  BY Zenon DEF Graph!GraphInit, StartLive, StartRich, Ents, Rels, Said
<1>2. /\ live \in [Docs -> DocContents] /\ \A d \in Docs : live[d] # Graph!Absent <=> d \in old
      /\ \A d \in Docs : live[d].refs => d \in StartRich(old)
      /\ \A d \in old : Graph!First(d) => <<"b", 0>> \notin live[d].prose
  BY <1>1, StartContents
<1>3. StartRich(old) \in SUBSET Docs /\ StartRich(old) \subseteq old /\ \A n : Graph!Told(old, n) \in SUBSET Docs
  BY DEF StartRich, Graph!Told
<1>4. \A d \in old : Said(d) = Graph!Own(d) \cup live[d].prose
  BY DEF Said, Graph!ProseNodes
<1>5. /\ \A m \in mentions : \E d \in old : \E n \in Said(d) : m = <<n, d>>
      /\ \A d \in old : \A n \in Said(d) : <<n, d>> \in mentions
  <2>1. \A m : m \in mentions <=> \E d \in old : m \in Said(d) \X {d}
    BY <1>1
  <2> QED
    BY <2>1
<1>6. ASSUME NEW d \in old
      PROVE  /\ Said(d) \subseteq Ents
             /\ \A n \in Said(d) : n \in live[d].prose \/ (d \in CodeDocs /\ n = Graph!Symbol(d))
             /\ live[d].prose \subseteq Graph!Prose
  <2>1. live[d].prose \subseteq Graph!Prose
    BY <1>2 DEF DocContents
  <2>2. \A n \in Graph!Own(d) : d \in CodeDocs /\ n = Graph!Symbol(d)
    BY DEF Graph!Own
  <2>3. \A n \in Said(d) : n \in live[d].prose \/ (d \in CodeDocs /\ n = Graph!Symbol(d))
    BY <1>4, <2>2
  <2>4. Said(d) \subseteq Ents
    BY <2>1, <2>3, EntityFacts
  <2> QED
    BY <2>1, <2>3, <2>4
<1>7. mentions \subseteq Ents \X Docs
  <2> SUFFICES ASSUME NEW m \in mentions PROVE m \in Ents \X Docs
    OBVIOUS
  <2>1. PICK d \in old : \E n \in Said(d) : m = <<n, d>>
    BY <1>5
  <2> QED
    BY <1>6, <2>1
<1>8. \A n \in Ents : nodes[n] = IF n \in Graph!Prose THEN Graph!LastOf(Graph!Told(old, n))
                                 ELSE IF n[2] \in (IF n[1] = "import" THEN StartRich(old) ELSE old) THEN n[2] ELSE 0
  BY <1>1, OffRow
<1>9. \A e \in Graph!DefRef : edges[e] = IF e[1][2] \in (IF e \in Graph!Inferred \/ e[2][1] = "import" THEN StartRich(old) ELSE old)
                                            /\ (e \in Graph!Inferred => e[2][2] \in {d \in old : d < e[1][2]})
                                         THEN e[1][2] ELSE 0
  BY <1>1, EdgeFacts, OffRow
<1>10. edges[Graph!Related] = Graph!LastOf(StartRich(old))
  BY <1>1, EdgeFacts
<1>11. nodes \in [Ents -> Docs \cup {0}]
  <2>1. \A n \in Ents : nodes[n] \in Docs \cup {0}
    BY <1>3, <1>8, LastIn
  <2> QED
    BY <1>1, <2>1
<1>12. edges \in [Rels -> Docs \cup {0}]
  <2>1. \A e \in Graph!DefRef : edges[e] \in Docs \cup {0}
    BY <1>3, <1>9
  <2>2. edges[Graph!Related] \in Docs \cup {0}
    BY <1>3, <1>10, LastIn
  <2>3. \A e \in Rels : edges[e] \in Docs \cup {0}
    BY <2>1, <2>2, EdgeFacts
  <2> QED
    BY <1>1, <2>3
<1>13. GraphTyped
  BY <1>0, <1>2, <1>7, <1>11, <1>12, OffRow, NoSweepRow DEF GraphTyped
<1>14. RowsFit
  <2>1. RowsOwn
    <3>1. \A m \in mentions : m[1] \in Graph!Prose \/ (m[2] \in CodeDocs /\ m[1] = Graph!Symbol(m[2]))
      <4> SUFFICES ASSUME NEW m \in mentions PROVE m[1] \in Graph!Prose \/ (m[2] \in CodeDocs /\ m[1] = Graph!Symbol(m[2]))
        OBVIOUS
      <4>1. PICK d \in old : \E n \in Said(d) : m = <<n, d>>
        BY <1>5
      <4>2. m[2] = d /\ m[1] \in Said(d)
        BY <4>1
      <4> QED
        BY <1>6, <4>2
    <3> QED
      BY <1>8, <1>9, <3>1 DEF RowsOwn
  <2>2. ProseHeld
    <3> SUFFICES ASSUME NEW m \in mentions, m[1] \in Graph!Prose PROVE nodes[m[1]] # 0
      BY DEF ProseHeld
    <3>0. PICK d \in old : \E n \in Said(d) : m = <<n, d>>
      BY <1>5
    <3>1. m[1] \in Said(d) /\ m[2] = d
      BY <3>0
    <3>2. m[1] \in live[d].prose
      <4>1. d \in CodeDocs => m[1] # Graph!Symbol(d)
        BY EntityFacts
      <4> QED
        BY <1>6, <3>1, <4>1
    <3>3. d \in Graph!Told(old, m[1])
      BY <1>2, <3>1, <3>2 DEF Graph!Told
    <3>4. Graph!LastOf(Graph!Told(old, m[1])) # 0
      BY <1>3, <3>3, LastIn
    <3> QED
      BY <1>8, <3>4, EntityFacts
  <2>3. Graph!RelatedHasEnds
    <3> SUFFICES ASSUME edges[Graph!Related] # 0, NEW n \in Graph!Prose PROVE nodes[n] # 0
      BY OffRow DEF Graph!RelatedHasEnds
    <3>1. PICK d \in StartRich(old) : TRUE
      BY <1>3, <1>10, LastIn
    <3>2. d \in Graph!Told(old, n)
      BY <3>1 DEF StartRich, Graph!Told
    <3>3. Graph!LastOf(Graph!Told(old, n)) # 0
      BY <1>3, <3>2, LastIn
    <3> QED
      BY <1>8, <3>3, EntityFacts
  <2> QED
    BY <2>1, <2>2, <2>3 DEF RowsFit
<1>15. OneWriter /\ SweepFit /\ SweptFit
  BY <1>0, OffRow, NoSweepRow, GraphFits DEF OneWriter, SweepFit, SweptFit, Graph!GcComplete
<1>16. ASSUME NEW w \in GraphWriters PROVE HandFit(w) /\ PhaseFit(w)
  <2>1. hand[w] = Graph!Off /\ graphLock # w
    BY <1>0, GraphFits
  <2> QED
    BY <2>1, OffRow DEF HandFit, PhaseFit, DefPass, Passing, Locked
<1>17. ASSUME NEW d \in Docs PROVE DocSettled(d)
  <2>1. CASE d \notin old
    <3>1. live[d] = Graph!Absent
      BY <1>2, <2>1
    <3>2. Graph!MentionedBy(d) = {}
      <4>1. \A m \in mentions : m[2] # d
        BY <1>5, <2>1
      <4> QED
        BY <4>1 DEF Graph!MentionedBy
    <3> QED
      BY <3>1, <3>2 DEF DocSettled
  <2>2. CASE d \in old
    <3>1. live[d] # Graph!Absent /\ d # 0
      BY <1>2, <2>2, GraphFits
    <3>2. Graph!MentionedBy(d) = Said(d)
      <4>1. \A n : n \in Graph!MentionedBy(d) <=> \E m \in mentions : m[2] = d /\ m[1] = n
        BY DEF Graph!MentionedBy
      <4>2. ASSUME NEW n \in Said(d) PROVE \E m \in mentions : m[2] = d /\ m[1] = n
        <5>1. <<n, d>> \in mentions
          BY <1>5, <2>2, <4>2
        <5> QED
          BY <5>1
      <4>3. ASSUME NEW m \in mentions, m[2] = d PROVE m[1] \in Said(d)
        <5>1. PICK c \in old : \E n \in Said(c) : m = <<n, c>>
          BY <1>5, <4>3
        <5>2. c = d /\ m[1] \in Said(c)
          BY <4>3, <5>1
        <5> QED
          BY <5>2
      <4> QED
        BY <4>1, <4>2, <4>3
    <3>3. ASSUME d \in CodeDocs
          PROVE  /\ nodes[Graph!Symbol(d)] # 0 /\ \A n \in Graph!DefNodes(d, live[d], TRUE) : nodes[n] # 0
                 /\ \A e \in FileEdges(d, live[d]) : edges[e] # 0
      <4>1. nodes[Graph!Symbol(d)] = d /\ nodes[Mod(d)] = d
        <5>1. Graph!Symbol(d)[1] # "import" /\ Mod(d)[1] # "import"
          BY DEF Graph!Symbol, Mod
        <5> QED
          BY <1>8, <2>2, <3>3, <5>1, EntityFacts
      <4>2. live[d].refs => nodes[Graph!Import(d)] = d
        <5>1. Graph!Import(d)[1] = "import"
          BY DEF Graph!Import
        <5> QED
          BY <1>2, <1>8, <3>3, <5>1, EntityFacts
      <4>3. \A e \in {Graph!Defines(d), Graph!ImportEdge(d)} : e \notin Graph!Inferred /\ e \in Graph!DefRef /\ e[1][2] = d
        <5>1. \A e \in Graph!Inferred : e[1][1] = "symbol"
          BY DEF Graph!Inferred, Graph!Calls, Graph!Symbol
        <5>2. Graph!Defines(d)[1][1] = "module" /\ Graph!ImportEdge(d)[1][1] = "module"
          BY DEF Graph!Defines, Graph!ImportEdge
        <5> QED
          BY <3>3, <5>1, <5>2, EdgeFacts, EntityFacts
      <4>4. Graph!Defines(d)[2][1] # "import" /\ Graph!ImportEdge(d)[2][1] = "import"
        BY DEF Graph!Defines, Graph!ImportEdge, Graph!Symbol, Graph!Import
      <4>5. edges[Graph!Defines(d)] = d /\ (live[d].refs => edges[Graph!ImportEdge(d)] = d)
        BY <1>2, <1>9, <2>2, <4>3, <4>4
      <4>6. Graph!DefNodes(d, live[d], TRUE) = {Mod(d), Graph!Symbol(d)} \cup IF live[d].refs THEN {Graph!Import(d)} ELSE {}
        BY DEF Graph!DefNodes, Mod
      <4> QED
        BY <3>1, <4>1, <4>2, <4>5, <4>6 DEF FileEdges
    <3> QED
      BY <3>1, <3>2, <3>3 DEF DocSettled, Said
  <2> QED
    BY <2>1, <2>2
<1> QED
  BY <1>13, <1>14, <1>15, <1>16, <1>17 DEF GraphInv, SettledFit

LEMMA GraphStep == ASSUME GraphInv, Graph!GraphNext PROVE GraphInv'
  BY BeginKeeps, ChunksKeep, LockKeeps, WriteNodesKeeps, WriteEdgesKeeps, DeleteMentionsKeeps,
     WriteMentionsKeeps, ExtractKeeps, CutEdgesKeeps, CutNodesKeeps, CutProseKeeps, WriteDefNodesKeeps, WriteDefEdgesKeeps,
     FailsKeeps, BeginGcKeeps, PruneKeeps, ReadNodesKeeps, ReadEdgesKeeps, DeleteOrphanEdgesKeeps, DeleteOrphanNodesKeeps,
     GcFailsKeeps DEF Graph!GraphNext

LEMMA GraphStill == ASSUME GraphInv, UNCHANGED graphVars PROVE GraphInv'
<1>1. UNCHANGED <<live, mentions, nodes, edges, hand, sweep, graphLock, touched, met, swept>>
  BY DEF graphVars
<1>2. GraphTyped' /\ RowsFit' /\ OneWriter' /\ SweptFit'
  BY <1>1, RowsStill DEF GraphInv, GraphTyped, OneWriter, SweptFit, Graph!GcComplete, Graph!Present, Graph!MentionedBy
<1>3. SweepFit'
  BY <1>1 DEF GraphInv, SweepFit, SweepReads, Graph!Present
<1>4. ASSUME NEW w \in GraphWriters PROVE HandFit(w)' /\ PhaseFit(w)'
  <2>1. HandFit(w)'
    BY <1>1 DEF GraphInv, HandFit, DefPass, ProseOf
  <2>2. PhaseFit(w)'
    BY <1>1 DEF GraphInv, PhaseFit, Phase, DefPass, Graph!MentionedBy, Graph!ProseNodes, Graph!DefNodes, FileEdges
  <2> QED
    BY <2>1, <2>2
<1>5. ASSUME NEW d \in Docs PROVE SettledFit(d)'
  BY <1>1 DEF GraphInv, SettledFit, Graph!Settled, DocSettled, Graph!MentionedBy, Graph!ProseNodes, Graph!DefNodes, FileEdges
<1> QED
  BY <1>2, <1>3, <1>4, <1>5 DEF GraphInv

LEMMA GraphGood ==
  ASSUME GraphInv
  PROVE  /\ Graph!GraphTypeOK /\ Graph!MentionHasNode /\ Graph!MentionsFollow /\ Graph!RelatedHasEnds /\ Graph!DefRefKept
         /\ Graph!GcComplete
<1>1. Graph!GraphTypeOK
  BY OffRow DEF GraphInv, GraphTyped, Graph!GraphTypeOK, Ents, Rels
<1>2. Graph!MentionHasNode
  <2> SUFFICES ASSUME NEW m \in mentions, Graph!Settled(m[2]), live[m[2]] # Graph!Absent PROVE nodes[m[1]] # 0
    BY OffRow DEF Graph!MentionHasNode
  <2>1. m[2] \in Docs
    BY DEF GraphInv, GraphTyped
  <2>2. DocSettled(m[2])
    BY <2>1 DEF GraphInv, SettledFit
  <2>3. m[1] \in Graph!Prose \/ (m[2] \in CodeDocs /\ m[1] = Graph!Symbol(m[2]))
    BY DEF GraphInv, RowsFit, RowsOwn
  <2>4. m[1] \in Graph!Prose => nodes[m[1]] # 0
    BY DEF GraphInv, RowsFit, ProseHeld
  <2> QED
    BY <2>2, <2>3, <2>4 DEF DocSettled
<1>3. Graph!MentionsFollow
  BY DEF GraphInv, SettledFit, DocSettled, Graph!MentionsFollow
<1>4. Graph!DefRefKept
  <2> SUFFICES ASSUME ~met, NEW d \in CodeDocs, Graph!Settled(d), live[d] # Graph!Absent
               PROVE  /\ \A n \in Graph!DefNodes(d, live[d], TRUE) : nodes[n] # 0
                      /\ edges[Graph!Defines(d)] # 0 /\ (live[d].refs => edges[Graph!ImportEdge(d)] # 0)
    BY OffRow DEF Graph!DefRefKept
  <2>1. DocSettled(d)
    BY GraphFits DEF GraphInv, SettledFit
  <2> QED
    BY <2>1 DEF DocSettled, FileEdges
<1> QED
  BY <1>1, <1>2, <1>3, <1>4 DEF GraphInv, RowsFit, SweptFit

\* GraphWhole, for any documents, code files, writers, faults and garbage collections: whatever writers and collections cross,
\* the mentions of a document that was written without a fault and alone are those of its last ingest (MentionsFollow) and
\* have their nodes (MentionHasNode), a relation has its ends (RelatedHasEnds), its def/ref rows are there unless a
\* collection ran during a def/ref pass or a clean-up (DefRefKept), and a collection that nothing crossed leaves nothing
\* that no chunk supports (GcComplete).
THEOREM GraphIsWhole == DocumentsSpec => []GraphWhole
<1> DEFINE Inv == part = "graph" => GraphInv
<1>1. DocumentsInit => Inv
  BY GraphStarts, Zenon DEF DocumentsInit
<1>2. [DocumentsNext]_allVars => part' = part /\ (Graph!GraphNext \/ UNCHANGED graphVars)
  BY Zenon DEF DocumentsNext, allVars
<1>3. Inv /\ [DocumentsNext]_allVars => Inv'
  BY <1>2, GraphStep, GraphStill
<1>4. Inv => GraphWhole
  BY GraphGood DEF GraphWhole
<1> QED
  BY <1>1, <1>3, <1>4, PTL DEF DocumentsSpec

-----------------------------------------------------------------------------
(***************************************************************************)
(* ChunkCounts.  While the table's lock is free a row that asks for no     *)
(* recompute is right, and while a writer holds it the row is off by what  *)
(* that writer has changed (CountKept), unless the row has been off since  *)
(* the last recompute that nothing crossed (Clean).  A recompute may write *)
(* what it scanned, and makes up for all that, because whatever changed    *)
(* the table since it read the row moved the counter or the flag, or was   *)
(* met (SeenFit, ScansFit).                                                *)
(***************************************************************************)
TallyRow == [there : BOOLEAN, chunks : Nat, docs : Nat, sum : BOOLEAN, mutations : Nat, needs : BOOLEAN]
CountPlaces == {"none", "delete", "prune", "subtract", "add", "count", "settle", "read", "vectors", "documents", "write"}
WriterRow == [at : CountPlaces, kind : {"none"} \cup Kinds, doc : {0} \cup Documents, cut : Nat, batch : {1, 2},
              claimed : BOOLEAN, needs : BOOLEAN, seen : TallyRow, chunks : Nat, docs : Nat, met : BOOLEAN]
CountTyped == /\ held \in [Documents -> Nat] /\ tally \in TallyRow /\ writer \in [Writers -> WriterRow]
              /\ tableLock \in {0} \cup Writers
              /\ torn \in BOOLEAN /\ crossed \in BOOLEAN /\ lagging \in BOOLEAN /\ contested \in BOOLEAN

\* Who is between its rows and its counts holds the lock.
Locking == {"subtract", "count"}
LockFits == \A w \in Writers : writer[w].at \in Locking <=> tableLock = w

\* Which rows of a writer's own go with its place.
Scans == {"vectors", "documents", "write"}
PlaceFit(r) ==
  /\ r.at \in {"delete", "prune", "subtract", "add", "count", "settle"} => r.doc \in Documents
  /\ r.at \in {"none", "read"} \cup Scans => r.doc = 0
  /\ r.at \in {"delete", "subtract"} => r.batch = 1
  /\ r.at = "prune" => r.kind = "prune"
  /\ r.at = "subtract" => r.cut > 0
PlacesFits == \A w \in Writers : PlaceFit(writer[w])

\* Without a row there is nothing; a claim makes the row that its first batch is counted into.
Claim == [Counts!NoTally EXCEPT !.there = TRUE, !.needs = TRUE]
NothingYet == ~tally.there => /\ tally = Counts!NoTally /\ tableLock = 0
                              /\ \A d \in Documents : held[d] = 0
                              /\ \A w \in Writers : writer[w].at = "add" => writer[w].batch = 1

Clean == ~torn /\ ~crossed /\ ~lagging
ClaimFit(r) == (r.at = "count" /\ r.claimed) =>
                 r.batch = 1 /\ tally = Claim /\ (Clean => Counts!Total = 1 /\ Counts!Stored = 1)
ClaimsFit == \A w \in Writers : ClaimFit(writer[w])

\* Documents in one hand: which of their rows are there.
HandHas(r) == /\ r.at = "subtract" => held[r.doc] = 0
              /\ r.at = "add" => (held[r.doc] = 0 <=> r.batch = 1)
              /\ r.at = "count" => held[r.doc] > 0
HandsFit == ~contested => /\ \A w \in Writers : HandHas(writer[w])
                          /\ \A v, w \in Writers : v # w /\ writer[v].doc # 0 => writer[v].doc # writer[w].doc

\* The counter and the flag only rise under a scan that met nothing.
NoLater(s, t) == s.mutations < t.mutations \/ (s.mutations = t.mutations /\ (s.needs => t.needs))
Unmoved(r) == ~r.met /\ tally.mutations = r.seen.mutations /\ tally.needs = r.seen.needs
SeenFit == \A w \in Writers : (writer[w].at \in Scans /\ ~writer[w].met) => NoLater(writer[w].seen, tally)

ScanRowFit(r) ==
  /\ (r.at \in {"documents", "write"} /\ Unmoved(r)) => r.chunks = Counts!Total
  /\ (r.at = "write" /\ Unmoved(r)) => r.docs = Counts!Stored
ScansFit == tableLock = 0 => \A w \in Writers : ScanRowFit(writer[w])

\* A row as the last recompute left it.
ResetKept == (Clean /\ tableLock = 0 /\ tally.there /\ ~tally.needs /\ tally.mutations = 0) => Counts!Right

\* A row that was kept from batch to batch.
NewDoc(r) == IF r.batch = 1 THEN 1 ELSE 0
CountKept ==
  (Clean /\ ~contested /\ tally.there /\ ~tally.needs) =>
    /\ tally.sum <=> tally.chunks > 0
    /\ tableLock = 0 => Counts!Right
    /\ \A w \in Writers :
         /\ writer[w].at = "count" => tally.chunks + 1 = Counts!Total /\ tally.docs + NewDoc(writer[w]) = Counts!Stored
         /\ writer[w].at = "subtract" => tally.chunks = Counts!Total + writer[w].cut /\ tally.docs = Counts!Stored + 1

CountInv == /\ CountTyped /\ LockFits /\ PlacesFits /\ NothingYet /\ ClaimsFit /\ HandsFit /\ SeenFit
            /\ ScansFit /\ ResetKept /\ CountKept

\* The table's rows, counted.
RowsOf(f) == UNION {{d} \X (1..f[d]) : d \in Documents}
DocsOf(f) == {d \in Documents : f[d] > 0}

LEMMA CountsCount == \A S : Counts!Cardinality(S) = Cardinality(S)
  BY DEF Counts!Cardinality, Cardinality, Counts!IsFiniteSet, IsFiniteSet

LEMMA TotalIs == /\ Counts!Total = Cardinality(RowsOf(held)) /\ Counts!Stored = Cardinality(DocsOf(held))
                 /\ Counts!Total' = Cardinality(RowsOf(held')) /\ Counts!Stored' = Cardinality(DocsOf(held'))
<1>1. Counts!Total = Cardinality(RowsOf(held)) /\ Counts!Stored = Cardinality(DocsOf(held))
  BY CountsCount DEF Counts!Total, Counts!Rows, Counts!Stored, RowsOf, DocsOf
<1>2. Counts!Total' = Cardinality(RowsOf(held')) /\ Counts!Stored' = Cardinality(DocsOf(held'))
  BY CountsCount DEF Counts!Total, Counts!Rows, Counts!Stored, RowsOf, DocsOf
<1> QED
  BY <1>1, <1>2

LEMMA RowsIn == ASSUME NEW f, NEW x PROVE x \in RowsOf(f) <=> \E d \in Documents : \E i \in 1..f[d] : x = <<d, i>>
<1>1. \A d : x \in {d} \X (1..f[d]) <=> \E i \in 1..f[d] : x = <<d, i>>
  OBVIOUS
<1>2. x \in RowsOf(f) <=> \E d \in Documents : x \in {d} \X (1..f[d])
  BY DEF RowsOf
<1> QED
  BY <1>1, <1>2

LEMMA OneDocument ==
  ASSUME NEW d, NEW n \in Nat
  PROVE  IsFiniteSet({d} \X (1..n)) /\ Cardinality({d} \X (1..n)) = n
<1>1. IsFiniteSet({d}) /\ Cardinality({d}) = 1
  BY FS_Singleton
<1>2. IsFiniteSet(1..n) /\ Cardinality(1..n) = n
  BY FS_Interval
<1>3. IsFiniteSet({d} \X (1..n)) /\ Cardinality({d} \X (1..n)) = Cardinality({d}) * Cardinality(1..n)
  BY <1>1, <1>2, FS_Product, Zenon
<1> QED
  BY <1>1, <1>2, <1>3

LEMMA RowsFinite ==
  ASSUME NEW f \in [Documents -> Nat]
  PROVE  /\ IsFiniteSet(RowsOf(f)) /\ Cardinality(RowsOf(f)) \in Nat
         /\ IsFiniteSet(DocsOf(f)) /\ Cardinality(DocsOf(f)) \in Nat
<1>1. IsFiniteSet(RowsOf(f))
  <2> DEFINE S == {{d} \X (1..f[d]) : d \in Documents}
             g == [d \in Documents |-> {d} \X (1..f[d])]
  <2>1. g \in Surjection(Documents, S)
    BY DEF Surjection
  <2>2. IsFiniteSet(S)
    BY <2>1, FS_Surjection, CountsFit
  <2>3. ASSUME NEW T \in S PROVE IsFiniteSet(T)
    <3>1. PICK d \in Documents : T = {d} \X (1..f[d])
      OBVIOUS
    <3>2. f[d] \in Nat
      OBVIOUS
    <3> QED
      BY <3>1, <3>2, OneDocument
  <2> QED
    BY <2>2, <2>3, FS_UNION DEF RowsOf
<1>2. IsFiniteSet(DocsOf(f))
  BY FS_Subset, CountsFit DEF DocsOf
<1> QED
  BY <1>1, <1>2, FS_CardinalityType

\* One row more.
LEMMA RowsMore ==
  ASSUME NEW f \in [Documents -> Nat], NEW d \in Documents, NEW g \in [Documents -> Nat],
         g[d] = f[d] + 1, \A e \in Documents : e # d => g[e] = f[e]
  PROVE  /\ Cardinality(RowsOf(g)) = Cardinality(RowsOf(f)) + 1
         /\ Cardinality(DocsOf(g)) = Cardinality(DocsOf(f)) + (IF f[d] = 0 THEN 1 ELSE 0)
<1>1. g[d] = f[d] + 1 /\ \A e \in Documents : e # d => g[e] = f[e]
  OBVIOUS
<1>2. 1..g[d] = 1..f[d] \cup {f[d] + 1} /\ f[d] + 1 \notin 1..f[d] /\ f[d] \in Nat
  BY <1>1
<1>3. RowsOf(g) = RowsOf(f) \cup {<<d, f[d] + 1>>}
  <2>1. ASSUME NEW x \in RowsOf(g) PROVE x \in RowsOf(f) \cup {<<d, f[d] + 1>>}
    <3>1. PICK e \in Documents : \E i \in 1..g[e] : x = <<e, i>>
      BY RowsIn
    <3>2. PICK i \in 1..g[e] : x = <<e, i>>
      BY <3>1
    <3>3. (e = d /\ i = f[d] + 1) \/ i \in 1..f[e]
      BY <1>1, <1>2
    <3> QED
      BY <3>2, <3>3, RowsIn
  <2>2. ASSUME NEW x \in RowsOf(f) PROVE x \in RowsOf(g)
    <3>1. PICK e \in Documents : \E i \in 1..f[e] : x = <<e, i>>
      BY RowsIn
    <3>2. 1..f[e] \subseteq 1..g[e]
      BY <1>1, <1>2
    <3> QED
      BY <3>1, <3>2, RowsIn
  <2>3. <<d, f[d] + 1>> \in RowsOf(g)
    <3>1. f[d] + 1 \in 1..g[d]
      BY <1>2
    <3> QED
      BY <3>1, RowsIn
  <2> QED
    BY <2>1, <2>2, <2>3
<1>4. <<d, f[d] + 1>> \notin RowsOf(f)
  <2> SUFFICES ASSUME <<d, f[d] + 1>> \in RowsOf(f) PROVE FALSE
    OBVIOUS
  <2>1. PICK e \in Documents : \E i \in 1..f[e] : <<d, f[d] + 1>> = <<e, i>>
    BY RowsIn
  <2> QED
    BY <2>1, <1>2
<1>9. IsFiniteSet(RowsOf(f)) /\ IsFiniteSet(DocsOf(f))
  BY RowsFinite
<1>5. Cardinality(RowsOf(g)) = Cardinality(RowsOf(f)) + 1
  <2>1. Cardinality(RowsOf(f) \cup {<<d, f[d] + 1>>}) = Cardinality(RowsOf(f)) + 1
    BY <1>4, <1>9, FS_AddElement
  <2> QED
    BY <1>3, <2>1
<1>6. DocsOf(g) = DocsOf(f) \cup {d} /\ (d \in DocsOf(f) <=> f[d] # 0)
  BY <1>1, <1>2 DEF DocsOf
<1>7. CASE f[d] = 0
  <2>1. Cardinality(DocsOf(f) \cup {d}) = Cardinality(DocsOf(f)) + 1
    BY <1>6, <1>7, <1>9, FS_AddElement
  <2> QED
    BY <1>5, <1>6, <1>7, <2>1
<1>8. CASE f[d] # 0
  <2>1. DocsOf(g) = DocsOf(f)
    BY <1>6, <1>8
  <2> QED
    BY <2>1, <1>5, <1>8, RowsFinite
<1> QED
  BY <1>7, <1>8

\* One document less.
LEMMA RowsLess ==
  ASSUME NEW f \in [Documents -> Nat], NEW d \in Documents, NEW g \in [Documents -> Nat],
         f[d] > 0, g[d] = 0, \A e \in Documents : e # d => g[e] = f[e]
  PROVE  /\ Cardinality(RowsOf(f)) = Cardinality(RowsOf(g)) + f[d]
         /\ Cardinality(DocsOf(f)) = Cardinality(DocsOf(g)) + 1
<1>1. g \in [Documents -> Nat] /\ g[d] = 0 /\ \A e \in Documents : e # d => g[e] = f[e]
  OBVIOUS
<1> DEFINE D == {d} \X (1..f[d])
<1>2. RowsOf(f) = RowsOf(g) \cup D
  <2>1. ASSUME NEW x \in RowsOf(f) PROVE x \in RowsOf(g) \cup D
    <3>1. PICK e \in Documents : \E i \in 1..f[e] : x = <<e, i>>
      BY RowsIn
    <3>2. CASE e = d
      BY <3>1, <3>2
    <3>3. CASE e # d
      BY <3>1, <3>3, <1>1, RowsIn
    <3> QED
      BY <3>2, <3>3
  <2>2. ASSUME NEW x \in RowsOf(g) PROVE x \in RowsOf(f)
    <3>1. PICK e \in Documents : \E i \in 1..g[e] : x = <<e, i>>
      BY RowsIn
    <3>2. e # d
      BY <3>1, <1>1
    <3> QED
      BY <3>1, <3>2, <1>1, RowsIn
  <2>3. ASSUME NEW x \in D PROVE x \in RowsOf(f)
    <3>1. PICK i \in 1..f[d] : x = <<d, i>>
      OBVIOUS
    <3> QED
      BY <3>1, RowsIn, Zenon
  <2> QED
    BY <2>1, <2>2, <2>3
<1>3. RowsOf(g) \cap D = {}
  <2> SUFFICES ASSUME NEW x \in RowsOf(g), x \in D PROVE FALSE
    OBVIOUS
  <2>1. PICK e \in Documents : \E i \in 1..g[e] : x = <<e, i>>
    BY RowsIn
  <2>2. e = d
    BY <2>1
  <2> QED
    BY <2>1, <2>2, <1>1
<1>4. IsFiniteSet(D) /\ Cardinality(D) = f[d]
  BY OneDocument
<1>5. Cardinality(RowsOf(f)) = Cardinality(RowsOf(g)) + f[d]
  <2> HIDE DEF D
  <2>1. IsFiniteSet(RowsOf(g)) /\ Cardinality(RowsOf(g)) \in Nat
    BY <1>1, RowsFinite
  <2>3. Cardinality(RowsOf(g) \cap D) = 0 /\ f[d] \in Nat
    BY <1>3, FS_EmptySet
  <2>2. Cardinality(RowsOf(f)) = Cardinality(RowsOf(g)) + Cardinality(D) - Cardinality(RowsOf(g) \cap D)
    BY <2>1, <1>2, <1>4, FS_Union
  <2> QED
    BY <2>1, <2>2, <2>3, <1>4
<1>6. DocsOf(f) = DocsOf(g) \cup {d} /\ d \notin DocsOf(g)
  BY <1>1 DEF DocsOf
<1>7. Cardinality(DocsOf(f)) = Cardinality(DocsOf(g)) + 1
  BY <1>1, <1>6, RowsFinite, FS_AddElement
<1> QED
  BY <1>5, <1>7

LEMMA RowsNone ==
  ASSUME NEW f \in [Documents -> Nat]
  PROVE  /\ (\A d \in Documents : f[d] = 0) => Cardinality(RowsOf(f)) = 0 /\ Cardinality(DocsOf(f)) = 0
         /\ Cardinality(RowsOf(f)) = 0 => Cardinality(DocsOf(f)) = 0
         /\ Cardinality(RowsOf(f)) = 0 => \A d \in Documents : f[d] = 0
<1>1. ASSUME \A d \in Documents : f[d] = 0 PROVE Cardinality(RowsOf(f)) = 0 /\ Cardinality(DocsOf(f)) = 0
  <2>1. RowsOf(f) = {}
    <3> SUFFICES ASSUME NEW x \in RowsOf(f) PROVE FALSE
      OBVIOUS
    <3>1. PICK e \in Documents : \E i \in 1..f[e] : x = <<e, i>>
      BY RowsIn
    <3> QED
      BY <3>1, <1>1
  <2>2. DocsOf(f) = {}
    BY <1>1 DEF DocsOf
  <2> QED
    BY <2>1, <2>2, FS_EmptySet
<1>2. ASSUME Cardinality(RowsOf(f)) = 0 PROVE \A d \in Documents : f[d] = 0
  <2>1. RowsOf(f) = {}
    BY <1>2, RowsFinite, FS_EmptySet
  <2> SUFFICES ASSUME NEW d \in Documents, f[d] # 0 PROVE FALSE
    OBVIOUS
  <2>2. 1 \in 1..f[d]
    OBVIOUS
  <2>3. <<d, 1>> \in RowsOf(f)
    BY <2>2, RowsIn, Zenon
  <2> QED
    BY <2>1, <2>3
<1> QED
  BY <1>1, <1>2

LEMMA CountParts ==
  ASSUME CountInv
  PROVE  /\ CountTyped /\ LockFits /\ PlacesFits /\ NothingYet /\ ClaimsFit /\ HandsFit /\ SeenFit /\ ScansFit /\ ResetKept /\ CountKept
         /\ Counts!Total \in Nat /\ Counts!Stored \in Nat
<1>1. CountTyped /\ LockFits /\ PlacesFits /\ NothingYet /\ ClaimsFit /\ HandsFit /\ SeenFit /\ ScansFit /\ ResetKept /\ CountKept
  BY DEF CountInv
<1>2. Counts!Total \in Nat /\ Counts!Stored \in Nat
  BY <1>1, TotalIs, RowsFinite DEF CountTyped
<1> QED
  BY <1>1, <1>2

LEMMA WriterFacts ==
  ASSUME NEW r \in WriterRow
  PROVE  /\ r.at \in CountPlaces /\ r.kind \in {"none"} \cup Kinds /\ r.doc \in {0} \cup Documents /\ r.cut \in Nat /\ r.batch \in {1, 2}
         /\ r.claimed \in BOOLEAN /\ r.needs \in BOOLEAN /\ r.seen \in TallyRow /\ r.chunks \in Nat /\ r.docs \in Nat /\ r.met \in BOOLEAN
  BY DEF WriterRow

LEMMA TallyFacts ==
  ASSUME NEW t \in TallyRow
  PROVE  /\ t.there \in BOOLEAN /\ t.chunks \in Nat /\ t.docs \in Nat /\ t.sum \in BOOLEAN /\ t.mutations \in Nat /\ t.needs \in BOOLEAN
  BY DEF TallyRow

LEMMA RestingFacts ==
  /\ Counts!NoTally \in TallyRow /\ ~Counts!NoTally.there /\ Counts!NoTally.mutations = 0 /\ ~Counts!NoTally.needs
  /\ Counts!Resting \in WriterRow /\ Counts!Resting.at = "none" /\ Counts!Resting.doc = 0 /\ Counts!Resting.batch = 1
  /\ Counts!Resting.kind = "none"
<1>1. /\ Counts!NoTally \in TallyRow /\ ~Counts!NoTally.there /\ Counts!NoTally.mutations = 0 /\ ~Counts!NoTally.needs
  BY DEF Counts!NoTally, TallyRow
<1>2. /\ Counts!Resting \in WriterRow /\ Counts!Resting.at = "none" /\ Counts!Resting.doc = 0 /\ Counts!Resting.batch = 1
      /\ Counts!Resting.kind = "none"
  BY <1>1 DEF Counts!Resting, WriterRow, CountPlaces
<1> QED
  BY <1>1, <1>2

\* A step of a writer that leaves table, row and lock alone.
LEMMA OwnRowKeeps ==
  ASSUME CountInv, NEW w \in Writers, NEW r \in WriterRow, writer' = [writer EXCEPT ![w] = r],
         UNCHANGED <<held, tally, tableLock, crossed, torn, lagging>>,
         writer[w].at \notin Locking, r.at \notin Locking, PlaceFit(r),
         contested' \in BOOLEAN, contested => contested',
         ~tally.there /\ r.at = "add" => r.batch = 1,
         ~contested' => HandHas(r) /\ (r.doc # 0 => \A v \in Writers \ {w} : writer[v].doc # r.doc),
         r.at \in Scans /\ ~r.met => NoLater(r.seen, tally),
         tableLock = 0 => ScanRowFit(r)
  PROVE  CountInv'
<1>1. /\ writer'[w] = r /\ \A v \in Writers : v # w => writer'[v] = writer[v]
      /\ writer' \in [Writers -> WriterRow]
  BY CountParts DEF CountTyped
<1>2. CountTyped'
  BY <1>1, CountParts DEF CountTyped
<1>3. Clean' => Clean
  BY DEF Clean
<1>4. Counts!Total' = Counts!Total /\ Counts!Stored' = Counts!Stored
  BY TotalIs
<1>6. LockFits' /\ PlacesFits'
  BY <1>1, CountParts DEF LockFits, PlacesFits, PlaceFit
<1>7. NothingYet'
  BY <1>1, CountParts DEF NothingYet, Counts!NoTally
<1>8. ClaimsFit'
  <2> SUFFICES ASSUME NEW v \in Writers, writer'[v].at = "count", writer'[v].claimed
               PROVE  writer'[v].batch = 1 /\ tally' = Claim' /\ (Clean' => Counts!Total' = 1 /\ Counts!Stored' = 1)
    BY DEF ClaimsFit, ClaimFit
  <2>1. v # w /\ writer'[v] = writer[v]
    BY <1>1 DEF Locking
  <2>2. writer[v].batch = 1 /\ tally = Claim /\ (Clean => Counts!Total = 1 /\ Counts!Stored = 1)
    BY <2>1, CountParts DEF ClaimsFit, ClaimFit
  <2> QED
    BY <2>1, <2>2, <1>3, <1>4 DEF Claim, Counts!NoTally
<1>9. HandsFit'
  BY <1>1, CountParts DEF HandsFit, HandHas, CountTyped
<1>10. SeenFit'
  BY <1>1, CountParts DEF SeenFit, NoLater
<1>11. ScansFit'
  <2> SUFFICES ASSUME tableLock' = 0, NEW v \in Writers PROVE ScanRowFit(writer[v])'
    BY DEF ScansFit
  <2>1. CASE v = w
    BY <1>1, <1>4, <2>1 DEF ScanRowFit, Unmoved
  <2>2. CASE v # w
    <3>1. ScanRowFit(writer[v]) /\ writer'[v] = writer[v]
      BY <1>1, <2>2, CountParts DEF ScansFit
    <3> QED
      BY <1>4, <3>1 DEF ScanRowFit, Unmoved
  <2> QED
    BY <2>1, <2>2
<1>12. ResetKept'
  BY <1>3, <1>4, CountParts DEF ResetKept, Counts!Right
<1>13. CountKept'
  <2> SUFFICES ASSUME Clean', ~contested', tally.there, ~tally.needs
               PROVE  /\ tally.sum <=> tally.chunks > 0
                      /\ tableLock = 0 => Counts!Right
                      /\ \A v \in Writers :
                           /\ writer'[v].at = "count" => tally.chunks + 1 = Counts!Total /\ tally.docs + NewDoc(writer'[v]) = Counts!Stored
                           /\ writer'[v].at = "subtract" => tally.chunks = Counts!Total + writer'[v].cut /\ tally.docs = Counts!Stored + 1
    BY <1>4 DEF CountKept, Counts!Right, NewDoc
  <2>1. ~contested /\ Clean
    BY <1>3
  <2>2. \A v \in Writers : writer'[v].at \in Locking => v # w /\ writer'[v] = writer[v]
    BY <1>1
  <2> QED
    BY <2>1, <2>2, CountParts DEF CountKept, Locking
<1> QED
  BY <1>2, <1>6, <1>7, <1>8, <1>9, <1>10, <1>11, <1>12, <1>13 DEF CountInv

\* The steps without the lock.
LEMMA RecomputingFacts ==
  ASSUME CountInv, NEW w \in Writers
  PROVE  /\ Counts!Recomputing(w) \in WriterRow /\ Counts!Recomputing(w).at = "read" /\ Counts!Recomputing(w).doc = 0
         /\ Counts!Recomputing(w).kind = writer[w].kind
<1>1. writer[w].kind \in {"none"} \cup Kinds
  BY CountParts, WriterFacts DEF CountTyped
<1> QED
  BY <1>1, RestingFacts DEF Counts!Recomputing, WriterRow, CountPlaces

LEMMA RestKeeps ==
  ASSUME CountInv, NEW w \in Writers, writer' = [writer EXCEPT ![w] = Counts!Resting],
         UNCHANGED <<held, tally, tableLock, crossed, torn, lagging, contested>>, writer[w].at \notin Locking
  PROVE  CountInv'
<1>1. PlaceFit(Counts!Resting)
  BY RestingFacts DEF PlaceFit, Scans
<1>2. HandHas(Counts!Resting)
  BY RestingFacts DEF HandHas
<1>3. ScanRowFit(Counts!Resting)
  BY RestingFacts DEF ScanRowFit
<1>4. contested' \in BOOLEAN /\ (contested => contested')
  BY CountParts DEF CountTyped
<1> QED
  BY <1>1, <1>2, <1>3, <1>4, RestingFacts, OwnRowKeeps DEF Locking, Scans

LEMMA CountBeginKeeps ==
  ASSUME CountInv, NEW w \in Writers, NEW d \in Documents, NEW kind \in Kinds, Counts!Begin(w, kind, d)
  PROVE  CountInv'
<1> DEFINE r == [Counts!Resting EXCEPT !.at = IF kind = "prune" THEN "prune" ELSE "delete", !.kind = kind, !.doc = d]
<1>1. /\ r \in WriterRow /\ r.at = (IF kind = "prune" THEN "prune" ELSE "delete") /\ r.doc = d /\ r.kind = kind /\ r.batch = 1
  BY RestingFacts DEF WriterRow, CountPlaces
<1>2. /\ writer[w].at = "none" /\ writer' = [writer EXCEPT ![w] = r] /\ UNCHANGED <<held, tally, tableLock, crossed, torn, lagging>>
      /\ contested' = (contested \/ \E v \in Writers : writer[v].doc = d)
  BY DEF Counts!Begin, Counts!Goes, Counts!At
<1> HIDE DEF r
<1>3. PlaceFit(r)
  BY <1>1 DEF PlaceFit, Scans
<1>4. HandHas(r)
  BY <1>1 DEF HandHas
<1>5. ~contested' => \A v \in Writers \ {w} : writer[v].doc # r.doc
  BY <1>1, <1>2
<1>6. contested' \in BOOLEAN /\ (contested => contested')
  BY <1>2, CountParts DEF CountTyped
<1>7. r.at \in {"delete", "prune"} /\ ScanRowFit(r)
  BY <1>1, <1>2 DEF ScanRowFit, Scans
<1> QED
  BY <1>1, <1>2, <1>3, <1>4, <1>5, <1>6, <1>7, OwnRowKeeps DEF Locking, Scans

LEMMA SettleKeeps == ASSUME CountInv, NEW w \in Writers, Counts!Settle(w) PROVE CountInv'
<1> DEFINE r == Counts!Recomputing(w)
<1>1. /\ writer[w].at = "settle" /\ UNCHANGED <<held, tally, tableLock, crossed, torn, lagging, contested>>
      /\ writer' = [writer EXCEPT ![w] = r] \/ writer' = [writer EXCEPT ![w] = Counts!Resting]
  BY DEF Counts!Settle, Counts!Goes, Counts!At
<1>2. contested' \in BOOLEAN /\ (contested => contested')
  BY <1>1, CountParts DEF CountTyped
<1>4. CASE writer' = [writer EXCEPT ![w] = Counts!Resting]
  BY <1>1, <1>4, RestKeeps DEF Locking
<1>5. CASE writer' = [writer EXCEPT ![w] = r]
  <2>1. r \in WriterRow /\ r.at = "read" /\ r.doc = 0
    BY RecomputingFacts
  <2> HIDE DEF r
  <2>2. PlaceFit(r) /\ HandHas(r) /\ ScanRowFit(r)
    BY <2>1 DEF PlaceFit, HandHas, ScanRowFit
  <2> QED
    BY <1>1, <1>2, <1>5, <2>1, <2>2, OwnRowKeeps DEF Locking, Scans
<1> QED
  BY <1>1, <1>4, <1>5

LEMMA ReadRowKeeps == ASSUME CountInv, NEW w \in Writers, Counts!ReadRow(w) PROVE CountInv'
<1> DEFINE r == [writer[w] EXCEPT !.at = "vectors", !.seen = tally, !.met = FALSE]
<1>1. /\ writer[w].at = "read" /\ UNCHANGED <<held, tally, tableLock, crossed, torn, lagging, contested>>
      /\ writer' = [writer EXCEPT ![w] = Counts!Resting] \/ writer' = [writer EXCEPT ![w] = r]
  BY DEF Counts!ReadRow, Counts!Goes, Counts!At
<1>2. contested' \in BOOLEAN /\ (contested => contested')
  BY <1>1, CountParts DEF CountTyped
<1>4. CASE writer' = [writer EXCEPT ![w] = Counts!Resting]
  BY <1>1, <1>4, RestKeeps DEF Locking
<1>5. CASE writer' = [writer EXCEPT ![w] = r]
  <2>0. writer[w] \in WriterRow /\ tally \in TallyRow /\ PlaceFit(writer[w])
    BY CountParts DEF CountTyped, PlacesFits
  <2>1. r \in WriterRow /\ r.at = "vectors" /\ r.doc = writer[w].doc /\ r.kind = writer[w].kind /\ r.seen = tally
    BY <2>0 DEF WriterRow, CountPlaces
  <2> HIDE DEF r
  <2>2. PlaceFit(r) /\ HandHas(r) /\ ScanRowFit(r) /\ r.doc = 0
    BY <1>1, <2>0, <2>1 DEF PlaceFit, HandHas, ScanRowFit
  <2>3. NoLater(r.seen, tally)
    BY <2>0, <2>1, TallyFacts DEF NoLater
  <2> QED
    BY <1>1, <1>2, <1>5, <2>1, <2>2, <2>3, OwnRowKeeps DEF Locking, Scans
<1> QED
  BY <1>1, <1>4, <1>5

LEMMA ScanKeeps ==
  ASSUME CountInv, NEW w \in Writers, NEW r \in WriterRow, writer' = [writer EXCEPT ![w] = r],
         UNCHANGED <<held, tally, tableLock, crossed, torn, lagging, contested>>,
         writer[w].at \in {"vectors", "documents"}, r.at \in {"documents", "write"}, r.doc = writer[w].doc, r.kind = writer[w].kind,
         r.seen = writer[w].seen, r.met = writer[w].met,
         tableLock = 0 => ScanRowFit(r)
  PROVE  CountInv'
<1>2. contested' \in BOOLEAN /\ (contested => contested')
  BY CountParts DEF CountTyped
<1>3. PlaceFit(writer[w])
  BY CountParts DEF PlacesFits
<1>4. PlaceFit(r) /\ HandHas(r) /\ r.doc = 0
  BY <1>3 DEF PlaceFit, HandHas, Scans
<1>6. ~r.met => NoLater(r.seen, tally)
  BY CountParts DEF SeenFit, Scans
<1> QED
  BY <1>2, <1>4, <1>6, OwnRowKeeps DEF Locking, Scans

LEMMA ScanVectorsKeeps == ASSUME CountInv, NEW w \in Writers, Counts!ScanVectors(w) PROVE CountInv'
<1> DEFINE r == [writer[w] EXCEPT !.at = "documents", !.chunks = Counts!Total]
<1>1. /\ writer[w].at = "vectors" /\ UNCHANGED <<held, tally, tableLock, crossed, torn, lagging, contested>>
      /\ writer' = [writer EXCEPT ![w] = r]
  BY DEF Counts!ScanVectors, Counts!Goes, Counts!At
<1>2. writer[w] \in WriterRow /\ Counts!Total \in Nat
  BY CountParts DEF CountTyped
<1>3. /\ r \in WriterRow /\ r.at = "documents" /\ r.doc = writer[w].doc /\ r.kind = writer[w].kind /\ r.seen = writer[w].seen
      /\ r.met = writer[w].met /\ r.chunks = Counts!Total
  BY <1>2 DEF WriterRow, CountPlaces
<1> HIDE DEF r
<1>4. ScanRowFit(r)
  BY <1>3 DEF ScanRowFit
<1> QED
  BY <1>1, <1>3, <1>4, ScanKeeps

LEMMA ScanDocumentsKeeps == ASSUME CountInv, NEW w \in Writers, Counts!ScanDocuments(w) PROVE CountInv'
<1> DEFINE r == [writer[w] EXCEPT !.at = "write", !.docs = Counts!Stored]
<1>1. /\ writer[w].at = "documents" /\ UNCHANGED <<held, tally, tableLock, crossed, torn, lagging, contested>>
      /\ writer' = [writer EXCEPT ![w] = r]
  BY DEF Counts!ScanDocuments, Counts!Goes, Counts!At
<1>2. writer[w] \in WriterRow /\ Counts!Stored \in Nat
  BY CountParts DEF CountTyped
<1>3. /\ r \in WriterRow /\ r.at = "write" /\ r.doc = writer[w].doc /\ r.kind = writer[w].kind /\ r.seen = writer[w].seen
      /\ r.met = writer[w].met /\ r.chunks = writer[w].chunks /\ r.docs = Counts!Stored
  BY <1>2 DEF WriterRow, CountPlaces
<1> HIDE DEF r
<1>4. tableLock = 0 => ScanRowFit(r)
  BY <1>1, <1>3, CountParts DEF ScansFit, ScanRowFit, Unmoved
<1> QED
  BY <1>1, <1>3, <1>4, ScanKeeps

LEMMA GiveWayKeeps ==
  ASSUME CountInv, NEW w \in Writers, Counts!WriteRow(w), ~Counts!UnchangedSince(w)
  PROVE  CountInv'
<1>1. /\ writer[w].at = "write" /\ UNCHANGED <<held, tally, tableLock, crossed, torn, lagging, contested>>
      /\ writer' = [writer EXCEPT ![w] = Counts!Resting]
  BY DEF Counts!WriteRow, Counts!Goes, Counts!At
<1> QED
  BY <1>1, RestKeeps DEF Locking

LEMMA AddFailsKeeps == ASSUME CountInv, NEW w \in Writers, Counts!AddFails(w) PROVE CountInv'
<1>1. /\ writer[w].at = "add" /\ UNCHANGED <<held, tally, tableLock, crossed, torn, lagging, contested>>
      /\ writer' = [writer EXCEPT ![w] = Counts!Resting]
  BY DEF Counts!AddFails, Counts!Goes, Counts!At
<1> QED
  BY <1>1, RestKeeps DEF Locking

\* The steps that change the table.
LEMMA HeldMore ==
  ASSUME CountInv, NEW d \in Documents, held' = [held EXCEPT ![d] = @ + 1]
  PROVE  /\ held' \in [Documents -> Nat] /\ held'[d] = held[d] + 1 /\ \A e \in Documents : e # d => held'[e] = held[e]
         /\ Counts!Total' = Counts!Total + 1 /\ Counts!Stored' = Counts!Stored + (IF held[d] = 0 THEN 1 ELSE 0)
<1>1. held \in [Documents -> Nat]
  BY CountParts DEF CountTyped
<1>2. held' \in [Documents -> Nat] /\ held'[d] = held[d] + 1 /\ \A e \in Documents : e # d => held'[e] = held[e]
  BY <1>1
<1>3. /\ Cardinality(RowsOf(held')) = Cardinality(RowsOf(held)) + 1
      /\ Cardinality(DocsOf(held')) = Cardinality(DocsOf(held)) + (IF held[d] = 0 THEN 1 ELSE 0)
  BY <1>1, <1>2, RowsMore
<1> QED
  BY <1>2, <1>3, TotalIs

LEMMA HeldLess ==
  ASSUME CountInv, NEW d \in Documents, held[d] # 0, held' = [held EXCEPT ![d] = 0]
  PROVE  /\ held' \in [Documents -> Nat] /\ held'[d] = 0 /\ \A e \in Documents : e # d => held'[e] = held[e]
         /\ Counts!Total = Counts!Total' + held[d] /\ Counts!Stored = Counts!Stored' + 1
         /\ Counts!Total' \in Nat /\ Counts!Stored' \in Nat /\ held[d] \in Nat
<1>1. held \in [Documents -> Nat] /\ held[d] \in Nat
  BY CountParts DEF CountTyped
<1>2. held' \in [Documents -> Nat] /\ held'[d] = 0 /\ \A e \in Documents : e # d => held'[e] = held[e]
  BY <1>1
<1>3. /\ Cardinality(RowsOf(held)) = Cardinality(RowsOf(held')) + held[d]
      /\ Cardinality(DocsOf(held)) = Cardinality(DocsOf(held')) + 1
  <2>1. held[d] > 0
    BY <1>1
  <2>2. ASSUME NEW g \in [Documents -> Nat], g[d] = 0, \A e \in Documents : e # d => g[e] = held[e]
        PROVE  /\ Cardinality(RowsOf(held)) = Cardinality(RowsOf(g)) + held[d]
               /\ Cardinality(DocsOf(held)) = Cardinality(DocsOf(g)) + 1
    BY <1>1, <2>1, <2>2, RowsLess
  <2> QED
    BY <1>2, <2>2
<1>4. Cardinality(RowsOf(held')) \in Nat /\ Cardinality(DocsOf(held')) \in Nat
  BY <1>2, RowsFinite
<1> QED
  BY <1>1, <1>2, <1>3, <1>4, TotalIs

LEMMA NobodyLocks == ASSUME CountInv, tableLock = 0 PROVE \A v \in Writers : writer[v].at \notin Locking
  BY CountParts, CountsFit DEF LockFits

LEMMA OnlyOneLocks == ASSUME CountInv, NEW w \in Writers, writer[w].at \in Locking
                      PROVE  tableLock = w /\ \A v \in Writers : v # w => writer[v].at \notin Locking
  BY CountParts DEF LockFits

LEMMA DeleteRowsKeeps == ASSUME CountInv, NEW w \in Writers, Counts!DeleteRows(w) PROVE CountInv'
<1> DEFINE d == writer[w].doc
<1>1. writer[w].at = "delete" /\ UNCHANGED <<tally, crossed, torn, lagging, contested>> /\ tableLock = 0
  BY DEF Counts!DeleteRows, Counts!At, Counts!Take, Counts!Free
<1>2. writer[w] \in WriterRow /\ d \in Documents /\ writer[w].batch = 1
  BY <1>1, CountParts DEF CountTyped, PlacesFits, PlaceFit
<1>3. contested' \in BOOLEAN /\ (contested => contested')
  BY <1>1, CountParts DEF CountTyped
<1>5. CASE held[d] = 0
  <2> DEFINE r == [writer[w] EXCEPT !.at = "add"]
  <2>1. /\ UNCHANGED <<held, tableLock>>
        /\ writer' = [writer EXCEPT ![w] = r] \/ writer' = [writer EXCEPT ![w] = Counts!Resting]
    BY <1>5 DEF Counts!DeleteRows, Counts!Goes, Counts!Doc
  <2>2. CASE writer' = [writer EXCEPT ![w] = Counts!Resting]
    BY <1>1, <2>1, <2>2, RestKeeps DEF Locking
  <2>3. CASE writer' = [writer EXCEPT ![w] = r]
    <3>1. r \in WriterRow /\ r.at = "add" /\ r.doc = d /\ r.batch = 1
      BY <1>2 DEF WriterRow, CountPlaces
    <3> HIDE DEF r
    <3>2. PlaceFit(r) /\ ScanRowFit(r)
      BY <1>2, <3>1 DEF PlaceFit, ScanRowFit, Scans
    <3>3. ~contested' => HandHas(r) /\ (r.doc # 0 => \A v \in Writers \ {w} : writer[v].doc # r.doc)
      BY <1>1, <1>2, <1>5, <3>1, CountParts DEF HandHas, HandsFit
    <3> QED
      BY <1>1, <1>3, <2>1, <2>3, <3>1, <3>2, <3>3, OwnRowKeeps DEF Locking, Scans
  <2> QED
    BY <2>1, <2>2, <2>3
<1>6. CASE held[d] # 0
  <2> DEFINE r == [writer[w] EXCEPT !.at = "subtract", !.cut = held[d]]
  <2>1. held' = [held EXCEPT ![d] = 0] /\ tableLock' = w /\ writer' = [writer EXCEPT ![w] = r]
    BY <1>6 DEF Counts!DeleteRows, Counts!Goes, Counts!Doc, Counts!Take
  <2>2. /\ held' \in [Documents -> Nat] /\ held'[d] = 0 /\ \A e \in Documents : e # d => held'[e] = held[e]
        /\ Counts!Total = Counts!Total' + held[d] /\ Counts!Stored = Counts!Stored' + 1
        /\ Counts!Total' \in Nat /\ Counts!Stored' \in Nat /\ held[d] \in Nat
    BY <1>2, <1>6, <2>1, HeldLess
  <2>3. r \in WriterRow /\ r.at = "subtract" /\ r.doc = d /\ r.batch = 1 /\ r.cut = held[d]
    BY <1>2, <2>2 DEF WriterRow, CountPlaces
  <2> HIDE DEF r
  <2>4. /\ writer'[w] = r /\ \A v \in Writers : v # w => writer'[v] = writer[v]
        /\ writer' \in [Writers -> WriterRow]
    BY <2>1, <2>3, CountParts DEF CountTyped
  <2>5. \A v \in Writers : v # w => writer'[v].at \notin Locking
    BY <1>1, <2>4, NobodyLocks
  <2>6. CountTyped'
    BY <1>1, <1>3, <2>1, <2>2, <2>4, CountParts DEF CountTyped
  <2>7. LockFits' /\ PlacesFits'
    BY <1>2, <1>6, <2>1, <2>2, <2>3, <2>4, <2>5, CountParts DEF LockFits, PlacesFits, PlaceFit, Locking, Scans
  <2>8. NothingYet' /\ ClaimsFit' /\ tableLock' # 0
    BY <1>1, <1>2, <1>6, <2>1, <2>3, <2>4, <2>5, CountParts, CountsFit DEF NothingYet, ClaimsFit, ClaimFit, Locking
  <2>9. HandsFit'
    <3> SUFFICES ASSUME ~contested' PROVE /\ \A v \in Writers : HandHas(writer[v])'
                                          /\ \A u, v \in Writers : u # v /\ writer'[u].doc # 0 => writer'[u].doc # writer'[v].doc
      BY DEF HandsFit
    <3>1. /\ \A v \in Writers : HandHas(writer[v])
          /\ \A u, v \in Writers : u # v /\ writer[u].doc # 0 => writer[u].doc # writer[v].doc
      BY <1>1, CountParts DEF HandsFit
    <3>2. \A v \in Writers : writer'[v].doc = writer[v].doc
      BY <2>3, <2>4
    <3>3. ASSUME NEW v \in Writers, v # w PROVE HandHas(writer[v])'
      <4>1. writer[v].at \in {"subtract", "add", "count"} => writer[v].doc \in Documents /\ writer[v].doc # d
        BY <1>2, <3>1, <3>3, CountParts, CountsFit DEF PlacesFits, PlaceFit
      <4>2. HandHas(writer[v]) /\ writer'[v] = writer[v]
        BY <2>4, <3>1, <3>3
      <4> QED
        BY <2>2, <4>1, <4>2 DEF HandHas
    <3>4. HandHas(writer[w])'
      BY <2>2, <2>3, <2>4 DEF HandHas
    <3> QED
      BY <3>1, <3>2, <3>3, <3>4
  <2>10. SeenFit'
    BY <1>1, <2>3, <2>4, CountParts DEF SeenFit, Scans, NoLater
  <2>11. ScansFit' /\ ResetKept'
    BY <2>8 DEF ScansFit, ResetKept
  <2>12. CountKept'
    <3> SUFFICES ASSUME Clean', ~contested', tally.there, ~tally.needs
                 PROVE  /\ tally.sum <=> tally.chunks > 0
                        /\ tally.chunks = Counts!Total' + r.cut /\ tally.docs = Counts!Stored' + 1
      BY <1>1, <2>3, <2>4, <2>5, <2>8 DEF CountKept, Locking
    <3>1. Clean /\ ~contested
      BY <1>1 DEF Clean
    <3>2. (tally.sum <=> tally.chunks > 0) /\ Counts!Right
      BY <1>1, <3>1, CountParts DEF CountKept
    <3> QED
      BY <2>2, <2>3, <3>2 DEF Counts!Right
  <2> QED
    BY <2>6, <2>7, <2>8, <2>9, <2>10, <2>11, <2>12 DEF CountInv
<1> QED
  BY <1>5, <1>6

LEMMA ClaimFacts == Claim \in TallyRow /\ Claim.there /\ Claim.needs /\ Claim.mutations = 0
  BY DEF Claim, Counts!NoTally, TallyRow

LEMMA AddRowsKeeps == ASSUME CountInv, NEW w \in Writers, Counts!AddRows(w) PROVE CountInv'
<1> DEFINE d == writer[w].doc
           r == [writer[w] EXCEPT !.at = "count", !.claimed = ~tally.there]
<1>1. /\ writer[w].at = "add" /\ UNCHANGED <<crossed, torn, lagging, contested>> /\ tableLock = 0 /\ tableLock' = w
      /\ held' = [held EXCEPT ![d] = @ + 1] /\ writer' = [writer EXCEPT ![w] = r]
      /\ tally' = IF tally.there THEN tally ELSE Claim
  BY DEF Counts!AddRows, Counts!At, Counts!Take, Counts!Free, Counts!Goes, Counts!Doc, Claim
<1>2. writer[w] \in WriterRow /\ d \in Documents /\ tally \in TallyRow /\ tally.there \in BOOLEAN
  BY <1>1, CountParts, TallyFacts DEF CountTyped, PlacesFits, PlaceFit
<1>3. /\ held' \in [Documents -> Nat] /\ held'[d] = held[d] + 1 /\ \A e \in Documents : e # d => held'[e] = held[e]
      /\ Counts!Total' = Counts!Total + 1 /\ Counts!Stored' = Counts!Stored + (IF held[d] = 0 THEN 1 ELSE 0)
  BY <1>1, <1>2, HeldMore
<1>4. /\ r \in WriterRow /\ r.at = "count" /\ r.doc = d /\ r.batch = writer[w].batch /\ r.kind = writer[w].kind
      /\ r.claimed = ~tally.there
  BY <1>2 DEF WriterRow, CountPlaces
<1> HIDE DEF r
<1>5. /\ writer'[w] = r /\ \A v \in Writers : v # w => writer'[v] = writer[v]
      /\ writer' \in [Writers -> WriterRow]
  BY <1>1, <1>4, CountParts DEF CountTyped
<1>6. \A v \in Writers : v # w => writer'[v].at \notin Locking
  BY <1>1, <1>5, NobodyLocks
<1>7. CountTyped'
  BY <1>1, <1>2, <1>3, <1>5, ClaimFacts, CountParts DEF CountTyped
<1>8. LockFits' /\ PlacesFits'
  BY <1>1, <1>2, <1>4, <1>5, <1>6, CountParts DEF LockFits, PlacesFits, PlaceFit, Locking, Scans
<1>9. NothingYet' /\ tableLock' # 0 /\ tally'.there
  BY <1>1, <1>2, ClaimFacts, CountsFit DEF NothingYet
<1>10. ClaimsFit'
  <2> SUFFICES ASSUME r.claimed
               PROVE  r.batch = 1 /\ tally' = Claim' /\ Counts!Total' = 1 /\ Counts!Stored' = 1
    BY <1>4, <1>5, <1>6 DEF ClaimsFit, ClaimFit, Locking
  <2>1. ~tally.there /\ (\A e \in Documents : held[e] = 0) /\ writer[w].batch = 1
    BY <1>1, <1>2, <1>4, CountParts DEF NothingYet
  <2>2. Counts!Total = 0 /\ Counts!Stored = 0
    BY <2>1, CountParts, RowsNone, TotalIs DEF CountTyped
  <2>3. Claim' = Claim
    BY DEF Claim, Counts!NoTally
  <2> QED
    BY <1>1, <1>2, <1>3, <1>4, <2>1, <2>2, <2>3
<1>11. HandsFit'
  <2> SUFFICES ASSUME ~contested' PROVE /\ \A v \in Writers : HandHas(writer[v])'
                                        /\ \A u, v \in Writers : u # v /\ writer'[u].doc # 0 => writer'[u].doc # writer'[v].doc
    BY DEF HandsFit
  <2>1. /\ \A v \in Writers : HandHas(writer[v])
        /\ \A u, v \in Writers : u # v /\ writer[u].doc # 0 => writer[u].doc # writer[v].doc
    BY <1>1, CountParts DEF HandsFit
  <2>2. \A v \in Writers : writer'[v].doc = writer[v].doc
    BY <1>4, <1>5
  <2>3. ASSUME NEW v \in Writers, v # w PROVE HandHas(writer[v])'
    <3>1. writer[v].at \in {"subtract", "add", "count"} => writer[v].doc \in Documents /\ writer[v].doc # d
      BY <1>2, <2>1, <2>3, CountParts, CountsFit DEF PlacesFits, PlaceFit
    <3>2. HandHas(writer[v]) /\ writer'[v] = writer[v]
      BY <1>5, <2>1, <2>3
    <3> QED
      BY <1>3, <3>1, <3>2 DEF HandHas
  <2>4. HandHas(writer[w])'
    <3>1. held[d] \in Nat
      BY <1>2, CountParts DEF CountTyped
    <3> QED
      BY <1>3, <1>4, <1>5, <3>1 DEF HandHas
  <2> QED
    BY <2>1, <2>2, <2>3, <2>4
<1>12. SeenFit'
  <2> SUFFICES ASSUME NEW v \in Writers, writer'[v].at \in Scans, ~writer'[v].met PROVE NoLater(writer'[v].seen, tally')
    BY DEF SeenFit, NoLater
  <2>1. v # w /\ writer'[v] = writer[v]
    BY <1>4, <1>5 DEF Scans
  <2>2. NoLater(writer[v].seen, tally)
    BY <2>1, CountParts DEF SeenFit
  <2>3. CASE tally.there
    BY <1>1, <2>1, <2>2, <2>3
  <2>4. CASE ~tally.there
    <3>1. tally = Counts!NoTally /\ tally' = Claim
      BY <1>1, <2>4, CountParts DEF NothingYet
    <3>2. writer[v].seen.mutations \in Nat
      BY CountParts, WriterFacts, TallyFacts DEF CountTyped
    <3> QED
      BY <2>1, <2>2, <3>1, <3>2, ClaimFacts, RestingFacts DEF NoLater
  <2> QED
    BY <1>2, <2>3, <2>4
<1>13. ScansFit' /\ ResetKept'
  BY <1>9 DEF ScansFit, ResetKept
<1>14. CountKept'
  <2> SUFFICES ASSUME Clean', ~contested', tally'.there, ~tally'.needs
               PROVE  /\ tally'.sum <=> tally'.chunks > 0
                      /\ tally'.chunks + 1 = Counts!Total' /\ tally'.docs + NewDoc(r) = Counts!Stored'
    BY <1>4, <1>5, <1>6, <1>9 DEF CountKept, Locking, NewDoc
  <2>1. tally.there /\ tally' = tally
    BY <1>1, <1>2, ClaimFacts
  <2>2. Clean /\ ~contested
    BY <1>1 DEF Clean
  <2>3. (tally.sum <=> tally.chunks > 0) /\ Counts!Right
    BY <1>1, <2>1, <2>2, CountParts DEF CountKept
  <2>4. held[d] = 0 <=> r.batch = 1
    BY <1>1, <1>4, <2>2, CountParts DEF HandsFit, HandHas
  <2> QED
    BY <1>3, <2>1, <2>3, <2>4 DEF Counts!Right, NewDoc
<1> QED
  BY <1>7, <1>8, <1>9, <1>10, <1>11, <1>12, <1>13, <1>14 DEF CountInv

\* The steps that change the row under the lock.
LEMMA SubtractedFacts ==
  ASSUME NEW cut \in Nat, cut > 0, tally \in TallyRow, tally.there
  PROVE  /\ Counts!Subtracted(cut) \in TallyRow /\ Counts!Subtracted(cut).there
         /\ Counts!Subtracted(cut).mutations = tally.mutations + cut
         /\ ~Counts!Subtracted(cut).needs =>
              /\ tally.sum /\ ~tally.needs
              /\ Counts!Subtracted(cut).chunks = (IF tally.chunks - cut > 0 THEN tally.chunks - cut ELSE 0)
              /\ Counts!Subtracted(cut).docs = (IF tally.chunks - cut > 0 /\ tally.docs > 0 THEN tally.docs - 1 ELSE 0)
              /\ Counts!Subtracted(cut).sum <=> tally.chunks - cut > 0
<1> DEFINE left == tally.chunks - cut
           n == tally.mutations + cut
           t == Counts!Subtracted(cut)
<1>1. /\ tally.there \in BOOLEAN /\ tally.chunks \in Nat /\ tally.docs \in Nat /\ tally.sum \in BOOLEAN
      /\ tally.mutations \in Nat /\ tally.needs \in BOOLEAN
  BY TallyFacts
<1>4. n \in Nat
  BY <1>1
<1>2. CASE ~tally.sum
  <2>1. t = [tally EXCEPT !.sum = FALSE, !.needs = TRUE, !.mutations = n]
    BY <1>2 DEF Counts!Subtracted, Counts!Stale
  <2> HIDE DEF n, t
  <2>2. t \in TallyRow
    BY <1>4, <2>1 DEF TallyRow
  <2>3. t.there = tally.there /\ t.needs /\ t.mutations = n
    BY <2>1 DEF TallyRow
  <2> QED
    BY <2>2, <2>3 DEF n, t
<1>3. CASE tally.sum
  <2> DEFINE c == IF left > 0 THEN left ELSE 0
             e == IF left > 0 /\ tally.docs > 0 THEN tally.docs - 1 ELSE 0
  <2>1. t = [tally EXCEPT !.mutations = n, !.chunks = c, !.sum = left > 0, !.docs = e]
    BY <1>3 DEF Counts!Subtracted
  <2>2. c \in Nat /\ e \in Nat /\ (left > 0) \in BOOLEAN
    BY <1>1
  <2> DEFINE s == left > 0
  <2> HIDE DEF c, e, s, n, t
  <2>3. t = [tally EXCEPT !.mutations = n, !.chunks = c, !.sum = s, !.docs = e]
    BY <2>1 DEF s
  <2>4. s \in BOOLEAN
    BY DEF s
  <2>5. t \in TallyRow
    BY <2>2, <2>3, <2>4, <1>4 DEF TallyRow
  <2>6. /\ t.there = tally.there /\ t.needs = tally.needs /\ t.mutations = n
        /\ t.chunks = c /\ t.sum = s /\ t.docs = e
    BY <2>3 DEF TallyRow
  <2> QED
    BY <1>3, <2>5, <2>6 DEF c, s, e, n, t
<1> QED
  BY <1>1, <1>2, <1>3

LEMMA SubtractKeeps == ASSUME CountInv, NEW w \in Writers, Counts!Subtract(w) PROVE CountInv'
<1> DEFINE d == writer[w].doc
           cut == writer[w].cut
           r == [writer[w] EXCEPT !.at = IF writer[w].kind = "ingest" THEN "add" ELSE "settle"]
<1>1. /\ writer[w].at = "subtract" /\ UNCHANGED <<held, crossed, torn, lagging, contested>> /\ tableLock' = 0
      /\ writer' = [writer EXCEPT ![w] = r] /\ tally' = Counts!Subtracted(cut)
  BY DEF Counts!Subtract, Counts!At, Counts!Free, Counts!Goes
<1>2. /\ writer[w] \in WriterRow /\ d \in Documents /\ tally \in TallyRow /\ cut \in Nat /\ cut > 0
      /\ writer[w].batch = 1 /\ tableLock = w
  BY <1>1, CountParts, WriterFacts, OnlyOneLocks DEF CountTyped, PlacesFits, PlaceFit, Locking
<1>3. tally.there
  BY <1>2, CountParts, CountsFit DEF NothingYet
<1>4. /\ tally' \in TallyRow /\ tally'.there /\ tally'.mutations = tally.mutations + cut
      /\ ~tally'.needs =>
           /\ tally.sum /\ ~tally.needs
           /\ tally'.chunks = (IF tally.chunks - cut > 0 THEN tally.chunks - cut ELSE 0)
           /\ tally'.docs = (IF tally.chunks - cut > 0 /\ tally.docs > 0 THEN tally.docs - 1 ELSE 0)
           /\ tally'.sum <=> tally.chunks - cut > 0
  <2> HIDE DEF cut
  <2> QED
    BY <1>1, <1>2, <1>3, SubtractedFacts
<1>5. r \in WriterRow /\ r.at \in {"add", "settle"} /\ r.doc = d /\ r.batch = 1 /\ r.kind = writer[w].kind
  BY <1>2 DEF WriterRow, CountPlaces
<1> HIDE DEF r
<1>6. /\ writer'[w] = r /\ \A v \in Writers : v # w => writer'[v] = writer[v]
      /\ writer' \in [Writers -> WriterRow]
  BY <1>1, <1>5, CountParts DEF CountTyped
<1>7. \A v \in Writers : writer'[v].at \notin Locking
  BY <1>1, <1>5, <1>6, OnlyOneLocks DEF Locking
<1>8. CountTyped'
  BY <1>1, <1>4, <1>6, CountParts DEF CountTyped
<1>9. LockFits' /\ PlacesFits' /\ NothingYet' /\ ClaimsFit'
  <2>1. LockFits' /\ NothingYet' /\ ClaimsFit'
    BY <1>1, <1>4, <1>7, CountsFit DEF LockFits, NothingYet, ClaimsFit, ClaimFit, Locking
  <2>2. PlacesFits'
    BY <1>2, <1>5, <1>6, CountParts DEF PlacesFits, PlaceFit, Scans
  <2> QED
    BY <2>1, <2>2
<1>10. HandsFit'
  <2> SUFFICES ASSUME ~contested' PROVE /\ \A v \in Writers : HandHas(writer[v])'
                                        /\ \A u, v \in Writers : u # v /\ writer'[u].doc # 0 => writer'[u].doc # writer'[v].doc
    BY DEF HandsFit
  <2>1. /\ \A v \in Writers : HandHas(writer[v])
        /\ \A u, v \in Writers : u # v /\ writer[u].doc # 0 => writer[u].doc # writer[v].doc
    BY <1>1, CountParts DEF HandsFit
  <2>2. \A v \in Writers : writer'[v].doc = writer[v].doc
    BY <1>5, <1>6
  <2>3. ASSUME NEW v \in Writers, v # w PROVE HandHas(writer[v])'
    BY <1>1, <1>6, <2>1, <2>3 DEF HandHas
  <2>4. HandHas(writer[w])'
    BY <1>1, <1>5, <1>6, <2>1 DEF HandHas
  <2> QED
    BY <2>1, <2>2, <2>3, <2>4
<1>11. tally.mutations \in Nat /\ \A v \in Writers : writer[v].seen.mutations \in Nat
  BY <1>2, CountParts, WriterFacts, TallyFacts DEF CountTyped
<1>12. \A v \in Writers : (writer'[v].at \in Scans /\ ~writer'[v].met) => writer'[v].seen.mutations < tally'.mutations
  <2> SUFFICES ASSUME NEW v \in Writers, writer'[v].at \in Scans, ~writer'[v].met PROVE writer'[v].seen.mutations < tally'.mutations
    OBVIOUS
  <2>1. v # w /\ writer'[v] = writer[v]
    BY <1>5, <1>6 DEF Scans
  <2>2. writer[v].seen.mutations <= tally.mutations
    BY <2>1, <1>11, CountParts DEF SeenFit, NoLater
  <2> QED
    BY <1>2, <1>4, <1>11, <2>1, <2>2
<1>13. SeenFit' /\ ScansFit'
  <2>1. SeenFit'
    BY <1>12 DEF SeenFit, NoLater
  <2>2. \A v \in Writers : writer'[v].at \in Scans => ~Unmoved(writer[v])'
    BY <1>4, <1>6, <1>8, <1>11, <1>12, WriterFacts, TallyFacts DEF Unmoved
  <2> QED
    BY <2>1, <2>2 DEF ScansFit, ScanRowFit, Scans
<1>14. ResetKept'
  BY <1>2, <1>4, <1>11 DEF ResetKept
<1>15. CountKept'
  <2> SUFFICES ASSUME Clean', ~contested', ~tally'.needs
               PROVE  (tally'.sum <=> tally'.chunks > 0) /\ tally'.chunks = Counts!Total /\ tally'.docs = Counts!Stored
    <3>1. Counts!Total' = Counts!Total /\ Counts!Stored' = Counts!Stored
      BY <1>1, TotalIs
    <3> QED
      BY <1>7, <3>1 DEF CountKept, Locking, Counts!Right
  <2>1. Clean /\ ~contested
    BY <1>1 DEF Clean
  <2>2. (tally.sum <=> tally.chunks > 0) /\ tally.chunks = Counts!Total + cut /\ tally.docs = Counts!Stored + 1
    BY <1>1, <1>3, <1>4, <2>1, CountParts DEF CountKept
  <2>3. Counts!Total \in Nat /\ Counts!Stored \in Nat /\ (Counts!Total = 0 => Counts!Stored = 0)
    BY CountParts, RowsNone, TotalIs DEF CountTyped
  <2> QED
    BY <1>2, <1>4, <2>2, <2>3
<1> QED
  BY <1>8, <1>9, <1>10, <1>13, <1>14, <1>15 DEF CountInv

\* One row or the next: the counter or the flag has moved.
Later(s, t) == s.mutations < t.mutations \/ (s.mutations = t.mutations /\ ~s.needs /\ t.needs)

LEMMA CountedFacts ==
  ASSUME CountInv, NEW w \in Writers, writer[w].at = "count", NEW usable \in BOOLEAN
  PROVE  LET t == Counts!Counted(w, usable) IN
         /\ t \in TallyRow /\ t.there
         /\ (t.mutations = tally.mutations /\ t.needs = tally.needs) \/ Later(tally, t)
         /\ ~t.needs => /\ t.mutations > 0 /\ t.sum
                        /\ \/ writer[w].claimed /\ t.chunks = 1 /\ t.docs = 1
                           \/ /\ ~writer[w].claimed /\ ~tally.needs /\ tally.sum
                              /\ t.chunks = tally.chunks + 1 /\ t.docs = tally.docs + NewDoc(writer[w])
<1> DEFINE t == Counts!Counted(w, usable)
           new == NewDoc(writer[w])
<1> SUFFICES /\ t \in TallyRow /\ t.there
             /\ (t.mutations = tally.mutations /\ t.needs = tally.needs) \/ Later(tally, t)
             /\ ~t.needs => /\ t.mutations > 0 /\ t.sum
                            /\ \/ writer[w].claimed /\ t.chunks = 1 /\ t.docs = 1
                               \/ /\ ~writer[w].claimed /\ ~tally.needs /\ tally.sum
                                  /\ t.chunks = tally.chunks + 1 /\ t.docs = tally.docs + new
  OBVIOUS
<1>1. /\ tally.there \in BOOLEAN /\ tally.chunks \in Nat /\ tally.docs \in Nat /\ tally.sum \in BOOLEAN
      /\ tally.mutations \in Nat /\ tally.needs \in BOOLEAN /\ tally \in TallyRow /\ writer[w].claimed \in BOOLEAN
  BY CountParts, WriterFacts, TallyFacts DEF CountTyped
<1>2. tally.there
  BY OnlyOneLocks, CountParts, CountsFit DEF NothingYet, Locking
<1>3. new \in {0, 1}
  BY DEF NewDoc
<1>4. CASE writer[w].claimed
  <2>1. writer[w].batch = 1 /\ tally = Claim
    BY <1>4, CountParts DEF ClaimsFit, ClaimFit
  <2>2. CASE usable
    <3>1. t = [there |-> TRUE, chunks |-> 1, docs |-> 1, sum |-> TRUE, mutations |-> 1, needs |-> FALSE]
      BY <1>4, <2>1, <2>2 DEF Counts!Counted
    <3> HIDE DEF t
    <3>2. t \in TallyRow /\ t.there /\ t.sum /\ t.mutations = 1 /\ t.chunks = 1 /\ t.docs = 1 /\ ~t.needs
      BY <3>1 DEF TallyRow
    <3> QED
      BY <1>4, <2>1, <3>2, ClaimFacts DEF Later
  <2>3. CASE ~usable
    <3>1. t = Claim
      BY <1>4, <2>3 DEF Counts!Counted, Claim
    <3> HIDE DEF t
    <3> QED
      BY <2>1, <3>1, ClaimFacts
  <2> QED
    BY <2>2, <2>3
<1>5. CASE ~writer[w].claimed /\ ~usable
  <2>1. t = [tally EXCEPT !.needs = TRUE]
    BY <1>5 DEF Counts!Counted
  <2> HIDE DEF t
  <2>2. t \in TallyRow
    BY <1>1, <2>1 DEF TallyRow
  <2>3. t.there = tally.there /\ t.mutations = tally.mutations /\ t.needs
    BY <1>1, <2>1 DEF TallyRow
  <2> QED
    BY <1>1, <1>2, <2>2, <2>3 DEF Later
<1>6. CASE ~writer[w].claimed /\ usable /\ ~tally.sum
  <2>1. t = [tally EXCEPT !.sum = FALSE, !.needs = TRUE, !.mutations = tally.mutations]
    BY <1>6 DEF Counts!Counted, Counts!Stale
  <2> HIDE DEF t
  <2>2. t \in TallyRow
    BY <1>1, <2>1 DEF TallyRow
  <2>3. t.there = tally.there /\ t.mutations = tally.mutations /\ t.needs
    BY <1>1, <2>1 DEF TallyRow
  <2> QED
    BY <1>1, <1>2, <2>2, <2>3 DEF Later
<1>7. CASE ~writer[w].claimed /\ usable /\ tally.sum
  <2> DEFINE c == tally.chunks + 1
             e == tally.docs + new
             n == tally.mutations + 1
  <2>1. t = [tally EXCEPT !.chunks = c, !.docs = e, !.mutations = n]
    BY <1>7 DEF Counts!Counted, NewDoc
  <2>2. c \in Nat /\ e \in Nat /\ n \in Nat /\ tally.mutations < n /\ n > 0
    BY <1>1, <1>3
  <2> HIDE DEF t, c, e, n
  <2>3. t \in TallyRow
    BY <1>1, <2>1, <2>2 DEF TallyRow
  <2>4. t.there = tally.there /\ t.mutations = n /\ t.needs = tally.needs /\ t.sum = tally.sum /\ t.chunks = c /\ t.docs = e
    BY <1>1, <2>1 DEF TallyRow
  <2>5. Later(tally, t)
    BY <2>2, <2>4 DEF Later
  <2> QED
    BY <1>2, <1>7, <2>2, <2>3, <2>4, <2>5 DEF c, e
<1> QED
  BY <1>1, <1>4, <1>5, <1>6, <1>7

LEMMA MetFacts ==
  ASSUME NEW f \in [Writers -> WriterRow]
  PROVE  /\ Counts!Met(f) \in [Writers -> WriterRow]
         /\ \A v \in Writers :
              /\ Counts!Met(f)[v].at = f[v].at /\ Counts!Met(f)[v].kind = f[v].kind /\ Counts!Met(f)[v].doc = f[v].doc
              /\ Counts!Met(f)[v].cut = f[v].cut /\ Counts!Met(f)[v].claimed = f[v].claimed
              /\ Counts!Met(f)[v].batch = f[v].batch /\ Counts!Met(f)[v].seen = f[v].seen
              /\ Counts!Met(f)[v].chunks = f[v].chunks /\ Counts!Met(f)[v].docs = f[v].docs
              /\ ~Counts!Met(f)[v].met => ~f[v].met /\ writer[v].at \notin Scans
<1>1. ASSUME NEW v \in Writers
      PROVE  /\ Counts!Met(f)[v] \in WriterRow
             /\ Counts!Met(f)[v].at = f[v].at /\ Counts!Met(f)[v].kind = f[v].kind /\ Counts!Met(f)[v].doc = f[v].doc
             /\ Counts!Met(f)[v].cut = f[v].cut /\ Counts!Met(f)[v].claimed = f[v].claimed
              /\ Counts!Met(f)[v].batch = f[v].batch /\ Counts!Met(f)[v].seen = f[v].seen
             /\ Counts!Met(f)[v].chunks = f[v].chunks /\ Counts!Met(f)[v].docs = f[v].docs
             /\ ~Counts!Met(f)[v].met => ~f[v].met /\ writer[v].at \notin Scans
  <2> DEFINE b == f[v].met \/ writer[v].at \in Scans
             m == Counts!Met(f)[v]
  <2>1. m = [f[v] EXCEPT !.met = b]
    BY DEF Counts!Met, Counts!Scanning, Scans
  <2>2. f[v] \in WriterRow /\ b \in BOOLEAN
    OBVIOUS
  <2>5. ~b => ~f[v].met /\ writer[v].at \notin Scans
    OBVIOUS
  <2> HIDE DEF b, m
  <2>3. m \in WriterRow
    BY <2>1, <2>2 DEF WriterRow
  <2>4. /\ m.at = f[v].at /\ m.kind = f[v].kind /\ m.doc = f[v].doc /\ m.cut = f[v].cut /\ m.batch = f[v].batch
        /\ m.claimed = f[v].claimed /\ m.seen = f[v].seen /\ m.chunks = f[v].chunks /\ m.docs = f[v].docs /\ m.met = b
    BY <2>1, <2>2 DEF WriterRow
  <2> QED
    BY <2>3, <2>4, <2>5 DEF m
<1>2. Counts!Met(f) = [v \in Writers |-> Counts!Met(f)[v]]
  BY DEF Counts!Met
<1> HIDE DEF Counts!Met
<1> QED
  BY <1>1, <1>2

\* A step that every scan under way meets.
LEMMA AllMeet ==
  ASSUME CountInv, NEW w \in Writers, NEW r \in WriterRow, writer' = [Counts!Met(writer) EXCEPT ![w] = r]
  PROVE  /\ writer' \in [Writers -> WriterRow] /\ writer'[w] = r
         /\ \A v \in Writers : v # w =>
              /\ writer'[v].at = writer[v].at /\ writer'[v].kind = writer[v].kind /\ writer'[v].doc = writer[v].doc
              /\ writer'[v].cut = writer[v].cut /\ writer'[v].claimed = writer[v].claimed /\ writer'[v].batch = writer[v].batch
              /\ writer'[v].seen = writer[v].seen /\ (~writer'[v].met => writer[v].at \notin Scans)
<1> DEFINE f == Counts!Met(writer)
<1>1. /\ f \in [Writers -> WriterRow]
      /\ \A v \in Writers :
           /\ f[v].at = writer[v].at /\ f[v].kind = writer[v].kind /\ f[v].doc = writer[v].doc
           /\ f[v].cut = writer[v].cut /\ f[v].claimed = writer[v].claimed /\ f[v].batch = writer[v].batch
           /\ f[v].seen = writer[v].seen /\ (~f[v].met => writer[v].at \notin Scans)
  <2>1. writer \in [Writers -> WriterRow]
    BY CountParts DEF CountTyped
  <2> QED
    BY <2>1, MetFacts
<1> HIDE DEF f
<1>2. writer' = [f EXCEPT ![w] = r]
  BY DEF f
<1> QED
  BY <1>1, <1>2

\* It leaves nothing to be said of the scans, and the documents in other hands as they are.
LEMMA AllMeetKeeps ==
  ASSUME CountInv, NEW w \in Writers, NEW r \in WriterRow, writer' = [Counts!Met(writer) EXCEPT ![w] = r],
         r.at \in {"none", "read"}, r.doc = 0, UNCHANGED contested,
         \A e \in Documents : e # writer[w].doc => held'[e] = held[e]
  PROVE  PlacesFits' /\ HandsFit' /\ SeenFit' /\ ScansFit'
<1>1. /\ writer' \in [Writers -> WriterRow] /\ writer'[w] = r
      /\ \A v \in Writers : v # w =>
           /\ writer'[v].at = writer[v].at /\ writer'[v].kind = writer[v].kind /\ writer'[v].doc = writer[v].doc
           /\ writer'[v].cut = writer[v].cut /\ writer'[v].claimed = writer[v].claimed /\ writer'[v].batch = writer[v].batch
           /\ writer'[v].seen = writer[v].seen /\ (~writer'[v].met => writer[v].at \notin Scans)
  BY AllMeet
<1>2. PlacesFits'
  <2> SUFFICES ASSUME NEW v \in Writers PROVE PlaceFit(writer[v])'
    BY DEF PlacesFits
  <2>1. CASE v = w
    BY <1>1, <2>1 DEF PlaceFit, Scans
  <2>2. CASE v # w
    <3>1. PlaceFit(writer[v])
      BY CountParts DEF PlacesFits
    <3> QED
      BY <1>1, <2>2, <3>1 DEF PlaceFit
  <2> QED
    BY <2>1, <2>2
<1>3. HandsFit'
  <2> SUFFICES ASSUME ~contested PROVE /\ \A v \in Writers : HandHas(writer[v])'
                                       /\ \A u, v \in Writers : u # v /\ writer'[u].doc # 0 => writer'[u].doc # writer'[v].doc
    BY DEF HandsFit
  <2>1. /\ \A v \in Writers : HandHas(writer[v])
        /\ \A u, v \in Writers : u # v /\ writer[u].doc # 0 => writer[u].doc # writer[v].doc
    BY CountParts DEF HandsFit
  <2>2. \A v \in Writers : writer'[v].doc \in {writer[v].doc, 0}
    BY <1>1
  <2>3. ASSUME NEW v \in Writers, v # w PROVE HandHas(writer[v])'
    <3>1. HandHas(writer[v])
      BY <2>1
    <3>2. writer[v].at \in {"subtract", "add", "count"} => writer[v].doc \in Documents /\ writer[v].doc # writer[w].doc
      BY <2>1, <2>3, CountParts, CountsFit DEF PlacesFits, PlaceFit
    <3>3. writer[v].at \in {"subtract", "add", "count"} => held'[writer[v].doc] = held[writer[v].doc]
      BY <2>3, <3>2
    <3> QED
      BY <1>1, <2>3, <3>1, <3>3 DEF HandHas
  <2>4. HandHas(writer[w])'
    BY <1>1 DEF HandHas
  <2> QED
    BY <2>1, <2>2, <2>3, <2>4
<1>4. \A v \in Writers : writer'[v].at \in Scans => writer'[v].met
  BY <1>1 DEF Scans
<1>5. SeenFit'
  BY <1>4 DEF SeenFit
<1>6. ScansFit'
  BY <1>4 DEF ScansFit, ScanRowFit, Unmoved, Scans
<1> QED
  BY <1>2, <1>3, <1>5, <1>6

\* A pruning: the row is off until the next recompute that nothing crosses.
LEMMA CountPruneKeeps == ASSUME CountInv, NEW w \in Writers, Counts!Prune(w) PROVE CountInv'
<1> DEFINE d == writer[w].doc
<1>1. writer[w].at = "prune" /\ UNCHANGED <<tally, tableLock, crossed, torn, contested>>
  BY DEF Counts!Prune, Counts!At
<1>2. writer[w] \in WriterRow /\ d \in Documents /\ held \in [Documents -> Nat] /\ held[d] \in Nat
  BY <1>1, CountParts DEF CountTyped, PlacesFits, PlaceFit
<1>3. CASE UNCHANGED <<held, lagging>> /\ writer' = [writer EXCEPT ![w] = Counts!Resting]
  BY <1>1, <1>3, RestKeeps DEF Locking
<1>4. CASE \E left \in 0..(held[d] - 1), describing \in Describing :
             /\ held' = [held EXCEPT ![d] = left] /\ lagging' = TRUE
             /\ writer' = [Counts!Met(writer) EXCEPT ![w] = IF Counts!Reported(left) /\ describing THEN Counts!Recomputing(w)
                                                           ELSE Counts!Resting]
  <2>1. PICK left \in 0..(held[d] - 1), r \in {Counts!Recomputing(w), Counts!Resting} :
               held' = [held EXCEPT ![d] = left] /\ lagging' = TRUE /\ writer' = [Counts!Met(writer) EXCEPT ![w] = r]
    BY <1>4
  <2>2. left \in Nat /\ held[d] > 0
    BY <1>2, <2>1
  <2>3. /\ held' \in [Documents -> Nat] /\ \A e \in Documents : e # d => held'[e] = held[e]
    BY <1>2, <2>1, <2>2
  <2>4. r \in WriterRow /\ r.at \in {"none", "read"} /\ r.doc = 0
    BY <2>1, RecomputingFacts, RestingFacts
  <2>5. /\ writer' \in [Writers -> WriterRow] /\ writer'[w] = r
        /\ \A v \in Writers : v # w =>
             /\ writer'[v].at = writer[v].at /\ writer'[v].claimed = writer[v].claimed /\ writer'[v].batch = writer[v].batch
    BY <2>1, <2>4, AllMeet
  <2>6. ~Clean' /\ tally.there
    <3>1. ~Clean'
      BY <2>1 DEF Clean
    <3>2. tally.there
      BY <1>2, <2>2, CountParts DEF NothingYet
    <3> QED
      BY <3>1, <3>2
  <2>7. CountTyped'
    BY <1>1, <2>1, <2>3, <2>5, CountParts DEF CountTyped
  <2>8. LockFits' /\ NothingYet' /\ ClaimsFit'
    <3>1. LockFits'
      BY <1>1, <2>4, <2>5, CountParts DEF LockFits, Locking
    <3>2. NothingYet'
      BY <1>1, <2>6 DEF NothingYet
    <3>3. ClaimsFit'
      BY <1>1, <2>4, <2>5, <2>6, CountParts DEF ClaimsFit, ClaimFit, Claim, Counts!NoTally
    <3> QED
      BY <3>1, <3>2, <3>3
  <2>9. PlacesFits' /\ HandsFit' /\ SeenFit' /\ ScansFit'
    BY <1>1, <2>1, <2>3, <2>4, AllMeetKeeps
  <2>10. ResetKept' /\ CountKept'
    BY <2>6 DEF ResetKept, CountKept
  <2> QED
    BY <2>7, <2>8, <2>9, <2>10 DEF CountInv
<1> QED
  BY <1>3, <1>4 DEF Counts!Prune, Counts!Goes, Counts!Doc

LEMMA CountKeeps == ASSUME CountInv, NEW w \in Writers, Counts!Count(w) PROVE CountInv'
<1> DEFINE d == writer[w].doc
           unseen == tally'.mutations = tally.mutations /\ tally'.needs = tally.needs
<1>1. /\ writer[w].at = "count" /\ UNCHANGED <<held, crossed, torn, lagging, contested>> /\ tableLock' = 0
      /\ \E usable \in BOOLEAN : tally' = Counts!Counted(w, usable)
  BY DEF Counts!Count, Counts!At, Counts!Free
<1>2. writer[w] \in WriterRow /\ d \in Documents /\ tally \in TallyRow /\ writer \in [Writers -> WriterRow]
  BY <1>1, CountParts DEF CountTyped, PlacesFits, PlaceFit
<1>3. /\ tally' \in TallyRow /\ tally'.there /\ (unseen \/ Later(tally, tally'))
      /\ ~tally'.needs => /\ tally'.mutations > 0 /\ tally'.sum
                          /\ \/ writer[w].claimed /\ tally'.chunks = 1 /\ tally'.docs = 1
                             \/ /\ ~writer[w].claimed /\ ~tally.needs /\ tally.sum
                                /\ tally'.chunks = tally.chunks + 1 /\ tally'.docs = tally.docs + NewDoc(writer[w])
  <2>1. PICK usable \in BOOLEAN : tally' = Counts!Counted(w, usable)
    BY <1>1
  <2> QED
    BY <1>1, <2>1, CountedFacts
<1>4. tally.there /\ tableLock = w
  BY <1>1, OnlyOneLocks, CountParts, CountsFit DEF NothingYet, Locking
<1>5. \E r \in WriterRow : /\ r.at \in {"add", "read", "none"} /\ (r.at = "add" => r.doc = d /\ r.batch = 2) /\ (r.at # "add" => r.doc = 0)
                           /\ writer' = IF unseen THEN Counts!Met([writer EXCEPT ![w] = r]) ELSE [writer EXCEPT ![w] = r]
  <2> DEFINE needs == writer[w].needs \/ Counts!AsksRecompute(w)
             a == [writer[w] EXCEPT !.at = "add", !.batch = 2, !.needs = needs]
             row == IF writer[w].batch = 1 THEN a ELSE IF needs THEN Counts!Recomputing(w) ELSE Counts!Resting
  <2>1. writer' = IF unseen THEN Counts!Met([writer EXCEPT ![w] = row]) ELSE [writer EXCEPT ![w] = row]
    BY DEF Counts!Count, Counts!Unnoticed
  <2>2. needs \in BOOLEAN
    BY <1>2, WriterFacts DEF Counts!AsksRecompute
  <2>3. a \in WriterRow /\ a.at = "add" /\ a.doc = d /\ a.batch = 2
    <3> HIDE DEF needs
    <3> QED
      BY <1>2, <2>2 DEF WriterRow, CountPlaces
  <2> HIDE DEF a, needs
  <2>4. row \in WriterRow /\ row.at \in {"add", "read", "none"} /\ (row.at = "add" => row.doc = d /\ row.batch = 2) /\ (row.at # "add" => row.doc = 0)
    BY <2>3, RestingFacts, RecomputingFacts
  <2> QED
    BY <2>1, <2>4
<1>6. PICK r \in WriterRow : /\ r.at \in {"add", "read", "none"} /\ (r.at = "add" => r.doc = d /\ r.batch = 2) /\ (r.at # "add" => r.doc = 0)
                             /\ writer' = IF unseen THEN Counts!Met([writer EXCEPT ![w] = r]) ELSE [writer EXCEPT ![w] = r]
  BY <1>5
<1>7. /\ writer' \in [Writers -> WriterRow]
      /\ writer'[w].at = r.at /\ writer'[w].doc = r.doc /\ writer'[w].batch = r.batch
      /\ \A v \in Writers : v # w =>
           /\ writer'[v].at = writer[v].at /\ writer'[v].kind = writer[v].kind /\ writer'[v].doc = writer[v].doc
           /\ writer'[v].cut = writer[v].cut /\ writer'[v].batch = writer[v].batch /\ writer'[v].seen = writer[v].seen
           /\ ~writer'[v].met => ~writer[v].met /\ (unseen => writer[v].at \notin Scans)
  <2> DEFINE f == [writer EXCEPT ![w] = r]
  <2>1. f \in [Writers -> WriterRow] /\ f[w] = r /\ \A v \in Writers : v # w => f[v] = writer[v]
    BY <1>2
  <2>2. writer' = IF unseen THEN Counts!Met(f) ELSE f
    BY <1>6
  <2> HIDE DEF f, unseen
  <2>3. CASE unseen
    <3>1. writer' = Counts!Met(f)
      BY <2>2, <2>3
    <3> QED
      BY <2>1, <3>1, MetFacts
  <2>4. CASE ~unseen
    BY <2>1, <2>2, <2>4
  <2> QED
    BY <2>3, <2>4
<1>8. \A v \in Writers : writer'[v].at \notin Locking
  BY <1>1, <1>6, <1>7, OnlyOneLocks DEF Locking
<1>9. CountTyped'
  BY <1>1, <1>3, <1>7, CountParts DEF CountTyped
<1>10. LockFits' /\ NothingYet' /\ ClaimsFit'
  BY <1>1, <1>3, <1>8, CountsFit DEF LockFits, NothingYet, ClaimsFit, ClaimFit, Locking
<1>11. PlacesFits'
  <2> SUFFICES ASSUME NEW v \in Writers PROVE PlaceFit(writer[v])'
    BY DEF PlacesFits
  <2>1. CASE v = w
    BY <1>2, <1>6, <1>7, <2>1 DEF PlaceFit, Scans
  <2>2. CASE v # w
    <3>1. PlaceFit(writer[v])
      BY CountParts DEF PlacesFits
    <3> QED
      BY <1>7, <2>2, <3>1 DEF PlaceFit
  <2> QED
    BY <2>1, <2>2
<1>12. HandsFit'
  <2> SUFFICES ASSUME ~contested' PROVE /\ \A v \in Writers : HandHas(writer[v])'
                                        /\ \A u, v \in Writers : u # v /\ writer'[u].doc # 0 => writer'[u].doc # writer'[v].doc
    BY DEF HandsFit
  <2>1. /\ \A v \in Writers : HandHas(writer[v])
        /\ \A u, v \in Writers : u # v /\ writer[u].doc # 0 => writer[u].doc # writer[v].doc
    BY <1>1, CountParts DEF HandsFit
  <2>2. \A v \in Writers : writer'[v].doc \in {writer[v].doc, 0}
    BY <1>6, <1>7
  <2>3. ASSUME NEW v \in Writers, v # w PROVE HandHas(writer[v])'
    <3>1. HandHas(writer[v])
      BY <2>1
    <3> QED
      BY <1>1, <1>7, <2>3, <3>1 DEF HandHas
  <2>4. HandHas(writer[w])'
    <3>1. held[d] > 0 /\ held[d] \in Nat
      BY <1>1, <1>2, <2>1, CountParts DEF HandHas, CountTyped
    <3> QED
      BY <1>1, <1>6, <1>7, <3>1 DEF HandHas
  <2> QED
    BY <2>1, <2>2, <2>3, <2>4
<1>13. /\ tally.mutations \in Nat /\ tally'.mutations \in Nat /\ tally.needs \in BOOLEAN /\ tally'.needs \in BOOLEAN
       /\ \A v \in Writers : writer[v].seen.mutations \in Nat /\ writer[v].seen.needs \in BOOLEAN
  BY <1>2, <1>3, CountParts, WriterFacts, TallyFacts DEF CountTyped
<1>14. ASSUME NEW v \in Writers, writer'[v].at \in Scans, ~writer'[v].met
       PROVE  v # w /\ writer'[v].seen = writer[v].seen /\ NoLater(writer[v].seen, tally) /\ Later(tally, tally')
  <2>1. v # w
    BY <1>6, <1>7, <1>14 DEF Scans
  <2>2. writer[v].at \in Scans /\ ~writer[v].met /\ ~unseen /\ writer'[v].seen = writer[v].seen
    BY <1>7, <1>14, <2>1
  <2>3. NoLater(writer[v].seen, tally)
    BY <2>2, CountParts DEF SeenFit
  <2> QED
    BY <1>3, <2>1, <2>2, <2>3
<1>15. SeenFit'
  <2> SUFFICES ASSUME NEW v \in Writers, writer'[v].at \in Scans, ~writer'[v].met PROVE NoLater(writer'[v].seen, tally')
    BY DEF SeenFit, NoLater
  <2> QED
    BY <1>13, <1>14 DEF NoLater, Later
<1>16. ScansFit'
  <2>1. ASSUME NEW v \in Writers, writer'[v].at \in Scans PROVE ~Unmoved(writer[v])'
    <3> SUFFICES ASSUME ~writer'[v].met, tally'.mutations = writer'[v].seen.mutations, tally'.needs = writer'[v].seen.needs
                 PROVE  FALSE
      BY DEF Unmoved
    <3>1. writer'[v].seen = writer[v].seen /\ NoLater(writer[v].seen, tally) /\ Later(tally, tally')
      BY <2>1, <1>14
    <3> QED
      BY <3>1, <1>13 DEF NoLater, Later
  <2> QED
    BY <2>1 DEF ScansFit, ScanRowFit, Scans
<1>17. ResetKept'
  BY <1>3, <1>13 DEF ResetKept
<1>18. CountKept'
  <2> SUFFICES ASSUME Clean', ~contested', ~tally'.needs
               PROVE  (tally'.sum <=> tally'.chunks > 0) /\ tally'.chunks = Counts!Total /\ tally'.docs = Counts!Stored
    <3>1. Counts!Total' = Counts!Total /\ Counts!Stored' = Counts!Stored
      BY <1>1, TotalIs
    <3> QED
      BY <1>8, <3>1 DEF CountKept, Locking, Counts!Right
  <2>1. Clean /\ ~contested
    BY <1>1 DEF Clean
  <2>2. CASE writer[w].claimed
    <3>1. Counts!Total = 1 /\ Counts!Stored = 1
      BY <1>1, <2>1, <2>2, CountParts DEF ClaimsFit, ClaimFit
    <3> QED
      BY <1>3, <2>2, <3>1
  <2>3. CASE ~writer[w].claimed
    <3>1. tally.chunks + 1 = Counts!Total /\ tally.docs + NewDoc(writer[w]) = Counts!Stored
      BY <1>1, <1>3, <1>4, <2>1, <2>3, CountParts DEF CountKept
    <3>2. tally.chunks \in Nat
      BY <1>2, TallyFacts
    <3> QED
      BY <1>3, <2>3, <3>1, <3>2
  <2> QED
    BY <2>2, <2>3
<1> QED
  BY <1>9, <1>10, <1>11, <1>12, <1>15, <1>16, <1>17, <1>18 DEF CountInv

\* A recompute writes what it counted.
LEMMA WriteRowKeeps == ASSUME CountInv, NEW w \in Writers, Counts!WriteRow(w) PROVE CountInv'
<1>1. CASE ~Counts!UnchangedSince(w)
  BY <1>1, GiveWayKeeps
<1>2. CASE Counts!UnchangedSince(w)
  <2> DEFINE c == writer[w].chunks
             e == writer[w].docs
             s == c > 0
  <2>1. /\ writer[w].at = "write" /\ UNCHANGED <<held, tableLock, contested>> /\ tableLock = 0
        /\ tally' = [there |-> TRUE, chunks |-> c, docs |-> e, sum |-> s, mutations |-> 0, needs |-> FALSE]
        /\ crossed' = writer[w].met /\ torn' = (torn /\ writer[w].met) /\ lagging' = (lagging /\ writer[w].met)
        /\ writer' = [Counts!Met(writer) EXCEPT ![w] = Counts!Resting]
    BY <1>2 DEF Counts!WriteRow, Counts!At, Counts!Free
  <2>2. /\ c \in Nat /\ e \in Nat /\ s \in BOOLEAN
        /\ writer[w].met \in BOOLEAN /\ torn \in BOOLEAN /\ lagging \in BOOLEAN
    BY CountParts, WriterFacts DEF CountTyped
  <2>3. /\ tally' \in TallyRow /\ tally'.there /\ tally'.chunks = c /\ tally'.docs = e /\ (tally'.sum <=> tally'.chunks > 0)
    <3>1. s <=> c > 0
      OBVIOUS
    <3> HIDE DEF c, e, s
    <3> QED
      BY <2>1, <2>2, <3>1 DEF TallyRow
  <2>4. /\ writer' \in [Writers -> WriterRow] /\ writer'[w] = Counts!Resting
        /\ \A v \in Writers : v # w => writer'[v].at = writer[v].at
    BY <2>1, RestingFacts, AllMeet
  <2>5. \A v \in Writers : writer'[v].at \notin Locking
    BY <2>1, <2>4, NobodyLocks, RestingFacts DEF Locking
  <2>6. CountTyped'
    BY <2>1, <2>2, <2>3, <2>4, CountParts DEF CountTyped
  <2>7. LockFits' /\ NothingYet' /\ ClaimsFit'
    BY <2>1, <2>3, <2>5, CountsFit DEF LockFits, NothingYet, ClaimsFit, ClaimFit, Locking
  <2>8. PlacesFits' /\ HandsFit' /\ SeenFit' /\ ScansFit'
    BY <2>1, <2>3, RestingFacts, AllMeetKeeps
  <2>12. Clean' => Counts!Right'
    <3> SUFFICES ASSUME Clean' PROVE tally'.chunks = Counts!Total' /\ tally'.docs = Counts!Stored'
      BY DEF Counts!Right
    <3>1. ~writer[w].met
      BY <2>1 DEF Clean
    <3>2. Unmoved(writer[w])
      BY <1>2, <3>1 DEF Unmoved, Counts!UnchangedSince
    <3>3. c = Counts!Total /\ e = Counts!Stored
      BY <2>1, <3>2, CountParts DEF ScansFit, ScanRowFit
    <3> QED
      BY <2>1, <2>3, <3>3, TotalIs
  <2>13. ResetKept' /\ CountKept'
    BY <2>1, <2>3, <2>5, <2>12 DEF ResetKept, CountKept, Locking
  <2> QED
    BY <2>6, <2>7, <2>8, <2>13 DEF CountInv
<1> QED
  BY <1>1, <1>2

LEMMA DiesKeeps == ASSUME CountInv, NEW w \in Writers, Counts!Dies(w) PROVE CountInv'
<1>1. UNCHANGED <<held, tally, crossed, lagging, contested>>
  BY DEF Counts!Dies
<1>2. CASE tableLock # w
  <2>1. writer' = [writer EXCEPT ![w] = Counts!Resting] /\ UNCHANGED <<tableLock, torn>>
    BY <1>2 DEF Counts!Dies, Counts!Goes
  <2>2. writer[w].at \notin Locking
    BY <1>2, CountParts DEF LockFits
  <2> QED
    BY <1>1, <2>1, <2>2, RestKeeps
<1>3. CASE tableLock = w
  <2>1. tableLock' = 0 /\ torn' = TRUE /\ writer' = [Counts!Met(writer) EXCEPT ![w] = Counts!Resting]
    BY <1>3 DEF Counts!Dies, Counts!Free
  <2>2. /\ writer' \in [Writers -> WriterRow] /\ writer'[w] = Counts!Resting
        /\ \A v \in Writers : v # w => writer'[v].at = writer[v].at
    BY <2>1, RestingFacts, AllMeet
  <2>3. \A v \in Writers : writer'[v].at \notin Locking
    BY <1>3, <2>2, RestingFacts, CountParts DEF LockFits, Locking
  <2>4. ~Clean' /\ tally.there
    BY <1>3, <2>1, CountParts, CountsFit DEF Clean, NothingYet
  <2>5. CountTyped'
    BY <1>1, <2>1, <2>2, CountParts DEF CountTyped
  <2>6. LockFits' /\ NothingYet' /\ ClaimsFit'
    BY <1>1, <2>1, <2>3, <2>4, CountsFit DEF LockFits, NothingYet, ClaimsFit, ClaimFit, Locking
  <2>7. PlacesFits' /\ HandsFit' /\ SeenFit' /\ ScansFit'
    BY <1>1, <2>1, RestingFacts, AllMeetKeeps
  <2>8. ResetKept' /\ CountKept'
    BY <2>4 DEF ResetKept, CountKept
  <2> QED
    BY <2>5, <2>6, <2>7, <2>8 DEF CountInv
<1> QED
  BY <1>2, <1>3

LEMMA CountStep == ASSUME CountInv, Counts!CountNext PROVE CountInv'
<1>1. PICK w \in Writers :
        \/ \E d \in Documents, kind \in Kinds : Counts!Begin(w, kind, d)
        \/ Counts!DeleteRows(w) \/ Counts!Subtract(w) \/ Counts!AddRows(w) \/ Counts!AddFails(w) \/ Counts!Count(w)
        \/ Counts!Settle(w) \/ Counts!Prune(w) \/ Counts!ReadRow(w) \/ Counts!ScanVectors(w) \/ Counts!ScanDocuments(w)
        \/ Counts!WriteRow(w) \/ Counts!Dies(w)
  BY DEF Counts!CountNext
<1> QED
  BY <1>1, CountBeginKeeps, DeleteRowsKeeps, SubtractKeeps, AddRowsKeeps, AddFailsKeeps, CountKeeps, SettleKeeps, CountPruneKeeps,
     ReadRowKeeps, ScanVectorsKeeps, ScanDocumentsKeeps, WriteRowKeeps, DiesKeeps, Zenon

LEMMA CountStays == ASSUME CountInv, UNCHANGED Counts!countVars PROVE CountInv'
<1>1. /\ held' = held /\ tally' = tally /\ writer' = writer /\ tableLock' = tableLock
      /\ torn' = torn /\ crossed' = crossed /\ lagging' = lagging /\ contested' = contested
  BY DEF Counts!countVars
<1>2. Counts!Total' = Counts!Total /\ Counts!Stored' = Counts!Stored
  BY <1>1, TotalIs
<1>3. CountTyped' /\ LockFits' /\ PlacesFits' /\ HandsFit' /\ SeenFit'
  BY <1>1, CountParts DEF CountTyped, LockFits, PlacesFits, PlaceFit, HandsFit, HandHas, SeenFit, NoLater
<1>4. NothingYet'
  BY <1>1, CountParts DEF NothingYet, Counts!NoTally
<1>5. Clean' = Clean
  BY <1>1 DEF Clean
<1>6. ClaimsFit'
  BY <1>1, <1>2, <1>5, CountParts DEF ClaimsFit, ClaimFit, Claim, Counts!NoTally
<1>7. ScansFit'
  BY <1>1, <1>2, <1>5, CountParts DEF ScansFit, ScanRowFit, Unmoved
<1>8. ResetKept'
  BY <1>1, <1>2, <1>5, CountParts DEF ResetKept, Counts!Right
<1>9. CountKept'
  BY <1>1, <1>2, <1>5, CountParts DEF CountKept, Counts!Right, NewDoc
<1> QED
  BY <1>3, <1>4, <1>6, <1>7, <1>8, <1>9 DEF CountInv

LEMMA CountStarts == ASSUME Counts!CountInit PROVE CountInv
<1>1. /\ held \in [Documents -> {0, 2}] /\ writer = [w \in Writers |-> Counts!Resting]
      /\ tableLock = 0 /\ torn = FALSE /\ crossed = FALSE /\ lagging = FALSE /\ contested = FALSE
      /\ \/ Counts!Total = 0 /\ tally = Counts!NoTally
         \/ tally = [Counts!NoTally EXCEPT !.there = TRUE, !.chunks = Counts!Total, !.docs = Counts!Stored, !.sum = Counts!Total > 0]
  BY DEF Counts!CountInit, Counts!Free
<1>2. held \in [Documents -> Nat]
  BY <1>1
<1>3. Counts!Total \in Nat /\ Counts!Stored \in Nat
  BY <1>2, TotalIs, RowsFinite
<1>4. tally \in TallyRow /\ (tally.there => tally.chunks = Counts!Total /\ tally.docs = Counts!Stored /\ (tally.sum <=> tally.chunks > 0))
  <2>1. CASE tally = Counts!NoTally
    BY <2>1, RestingFacts
  <2>2. CASE tally = [Counts!NoTally EXCEPT !.there = TRUE, !.chunks = Counts!Total, !.docs = Counts!Stored, !.sum = Counts!Total > 0]
    <3> DEFINE c == Counts!Total
               e == Counts!Stored
               s == c > 0
    <3>1. s \in BOOLEAN /\ (s <=> c > 0) /\ c \in Nat /\ e \in Nat
      BY <1>3
    <3> HIDE DEF c, e, s
    <3>2. tally = [Counts!NoTally EXCEPT !.there = TRUE, !.chunks = c, !.docs = e, !.sum = s]
      BY <2>2 DEF c, e, s
    <3>3. tally \in TallyRow /\ tally.chunks = c /\ tally.docs = e /\ (tally.sum <=> c > 0)
      BY <3>1, <3>2 DEF TallyRow, Counts!NoTally
    <3> QED
      BY <3>3 DEF c, e
  <2> QED
    BY <1>1, <2>1, <2>2
<1>5. \A w \in Writers : writer[w] = Counts!Resting
  BY <1>1
<1>6. CountTyped
  BY <1>1, <1>2, <1>4, RestingFacts DEF CountTyped
<1>7. LockFits /\ PlacesFits /\ ClaimsFit /\ HandsFit /\ SeenFit /\ ScansFit
  BY <1>1, <1>5, RestingFacts, CountsFit DEF LockFits, Locking, PlacesFits, PlaceFit, ClaimsFit, ClaimFit, HandsFit, HandHas,
     SeenFit, ScansFit, ScanRowFit, Scans
<1>8. NothingYet
  <2> SUFFICES ASSUME ~tally.there PROVE tally = Counts!NoTally /\ \A d \in Documents : held[d] = 0
    BY <1>1, <1>5, RestingFacts DEF NothingYet
  <2>1. tally = Counts!NoTally /\ Counts!Total = 0
    BY <1>1, <1>3 DEF Counts!NoTally
  <2> QED
    BY <1>2, <2>1, RowsNone, TotalIs
<1>9. ResetKept /\ CountKept
  BY <1>4, <1>5, RestingFacts DEF ResetKept, CountKept, Counts!Right
<1> QED
  BY <1>6, <1>7, <1>8, <1>9 DEF CountInv

LEMMA CountHolds ==
  ASSUME CountInv
  PROVE  Counts!CountTypeOK /\ Counts!ShortCircuitSafe /\ Counts!CountsRight
<1>1. Counts!CountTypeOK
  BY CountParts, TallyFacts DEF Counts!CountTypeOK, CountTyped, Counts!Free
<1>2. Counts!Quiet => tableLock = 0
  BY CountParts DEF Counts!Quiet, Counts!At, LockFits, Locking, CountTyped
<1>3. Counts!ShortCircuitSafe
  BY <1>2, CountParts DEF Counts!ShortCircuitSafe, ResetKept, Clean
<1>4. Counts!CountsRight
  BY <1>2, CountParts DEF Counts!CountsRight, CountKept, Clean
<1> QED
  BY <1>1, <1>3, <1>4

\* The meta row of a collection (_do_update_meta_on_add, _do_subtract_meta_on_delete, recompute_collection_meta), for any
\* number of documents, writers and writes, with or without a description lifecycle: when nobody writes and the row asks
\* for no recompute, its counts are the table's, as long as writers had different documents (CountsRight); a row without
\* mutations is right whatever documents they shared (ShortCircuitSafe); both unless a writer was torn off, expired rows
\* were pruned or a recompute was crossed since the last recompute that nothing crossed.
THEOREM CountsAreTrue == DocumentsSpec => []CountsTrue
<1> DEFINE Inv == part = "counts" => CountInv
<1>1. DocumentsInit => Inv
  BY CountStarts, Zenon DEF DocumentsInit
<1>2. [DocumentsNext]_allVars => part' = part /\ (Counts!CountNext \/ UNCHANGED Counts!countVars)
  BY Zenon DEF DocumentsNext, allVars, countVars, Counts!countVars
<1>3. Inv /\ [DocumentsNext]_allVars => Inv'
  BY <1>2, CountStep, CountStays
<1>4. Inv => CountsTrue
  BY CountHolds DEF CountsTrue
<1> QED
  BY <1>1, <1>3, <1>4, PTL DEF DocumentsSpec
=============================================================================
