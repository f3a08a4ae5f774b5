----------------------------- MODULE BackupLoop -----------------------------
(***************************************************************************)
(* The backups of one collection (jobs/backup_loop.py,                     *)
(* server/routes_backup.py): ticks and POST /backup/trigger enqueue export *)
(* jobs, the export task writes lines to a temp file and packs them        *)
(* (server/routes_export.py, jobs/export_archive.py), and the loop records *)
(* what is done and rotates the archives.  An archive is named after the   *)
(* second of its enqueueing.                                               *)
(***************************************************************************)
EXTENDS Integers, FiniteSets

CONSTANTS Backups,       \* 1..n: the jobs in the order of their creation
          LastSecond,    \* bound: the clock's seconds
          LineCount,     \* the chunks of the collection
          Keep, Slots,   \* [backup].keep (0: no rotation) and [jobs].max_concurrent_bulk
          MaxBreaks      \* bound: failures and restarts

VARIABLES second, backup,
          tmpLines,       \* second -> lines of <archive>.tmp, -1: no such file
          archives,    \* second -> lines of the archive, -1: none, -2: torn
          tracked,     \* the job in _in_flight, 0: none
          draining,    \* the export task has ended and calls _drain_completed
          recorded,    \* the job whose end .backup-state.json holds
          breaks, mixed

backupVars == <<second, backup, tmpLines, archives, tracked, draining, recorded, breaks, mixed>>

Seconds == 1..LastSecond
NoBackup == [status |-> "none", at |-> "none", ts |-> 0, lines |-> 0, begun |-> FALSE, own |-> FALSE]
BackupInit == /\ second = 1 /\ backup = [k \in Backups |-> NoBackup]
              /\ tmpLines = [t \in Seconds |-> -1] /\ archives = [t \in Seconds |-> -1]
              /\ tracked = 0 /\ draining = FALSE /\ recorded = 0 /\ breaks = 0 /\ mixed = {}

Break == breaks < MaxBreaks /\ breaks' = breaks + 1
Active(k) == backup[k].status \in {"QUEUED", "RUNNING", "CANCELLING"}
Put(k, b) == backup' = [backup EXCEPT ![k] = b]
Tmp(k) == tmpLines[backup[k].ts]

Clock == /\ ~draining /\ second < LastSecond /\ second' = second + 1
         /\ UNCHANGED <<backup, tmpLines, archives, tracked, draining, recorded, breaks, mixed>>

\* is_collection_in_flight, and the keys of the queued backups.
MayEnqueueIfNoneQueued == \A k \in Backups : backup[k].status # "QUEUED"
MayEnqueue == tracked = 0 /\ \A k \in Backups : backup[k].status # "QUEUED"
Enqueue(k) ==
  /\ ~draining /\ MayEnqueue /\ backup[k].status = "none" /\ \A i \in Backups : i < k => backup[i].status # "none"
  /\ Put(k, [NoBackup EXCEPT !.status = "QUEUED", !.ts = second, !.own = TRUE]) /\ tracked' = k
  /\ mixed' = mixed \cup (IF \E i \in Backups : backup[i].ts = second THEN {second} ELSE {})
  /\ UNCHANGED <<second, tmpLines, archives, draining, recorded, breaks>>
\* The loop's tick, and POST /backup/trigger: both look and create without an await between.
RunOneTick(k) == Enqueue(k)
TriggerBackup(k) == Enqueue(k)

\* The scheduler's claim; DELETE /jobs/{id} knows no QUEUED job.
Dispatch(k) ==
  /\ ~draining /\ backup[k].status = "QUEUED"
  /\ Cardinality({i \in Backups : backup[i].at # "none"}) < Slots
  /\ Put(k, [backup[k] EXCEPT !.status = "RUNNING", !.at = "claimed", !.lines = 0])
  /\ UNCHANGED <<second, tmpLines, archives, tracked, draining, recorded, breaks, mixed>>
\* The task's first progress, which a resume looks at.
CountChunks(k) ==
  /\ ~draining /\ backup[k].at = "claimed" /\ Put(k, [backup[k] EXCEPT !.at = "reading", !.begun = TRUE])
  /\ UNCHANGED <<second, tmpLines, archives, tracked, draining, recorded, breaks, mixed>>

\* ExportArchiveWriter appends to what the temp file holds.
OpenTmp(k) ==
  /\ ~draining /\ backup[k].at = "reading" /\ Put(k, [backup[k] EXCEPT !.at = "writing"])
  /\ tmpLines' = [tmpLines EXCEPT ![backup[k].ts] = IF @ = -1 THEN 0 ELSE @]
  /\ mixed' = mixed \cup (IF Tmp(k) > 0 THEN {backup[k].ts} ELSE {})
  /\ UNCHANGED <<second, archives, tracked, draining, recorded, breaks>>

\* The end of a task: its status, which JobStore.update keeps in memory also when no write of it
\* succeeds (a restart then finds RUNNING in the file, and makes it FAILED), and the drain.
Over(k, status) == Put(k, [backup[k] EXCEPT !.status = status, !.at = "none"]) /\ draining' = TRUE
WithoutTmp(k) == [tmpLines EXCEPT ![backup[k].ts] = -1]

\* A line, and after each one the look for a cancel, which removes the temp file.
WriteDoc(k) ==
  /\ ~draining /\ backup[k].at = "writing" /\ backup[k].lines < LineCount
  /\ IF backup[k].status = "CANCELLING" THEN Over(k, "CANCELLED") /\ tmpLines' = WithoutTmp(k)
     ELSE /\ Put(k, [backup[k] EXCEPT !.lines = @ + 1]) /\ UNCHANGED draining
          /\ tmpLines' = [tmpLines EXCEPT ![backup[k].ts] = IF @ = -1 THEN @ ELSE @ + 1]
  /\ UNCHANGED <<second, archives, tracked, recorded, breaks, mixed>>

\* finalize writes the archive in place; then DONE, whose write may fail too.
Finalize(k) ==
  /\ ~draining /\ backup[k].at = "writing" /\ backup[k].lines = LineCount
  /\ \/ /\ Tmp(k) >= 0 /\ archives' = [archives EXCEPT ![backup[k].ts] = Tmp(k)]
        /\ \/ Over(k, "DONE") /\ UNCHANGED breaks
           \/ Over(k, "FAILED") /\ Break
     \/ /\ \/ Tmp(k) = -1 /\ UNCHANGED breaks          \* another export of that second removed it
           \/ Break
        /\ archives' = [archives EXCEPT ![backup[k].ts] = -2] /\ Over(k, "FAILED")
  /\ tmpLines' = WithoutTmp(k) /\ UNCHANGED <<second, tracked, recorded, mixed>>
\* An exception before that.
ExportFails(k) ==
  /\ ~draining /\ backup[k].at # "none" /\ Break /\ Over(k, "FAILED")
  /\ tmpLines' = IF backup[k].at = "writing" THEN WithoutTmp(k) ELSE tmpLines
  /\ UNCHANGED <<second, archives, tracked, recorded, mixed>>

\* _rotate: all but the Keep newest names, torn ones among them; an unlink may fail.
ToDelete == {t \in Seconds : /\ Keep # 0 /\ archives[t] # -1
                             /\ Cardinality({u \in Seconds : u > t /\ archives[u] # -1}) >= Keep}
Rotate ==
  \E gone \in SUBSET ToDelete :
     /\ archives' = [t \in Seconds |-> IF t \in gone THEN -1 ELSE archives[t]]
     /\ IF gone = ToDelete THEN UNCHANGED breaks ELSE Break
\* _save_state, over what _load_state still reads.
SaveState(k) == recorded' = k

\* _drain_completed: after a task's end, and every minute; the state file may refuse.
DrainCompleted ==
  /\ draining' = FALSE
  /\ IF tracked = 0 \/ Active(tracked) THEN draining /\ UNCHANGED <<archives, tracked, recorded, breaks>>
     ELSE \/ backup[tracked].status = "DONE" /\ SaveState(tracked) /\ Rotate /\ tracked' = 0
          \/ backup[tracked].status = "DONE" /\ Break /\ UNCHANGED <<archives, tracked, recorded>>
          \/ backup[tracked].status # "DONE" /\ tracked' = 0 /\ UNCHANGED <<archives, recorded, breaks>>
  /\ UNCHANGED <<second, backup, tmpLines, mixed>>

\* A restart: the tracker is empty, RUNNING rows are FAILED and QUEUED ones stay.  A kill
\* leaves the temp files, and an archive, torn or not, if it hit the packing; a shutdown cancels
\* the tasks, whose writers remove their temp files.
Restart ==
  /\ Break /\ tracked' = 0 /\ draining' = FALSE
  /\ LET broken == {k \in Backups : backup[k].status \in {"RUNNING", "CANCELLING"}} IN
     /\ backup' = [k \in Backups |-> [backup[k] EXCEPT !.status = IF k \in broken THEN "FAILED" ELSE @, !.at = "none", !.own = FALSE]]
     /\ \/ tmpLines' = [t \in Seconds |-> IF \E k \in broken : backup[k].ts = t /\ backup[k].at = "writing" THEN -1 ELSE tmpLines[t]]
           /\ UNCHANGED archives
        \/ /\ UNCHANGED tmpLines
           /\ \/ UNCHANGED archives
              \/ \E k \in broken : \E packed \in {-2, Tmp(k)} :
                    /\ backup[k].at = "writing" /\ backup[k].lines = LineCount /\ packed # -1
                    /\ archives' = [archives EXCEPT ![backup[k].ts] = packed]
  /\ UNCHANGED <<second, recorded, mixed>>

\* resume_job: a begun export needs its temp file.  delete_job.
ResumeBackup(k) ==
  /\ ~draining /\ backup[k].status = "FAILED" /\ (backup[k].begun => Tmp(k) # -1)
  /\ Put(k, [backup[k] EXCEPT !.status = "QUEUED", !.own = FALSE])
  /\ UNCHANGED <<second, tmpLines, archives, tracked, draining, recorded, breaks, mixed>>
CancelBackup(k) ==
  /\ ~draining /\ backup[k].status = "RUNNING" /\ Put(k, [backup[k] EXCEPT !.status = "CANCELLING"])
  /\ UNCHANGED <<second, tmpLines, archives, tracked, draining, recorded, breaks, mixed>>

BackupNext ==
  \/ Clock \/ DrainCompleted \/ Restart
  \/ \E k \in Backups : \/ RunOneTick(k) \/ TriggerBackup(k) \/ Dispatch(k) \/ CountChunks(k) \/ OpenTmp(k)
                        \/ WriteDoc(k) \/ Finalize(k) \/ ExportFails(k) \/ ResumeBackup(k) \/ CancelBackup(k)

BackupSpec == BackupInit /\ [][BackupNext]_backupVars

BackupTypeOK ==
  /\ second \in Seconds /\ tracked \in {0} \cup Backups /\ recorded \in {0} \cup Backups /\ draining \in BOOLEAN
  /\ \A k \in Backups : /\ backup[k].status \in {"none", "QUEUED", "RUNNING", "CANCELLING", "CANCELLED", "FAILED", "DONE"}
                        /\ backup[k].lines \in 0..LineCount

-----------------------------------------------------------------------------
\* A backup that is DONE left an archive with every line of the collection once, or it was
\* rotated away.  (Not when two exports shared its name, or one was resumed over the lines
\* of a run that was killed: see the README.)
DoneIsWhole == \A k \in Backups : (backup[k].status = "DONE" /\ backup[k].ts \notin mixed) =>
                                     archives[backup[k].ts] \in {LineCount, -1}

\* The last backup that the state file speaks of can be restored: rotation keeps it, also
\* when failed and unrecorded exports left archives of their own.
RecordedIsKept == (recorded # 0 /\ backup[recorded].ts \notin mixed) => archives[backup[recorded].ts] = LineCount

\* Ticks and triggers never put a second backup of the collection on its way while one of
\* this process, not resumed by hand, is.
OneOnItsWay == Cardinality({k \in Backups : Active(k) /\ backup[k].own}) <= 1
=============================================================================
