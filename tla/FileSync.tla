----------------------------- MODULE FileSync -----------------------------
(***************************************************************************)
(* How a sync and a watcher keep one collection in step with the files of  *)
(* its source directory (sync.py, progress.py): the recorded modification  *)
(* times, the processed paths that a resume skips, and the chunks in the   *)
(* table.  A file's content is the number of the edit that made it, which  *)
(* is also its mtime; 0 means that the file, its chunks or its record do   *)
(* not exist.                                                              *)
(***************************************************************************)
EXTENDS Integers, FiniteSets

CONSTANTS Files,          \* the eligible files of the directory
          Runs,           \* {"sync", "watch"} or a part of it
          MaxEdits,       \* bound: edits and deletions of files
          Faults,         \* the faults that may happen, out of "file", "state", "run", "crash" and "drop"
          MaxFaults,      \* bound: how many of them
          Racing          \* whether files may change while a run is under way

ASSUME FileSyncAssumption ==
  /\ Runs \subseteq {"sync", "watch"} /\ Racing \in BOOLEAN /\ "none" \notin Files
  /\ MaxEdits \in Nat \ {0} /\ MaxFaults \in Nat /\ Faults \subseteq {"file", "state", "run", "crash", "drop"}

VARIABLES disk,      \* Files -> the version on disk
          blank,     \* the files whose text yields no chunk
          index,     \* Files -> the version in the table, or Partial
          table,     \* whether the table exists
          entry,     \* the collection's CollectionProgress in .indexing_state.json
          turn,      \* Runs -> what the run is doing
          syncLock,  \* the holder of _get_lock(name)
          edits, faults,
          doomed     \* history: stale files that a resume is going to take for current

syncVars == <<disk, blank, index, table, entry, turn, syncLock, edits, faults, doomed>>

Partial == -1                       \* some chunks of the file, after a failed ingest
NoVersions == [f \in Files |-> 0]
NoLock == "nobody"
NoFile == [name |-> "none", ver |-> 0]

Statuses == {"none", "PENDING", "IN_PROGRESS", "DONE", "FAILED"}
NoEntry == [status |-> "none", processed |-> {}, mtimes |-> NoVersions]

\* A run: its place, the resume list, its change lists, its own mtimes and
\* processed paths, and the file whose ingest is under way.
Idle == [at |-> "idle", resume |-> {}, del |-> {}, chg |-> {}, new |-> {},
         mt |-> NoVersions, done |-> {}, cur |-> NoFile]

SyncInit == /\ disk \in [Files -> {0, 1}] /\ blank = {} /\ index = NoVersions /\ table = FALSE
            /\ entry = NoEntry /\ turn = [r \in Runs |-> Idle] /\ syncLock = NoLock
            /\ edits = 1 /\ faults = 0 /\ doomed = {}

Eligible == {f \in Files : disk[f] # 0}          \* _iter_eligible_files
Stat(S) == [f \in Files |-> IF f \in S THEN disk[f] ELSE 0]
Quiet == \A r \in Runs : turn[r].at = "idle"
Stale(f) == index[f] # disk[f]

\* A resume (_ingest_collection) skips the files of its list and records their
\* mtimes at its end; an interrupted run leaves such a list in the state file.
Committed(f) ==
  \/ \E r \in Runs : turn[r].at \in {"ingest", "resume"} /\ f \in turn[r].resume \cup turn[r].done
  \/ \E r \in Runs : turn[r].cur.name = f /\ turn[r].cur.ver # disk[f]
  \/ /\ ~table \/ entry.status \notin {"none", "DONE"}
     /\ \A r \in Runs : turn[r].at # "apply"
     /\ f \in entry.processed
\* A drop, or a failed re-ingest of an unchanged file, takes current chunks away.
Damaged(f) == ~Stale(f) /\ disk'[f] = disk[f]
History == doomed' = {f \in Files : Stale(f)' /\ (f \in doomed \/ Committed(f)' \/ Damaged(f))}

Fault(kind) == kind \in Faults /\ faults < MaxFaults /\ faults' = faults + 1

\* _safe_state_update: a failed write of the state file is swallowed.
Record(status, processed, mtimes) ==
  \/ entry' = [status |-> status, processed |-> processed, mtimes |-> mtimes] /\ UNCHANGED faults
  \/ Fault("state") /\ UNCHANGED entry

At(r, t) == turn' = [turn EXCEPT ![r] = t]

\* A file is written, emptied of text or deleted.
Edit(f) ==
  /\ edits < MaxEdits /\ edits' = edits + 1
  /\ Racing \/ Quiet
  /\ \/ disk' = [disk EXCEPT ![f] = edits + 1] /\ blank' \in {blank \cup {f}, blank \ {f}}
     \/ disk[f] # 0 /\ disk' = [disk EXCEPT ![f] = 0] /\ blank' = blank \ {f}
  /\ UNCHANGED <<index, table, entry, turn, syncLock, faults>> /\ History

\* sync: reset what a crash left IN_PROGRESS, then list the tables.
StartSync ==
  /\ "sync" \in Runs /\ turn["sync"].at = "idle"
  /\ entry' = IF entry.status = "IN_PROGRESS" THEN [entry EXCEPT !.status = "PENDING"] ELSE entry
  /\ At("sync", [Idle EXCEPT !.at = IF table THEN "listed" ELSE "adding"])
  /\ UNCHANGED <<disk, blank, index, table, syncLock, faults, edits>> /\ History

\* Step 6.5: an entry that is not DONE is resumed, any other is checked.
Decide ==
  /\ "sync" \in Runs /\ turn["sync"].at = "listed"
  /\ At("sync", [Idle EXCEPT !.at = IF entry.status \in {"none", "DONE"} THEN "checking" ELSE "adding"])
  /\ UNCHANGED <<disk, blank, index, table, entry, syncLock, faults, edits>> /\ History

\* _ingest_collection reads its resume list before it waits for the lock.
LoadProcessedPaths ==
  /\ "sync" \in Runs /\ turn["sync"].at = "adding"
  /\ At("sync", [Idle EXCEPT !.at = "ingest", !.resume = entry.processed])
  /\ UNCHANGED <<disk, blank, index, table, entry, syncLock, faults, edits>> /\ History

\* Step 7 and sync_collection read the recorded mtimes ...
ReadState(r) ==
  /\ turn[r].at = IF r = "sync" THEN "checking" ELSE "idle"
  /\ At(r, [Idle EXCEPT !.at = "diff", !.mt = entry.mtimes])
  /\ UNCHANGED <<disk, blank, index, table, entry, syncLock, faults, edits>> /\ History

\* ... and, after an await, compare them with the disk (_check_collection_changes);
\* force: the embedding model or the chunk size changed.
Changes(mt, force) ==
  [del |-> {f \in Files : mt[f] # 0 /\ disk[f] = 0},
   chg |-> IF force THEN Eligible ELSE {f \in Eligible : mt[f] # 0 /\ mt[f] # disk[f]},
   new |-> IF force THEN {} ELSE {f \in Eligible : mt[f] = 0}]
CheckChanges(r, force) ==
  /\ turn[r].at = "diff"
  /\ LET c == Changes(turn[r].mt, force) IN
     At(r, IF c.del \cup c.chg \cup c.new = {} THEN Idle
           ELSE [turn[r] EXCEPT !.at = "changes", !.del = c.del, !.chg = c.chg, !.new = c.new])
  /\ UNCHANGED <<disk, blank, index, table, entry, syncLock, faults, edits>> /\ History

\* _apply_collection_changes under the lock: IN_PROGRESS with the mtimes read before it.
BeginApply(r) ==
  /\ turn[r].at = "changes" /\ syncLock = NoLock /\ syncLock' = r
  /\ At(r, [turn[r] EXCEPT !.at = "apply", !.done = entry.processed])
  /\ Record("IN_PROGRESS", entry.processed, turn[r].mt)
  /\ UNCHANGED <<disk, blank, index, table, edits>> /\ History

\* _ingest_collection under the lock: the mtimes are cleared, the list is kept.
BeginIngest(r) ==
  /\ turn[r].at = "ingest" /\ syncLock = NoLock /\ syncLock' = r
  /\ At(r, [turn[r] EXCEPT !.at = "resume", !.new = Eligible \ turn[r].resume])
  /\ Record("IN_PROGRESS", turn[r].resume, NoVersions)
  /\ UNCHANGED <<disk, blank, index, table, edits>> /\ History

\* Every 50 files the progress is saved: here after any file, or not.
Checkpoint(t) ==
  \/ UNCHANGED <<entry, faults>>
  \/ IF t.at = "apply" THEN Record("IN_PROGRESS", t.done, t.mt)
     ELSE Record("IN_PROGRESS", t.resume \cup t.done, NoVersions)

Deleted(t, f) == [t EXCEPT !.del = @ \ {f}, !.mt[f] = 0, !.done = @ \ {f}]
DeleteFile(r, f) ==
  /\ turn[r].at = "apply" /\ f \in turn[r].del
  /\ index' = [index EXCEPT ![f] = 0]
  /\ At(r, Deleted(turn[r], f)) /\ Checkpoint(Deleted(turn[r], f))
  /\ UNCHANGED <<disk, blank, table, syncLock, edits>> /\ History

\* The deletions come first, then the changed files, then the new ones.
NextFiles(t) == IF t.del # {} THEN {} ELSE IF t.chg # {} THEN t.chg ELSE t.new

\* ingest_file: the parse reads the file as it is now.
BeginFile(r, f) ==
  /\ turn[r].at \in {"apply", "resume"} /\ turn[r].cur = NoFile /\ f \in NextFiles(turn[r])
  /\ disk[f] # 0
  /\ At(r, [turn[r] EXCEPT !.cur = [name |-> f, ver |-> disk[f]]])
  /\ UNCHANGED <<disk, blank, index, table, entry, syncLock, faults, edits>> /\ History

\* After an ingest that answers ok the file is stat-ed and recorded; a resume
\* only lists it.  A failed one is forgotten, so that the next sync retries it.
\* _ingest_text answers ok to a text without chunks before it deletes the old ones.
Ingested(t, f) ==
  [t EXCEPT !.chg = @ \ {f}, !.new = @ \ {f}, !.cur = NoFile, !.done = @ \cup {f},
            !.mt[f] = IF t.at = "apply" /\ disk[f] # 0 THEN disk[f] ELSE @]
SkippedButStamped(t, f) ==
  [t EXCEPT !.chg = @ \ {f}, !.new = @ \ {f}, !.cur = NoFile, !.mt[f] = disk[f],
            !.done = IF f \in t.chg THEN @ \ {f} ELSE @]
Skipped(t, f) ==
  [t EXCEPT !.chg = @ \ {f}, !.new = @ \ {f}, !.cur = NoFile,
            !.done = IF f \in t.chg THEN @ \ {f} ELSE @]
FileIngested(r, f) ==
  /\ turn[r].cur.name = f
  /\ index' = [index EXCEPT ![f] = IF f \in blank THEN @ ELSE turn[r].cur.ver]
  /\ table' = (table \/ f \notin blank)
  /\ At(r, Ingested(turn[r], f)) /\ Checkpoint(Ingested(turn[r], f))
  /\ UNCHANGED <<disk, blank, syncLock, edits>> /\ History

\* A parse error, a missing file, a fatal extraction, a busy store after the delete.
FileFails(r, f) ==
  /\ \/ turn[r].cur.name = f /\ Fault("file")
        /\ index' \in {[index EXCEPT ![f] = v] : v \in {index[f], 0, Partial}}
     \/ /\ turn[r].at \in {"apply", "resume"} /\ turn[r].cur = NoFile /\ f \in NextFiles(turn[r])
        /\ disk[f] = 0 /\ UNCHANGED <<index, faults>>
  /\ At(r, Skipped(turn[r], f))
  /\ UNCHANGED <<disk, blank, table, entry, syncLock, edits>> /\ History

\* The state that a run writes at its end: a resume stats every file of its lists.
Processed(t) == IF t.at = "apply" THEN t.done ELSE t.resume \cup t.done
Mtimes(t) == IF t.at = "apply" THEN t.mt ELSE Stat(t.resume \cup t.done)
Release(r) == syncLock' = NoLock /\ At(r, Idle)
Finish(r) ==
  /\ turn[r].at \in {"apply", "resume"} /\ turn[r].cur = NoFile
  /\ turn[r].del \cup turn[r].chg \cup turn[r].new = {}
  /\ Release(r) /\ Record("DONE", Processed(turn[r]), Mtimes(turn[r]))
  /\ UNCHANGED <<disk, blank, index, table, edits>> /\ History

\* The file under way when a run breaks keeps its chunks, some of them or none.
Torn(R) ==
  {[f \in Files |-> IF f = g THEN v ELSE index[f]] :
     g \in {turn[r].cur.name : r \in R} \cup {"none"}, v \in {0, Partial}} \cup {index}
Fails(r) ==
  /\ Fault("run") /\ turn[r].at \in {"apply", "resume"}
  /\ index' \in Torn({r}) /\ Release(r)
  /\ entry' = [status |-> "FAILED", processed |-> Processed(turn[r]), mtimes |-> Mtimes(turn[r])]
  /\ UNCHANGED <<disk, blank, table, edits>> /\ History

\* A time limit or a shutdown cancels the run: nothing is written.
Cancelled(r) ==
  /\ Fault("run") /\ turn[r].at # "idle"
  /\ index' \in Torn({r}) /\ At(r, Idle)
  /\ syncLock' = IF syncLock = r THEN NoLock ELSE syncLock
  /\ UNCHANGED <<disk, blank, table, entry, edits>> /\ History

\* The process dies; a new one starts with no run and a free lock.
Crash ==
  /\ Fault("crash") /\ ~Quiet
  /\ index' \in Torn(Runs) /\ turn' = [r \in Runs |-> Idle] /\ syncLock' = NoLock
  /\ UNCHANGED <<disk, blank, table, entry, edits>> /\ History

\* DELETE /collections/{name}, then the path is configured again: the route
\* refuses while a run is registered as a writer, and leaves the state file alone.
Drop ==
  /\ Fault("drop") /\ table
  /\ \A r \in Runs : turn[r].at \notin {"ingest", "changes", "apply", "resume"}
  /\ table' = FALSE /\ index' = NoVersions
  /\ UNCHANGED <<disk, blank, entry, turn, syncLock, edits>> /\ History

\* The maintenance sweep removes the documents whose file is gone (_run_orphan_cleanup).
OrphanSweep(f) ==
  /\ index[f] # 0 /\ disk[f] = 0
  /\ index' = [index EXCEPT ![f] = 0]
  /\ UNCHANGED <<disk, blank, table, entry, turn, syncLock, faults, edits>> /\ History

SyncNext ==
  \/ \E f \in Files : Edit(f) \/ OrphanSweep(f)
  \/ StartSync \/ Decide \/ LoadProcessedPaths \/ Drop \/ Crash
  \/ \E r \in Runs : \/ ReadState(r) \/ BeginApply(r) \/ BeginIngest(r)
                     \/ Finish(r) \/ Fails(r) \/ Cancelled(r)
                     \/ \E force \in BOOLEAN : CheckChanges(r, force)
                     \/ \E f \in Files : DeleteFile(r, f) \/ BeginFile(r, f) \/ FileIngested(r, f) \/ FileFails(r, f)

SyncSpec == SyncInit /\ [][SyncNext]_syncVars

SyncTypeOK ==
  /\ disk \in [Files -> 0..MaxEdits] /\ blank \subseteq Files
  /\ index \in [Files -> {Partial} \cup 0..MaxEdits] /\ table \in BOOLEAN
  /\ entry.status \in Statuses /\ entry.processed \subseteq Files /\ entry.mtimes \in [Files -> 0..MaxEdits]
  /\ syncLock \in Runs \cup {NoLock} /\ doomed \subseteq Files
  /\ \A r \in Runs : turn[r].at \in {"idle", "listed", "checking", "adding", "diff", "changes", "ingest", "apply", "resume"}

\* A file that is recorded as current is in the table as it is on disk: only then
\* does it matter that no later sync looks at it again.  The exceptions are the
\* files that a resume took for current (doomed) and those that lost their text.
RecordedIsIndexed ==
  Quiet => \A f \in Files \ (doomed \cup blank) :
             disk[f] # 0 /\ entry.mtimes[f] = disk[f] => ~Stale(f)

\* What the manual says of a run that a crash interrupted: the next sync re-runs
\* it, so that a sync that ends DONE leaves no stale file recorded as current.
RerunAfterCrash ==
  Quiet /\ entry.status = "DONE" =>
    \A f \in Files \ blank : disk[f] # 0 /\ entry.mtimes[f] = disk[f] => ~Stale(f)
=============================================================================
