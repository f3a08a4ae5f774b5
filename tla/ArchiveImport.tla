---------------------------- MODULE ArchiveImport ----------------------------
(***************************************************************************)
(* Imports of one archive into one collection (server/routes_export.py,    *)
(* jobs/export_archive.py): batches and their checkpoints, failures and    *)
(* crashes between them, resumes that skip what a run before consumed, and *)
(* imports that compete for the collection.  A chunk is the number of its  *)
(* line.  One bulk job runs at a time, the default of [jobs].              *)
(***************************************************************************)
EXTENDS Integers, Sequences, FiniteSets, FiniteSetsExt

CONSTANTS Archive,      \* the lines: "doc", "corrupt" (no JSON object) or "undecodable"
          Imports,      \* the import jobs
          Intervals,    \* the values that [jobs].checkpoint_interval takes
          MaxTroubles   \* bound: failures, crashes, deletions and configuration changes

VARIABLES stock,        \* line -> how many rows of the table hold its chunk
          metaRow,      \* the collection's meta row exists
          import,       \* the jobs
          task,         \* the run under way
          interval, troubles,
          removed, shrunk, writers   \* history: rows deleted, interval made smaller, who wrote the collection

importVars == <<stock, metaRow, import, task, interval, troubles, removed, shrunk, writers>>

Lines == 1..Len(Archive)
DocLines == {l \in Lines : Archive[l] = "doc"}
NoStock == [l \in Lines |-> 0]
NoJob == [status |-> "none", force |-> FALSE, skipping |-> TRUE, claimed |-> FALSE, revoked |-> FALSE,
          processed |-> 0, consumed |-> 0, phase |-> "none", imported |-> 0, skipped |-> 0]
NoTask == [job |-> "none", at |-> "none", base |-> [resume |-> FALSE, processed |-> 0, skip |-> 0],
           pos |-> 0, batch |-> {}, stored |-> 0, badDocs |-> 0, badLines |-> 0, overlap |-> FALSE]
FreshStart == [resume |-> FALSE, processed |-> 0, skip |-> 0]

ImportInit == /\ stock = NoStock /\ metaRow = FALSE /\ import = [j \in Imports |-> NoJob] /\ task = NoTask
              /\ interval \in Intervals /\ troubles = 0 /\ removed = {} /\ shrunk = FALSE /\ writers = {}

Trouble == troubles < MaxTroubles /\ troubles' = troubles + 1
Running(j) == task.job = j
Job == import[task.job]
To(t) == task' = t /\ UNCHANGED <<stock, metaRow, import, interval, troubles, removed, shrunk, writers>>
Ends(status) == /\ import' = [import EXCEPT ![task.job].status = status] /\ task' = NoTask
                /\ UNCHANGED <<stock, metaRow, interval, removed, shrunk, writers>>

-----------------------------------------------------------------------------
\* import_collection: 409 for an existing collection, but not for what a cancelled import left.
CancelLeftover == \E j \in Imports : /\ import[j].status = "CANCELLED" /\ import[j].phase = "ingesting"
                                     /\ import[j].claimed /\ ~import[j].revoked
ImportCollection(j) ==
  /\ import[j].status = "none"
  /\ \E force \in BOOLEAN, skipping \in BOOLEAN :
       /\ metaRow => force \/ CancelLeftover
       /\ import' = [import EXCEPT ![j] = [NoJob EXCEPT !.status = "QUEUED", !.force = force, !.skipping = skipping]]
  /\ UNCHANGED <<stock, metaRow, task, interval, troubles, removed, shrunk, writers>>

\* The scheduler dispatches it; _resume_point.
ResumePoint(j) ==
  IF import[j].claimed \/ import[j].processed > 0
  THEN [resume |-> TRUE, processed |-> import[j].processed,
        skip |-> Max({import[j].consumed, import[j].processed})]
  ELSE FreshStart
Begin(j) ==
  /\ task = NoTask /\ import[j].status = "QUEUED"
  /\ import' = [import EXCEPT ![j].status = "RUNNING", ![j].phase = "validating"]
  /\ task' = [NoTask EXCEPT !.job = j, !.at = "check", !.base = ResumePoint(j)]
  /\ UNCHANGED <<stock, metaRow, interval, troubles, removed, shrunk, writers>>

\* _first_valid_chunk: without on_error = "skip" the line before it fails the run.
FirstDoc == Min(DocLines)
FirstFails == ~Job.skipping /\ \E l \in 1..FirstDoc : Archive[l] # "doc"
\* _owns_collection: not revoked, and the first chunk of the archive is there.
OwnsCollection == stock[FirstDoc] > 0 /\ ~Job.revoked

\* _ensure_collection_absent: a fresh run drops what it may overwrite, a resume never does.
Check ==
  /\ task.at = "check"
  /\ \/ task.base.resume /\ ~FirstFails /\ OwnsCollection /\ To([task EXCEPT !.at = "claim"])
     \/ /\ task.base.resume /\ ~FirstFails /\ ~OwnsCollection /\ ~metaRow
        /\ To([task EXCEPT !.at = "claim", !.base = FreshStart])
     \/ ~task.base.resume /\ ~metaRow /\ ~FirstFails /\ To([task EXCEPT !.at = "claim"])
     \/ /\ ~task.base.resume /\ metaRow /\ Job.force
        /\ stock' = NoStock /\ metaRow' = FALSE /\ removed' = {} /\ writers' = {}
        /\ task' = [task EXCEPT !.at = "check"] /\ UNCHANGED <<import, interval, troubles, shrunk>>
     \/ /\ FirstFails \/ (metaRow /\ IF task.base.resume THEN ~OwnsCollection ELSE ~Job.force)
        /\ Ends("FAILED") /\ UNCHANGED troubles

\* _claim_collection: every other import's claim is revoked, then this one's is written.
ClaimCollection ==
  /\ task.at = "claim"
  /\ import' = [j \in Imports |->
       IF Running(j) THEN [import[j] EXCEPT !.claimed = TRUE, !.revoked = FALSE, !.processed = task.base.processed,
                                            !.consumed = task.base.skip]
       ELSE IF import[j].status = "none" THEN import[j] ELSE [import[j] EXCEPT !.revoked = TRUE]]
  /\ task' = [task EXCEPT !.at = "read", !.pos = task.base.skip, !.overlap = task.base.resume]
  /\ UNCHANGED <<stock, metaRow, interval, troubles, removed, shrunk, writers>>

\* _ingest_docs reads on to a full batch, or to the end.
Ahead == {l \in DocLines : l > task.pos}
Batch == {l \in Ahead : Cardinality({k \in Ahead : k < l}) < interval}
BatchEnd == IF Cardinality(Batch) = interval THEN Max(Batch) ELSE Len(Archive)
Passed(kind) == Cardinality({l \in task.pos + 1..BatchEnd : Archive[l] = kind})
ReadBatch ==
  /\ task.at = "read"
  /\ IF ~Job.skipping /\ Passed("corrupt") + Passed("undecodable") > 0
     THEN Ends("FAILED") /\ UNCHANGED troubles
     ELSE To([task EXCEPT !.at = IF Batch = {} THEN "index" ELSE "store", !.pos = BatchEnd, !.batch = Batch,
                          !.badDocs = @ + Passed("undecodable"), !.badLines = @ + Passed("corrupt")])

\* _store_batch_reporting_overlap: a resume leaves out what is stored, as long as it finds some.
NewRows(batch) == IF task.overlap THEN {l \in batch : stock[l] = 0} ELSE batch
StoreBatch ==
  /\ task.at = "store"
  /\ stock' = [l \in Lines |-> IF l \in NewRows(task.batch) THEN stock[l] + 1 ELSE stock[l]]
  /\ metaRow' = TRUE /\ writers' = writers \cup {task.job}
  /\ task' = [task EXCEPT !.stored = @ + Cardinality(task.batch), !.at = "checkpoint",
                          !.overlap = @ /\ NewRows(task.batch) # task.batch]
  /\ UNCHANGED <<import, interval, troubles, removed, shrunk>>

\* _ImportCounters, and the checkpoint; a cancel is seen after it.
AllProcessed == task.base.processed + task.stored
ConsumedByImporter == task.base.skip + task.stored + task.badDocs
LinesConsumed == task.base.skip + task.stored + task.badDocs + task.badLines
Checkpoint ==
  /\ task.at = "checkpoint"
  /\ IF Cardinality(task.batch) < interval THEN To([task EXCEPT !.at = "index"])   \* the flush has none
     ELSE /\ import' = [import EXCEPT ![task.job] =
                          [@ EXCEPT !.processed = AllProcessed, !.consumed = LinesConsumed, !.phase = "ingesting",
                                    !.status = IF @ = "CANCELLING" THEN "CANCELLED" ELSE @]]
          /\ task' = IF Job.status = "CANCELLING" THEN NoTask ELSE [task EXCEPT !.at = "read", !.batch = {}]
          /\ UNCHANGED <<stock, metaRow, interval, troubles, removed, shrunk, writers>>

\* The indexing phase: one more checkpoint, then the index, the description and the warm-up.
Index ==
  /\ task.at = "index"
  /\ import' = [import EXCEPT ![task.job] = [@ EXCEPT !.processed = AllProcessed, !.consumed = LinesConsumed, !.phase = "indexing"]]
  /\ task' = [task EXCEPT !.at = "finish"] /\ UNCHANGED <<stock, metaRow, interval, troubles, removed, shrunk, writers>>
Finish ==
  /\ task.at = "finish"
  /\ import' = [import EXCEPT ![task.job] =
       IF @.status = "CANCELLING" THEN [@ EXCEPT !.status = "CANCELLED"]
       ELSE [@ EXCEPT !.status = "DONE", !.imported = AllProcessed, !.skipped = LinesConsumed - AllProcessed]]
  /\ task' = NoTask /\ UNCHANGED <<stock, metaRow, interval, troubles, removed, shrunk, writers>>

-----------------------------------------------------------------------------
\* A store call, a model or a write fails; the process dies, and a restart reads
\* RUNNING and CANCELLING as FAILED.
Breaks == task # NoTask /\ Trouble /\ Ends("FAILED")

\* POST /jobs/{id}/resume and DELETE /jobs/{id}.
Resume(j) ==
  /\ import[j].status = "FAILED" /\ import' = [import EXCEPT ![j].status = "QUEUED"]
  /\ UNCHANGED <<stock, metaRow, task, interval, troubles, removed, shrunk, writers>>
CancelImport(j) ==
  /\ import[j].status \in {"QUEUED", "RUNNING"}
  /\ import' = [import EXCEPT ![j].status = IF Running(j) THEN "CANCELLING" ELSE "CANCELLED"]
  /\ UNCHANGED <<stock, metaRow, task, interval, troubles, removed, shrunk, writers>>

\* Maintenance deletes a row; DELETE /collections removes it all, but not under a job;
\* a restart with another checkpoint_interval.
DeleteRow(l) == /\ stock[l] > 0 /\ Trouble /\ stock' = [stock EXCEPT ![l] = 0] /\ removed' = removed \cup {l}
                /\ UNCHANGED <<metaRow, import, task, interval, shrunk, writers>>
Remove == /\ metaRow /\ \A j \in Imports : import[j].status \notin {"QUEUED", "RUNNING", "CANCELLING"}
          /\ Trouble /\ stock' = NoStock /\ metaRow' = FALSE /\ removed' = {} /\ writers' = {}
          /\ UNCHANGED <<import, task, interval, shrunk>>
Reconfigure == /\ task = NoTask /\ Trouble /\ interval' \in Intervals \ {interval}
               /\ shrunk' = (shrunk \/ interval' < interval)
               /\ UNCHANGED <<stock, metaRow, import, task, removed, writers>>

ImportNext ==
  \/ \E j \in Imports : ImportCollection(j) \/ Begin(j) \/ Resume(j) \/ CancelImport(j)
  \/ Check \/ ClaimCollection \/ ReadBatch \/ StoreBatch \/ Checkpoint \/ Index \/ Finish
  \/ Breaks \/ Remove \/ Reconfigure \/ \E l \in Lines : DeleteRow(l)

ImportSpec == ImportInit /\ [][ImportNext]_importVars

ImportTypeOK ==
  /\ stock \in [Lines -> 0..Cardinality(Imports)] /\ metaRow \in BOOLEAN
  /\ \A j \in Imports : /\ import[j].status \in {"none", "QUEUED", "RUNNING", "CANCELLING", "CANCELLED", "FAILED", "DONE"}
                        /\ import[j].consumed \in 0..Len(Archive)

-----------------------------------------------------------------------------
\* However often an import breaks and is resumed, no chunk is stored twice.  (The
\* accepted limitation: rows were deleted and checkpoint_interval was made smaller.)
StoredOnce == (removed # {} /\ shrunk) \/ \A l \in Lines : stock[l] <= 1

\* An import that ends DONE has stored every chunk of the archive that decodes, and its
\* result counts each line once, as imported or as skipped.
ImportComplete ==
  [][\A j \in Imports : (import'[j].status = "DONE" /\ import[j].status # "DONE") =>
       /\ \A l \in DocLines : stock'[l] > 0 \/ l \in removed'
       /\ import'[j].imported = Cardinality(DocLines)
       /\ import'[j].imported + import'[j].skipped = Len(Archive)]_importVars

\* A resume never writes into a collection that another import wrote.
OwnCollectionOnly == Cardinality(writers) <= 1
=============================================================================
