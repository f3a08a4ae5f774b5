------------------------------ MODULE JobStore ------------------------------
(***************************************************************************)
(* The persistent job table of src/archon_search/jobs/store.py: the rows,  *)
(* the atomic rewrite of the JSON file, the roll-back of a failed persist  *)
(* and the recovery a new process performs when it loads the file.         *)
(*                                                                         *)
(* A table is a total function from job ids to rows; an id the table does  *)
(* not hold maps to NoRow.  A store is a record [mem |-> t, file |-> u]:   *)
(* the in-memory dict and the file's content.  The operators are pure;     *)
(* JobLifecycle turns them into actions.                                   *)
(***************************************************************************)
EXTENDS Naturals

CONSTANTS Jobs,         \* job ids (uuid4: never reused)
          Collections   \* collection names

(* The empty collection name of a SyncJob is not a collection.             *)
ASSUME CollectionsAssumption == "" \notin Collections

Kinds == {"ingest", "reindex", "export", "import", "migration",
          "metadata_reindex", "community_rebuild", "sync", "description"}

Terminal == {"DONE", "FAILED", "FAILED_EXPIRED", "CANCELLED"}

Statuses == {"PENDING", "QUEUED", "RUNNING", "CANCELLING"} \cup Terminal

(* before_start: cancelled_before_start.  old: the row's updated_at is     *)
(* more than _EVICTION_DAYS in the past.                                   *)
Row == [kind : Kinds, status : Statuses, coll : Collections \cup {""},
        before_start : BOOLEAN, old : BOOLEAN]

NoRow == [kind |-> "none", status |-> "ABSENT", coll |-> "",
          before_start |-> FALSE, old |-> FALSE]

Tables == [Jobs -> Row \cup {NoRow}]

EmptyTable == [j \in Jobs |-> NoRow]

NewRow(kind, status, c) ==
    [kind |-> kind, status |-> status, coll |-> c,
     before_start |-> FALSE, old |-> FALSE]

-----------------------------------------------------------------------------
(* A job's status is replaced and its updated_at set to now.               *)
Stamp(row, status) == [row EXCEPT !.status = status, !.old = FALSE]

(* _EVICTION_DAYS pass without a write of the job.                         *)
Aged(row) == IF row = NoRow THEN row ELSE [row EXCEPT !.old = TRUE]

Evictable(row) == row.status \in Terminal /\ row.old

Evict(t) == [j \in Jobs |-> IF Evictable(t[j]) THEN NoRow ELSE t[j]]

(***************************************************************************)
(* One attempt to write the file: it succeeds, it raises before the rename *)
(* (the old file stays), or it raises after it (the new content is in      *)
(* place, only its directory fsync failed).                                *)
(***************************************************************************)
Outcomes == {"ok", "unwritten", "unconfirmed"}

Failures == Outcomes \ {"ok"}

(* The number of failed attempts among the two outcomes.                   *)
Cost(o, r) == (IF o = "ok" THEN 0 ELSE 1) + (IF r = "ok" THEN 0 ELSE 1)

(* _write_atomic of the table t: old terminal rows leave the memory even   *)
(* when the write then fails.                                              *)
Save(store, t, outcome) ==
    [mem  |-> Evict(t),
     file |-> IF outcome = "unwritten" THEN store.file ELSE Evict(t)]

(* update(): the new status stays in memory whatever the write does.       *)
Update(store, j, status, outcome) ==
    Save(store, [store.mem EXCEPT ![j] = Stamp(@, status)], outcome)

(* A persist of t that failed with outcome is undone in memory and the     *)
(* file rewritten from memory, best-effort (outcome rewrite).              *)
RollBack(store, t, outcome, rewrite) ==
    Save(Save(store, t, outcome), store.mem, rewrite)

-----------------------------------------------------------------------------
(***************************************************************************)
(* Recovery at load: no task of the process that wrote the file is left.   *)
(***************************************************************************)
CrashStatuses == {"RUNNING", "CANCELLING"}

IngestFamily == {"ingest", "sync"}

NotStartedOnLoad == {"ingest", "reindex"}

NeverScheduledOnLoad ==
    {"community_rebuild", "metadata_reindex", "sync", "description"}

CancelledBeforeStart(row) == row.status = "CANCELLING" /\ row.before_start

(* The work of this row may have been running when the process died.       *)
Interrupted(row) == row.status \in CrashStatuses /\ ~CancelledBeforeStart(row)

NeverStarted(row) ==
    \/ row.status = "PENDING" /\ row.kind \in NotStartedOnLoad
    \/ row.status = "QUEUED" /\ row.kind \in NeverScheduledOnLoad

Recovered(row) ==
    IF CancelledBeforeStart(row) THEN Stamp(row, "CANCELLED")
    ELSE IF Interrupted(row) \/ NeverStarted(row) THEN Stamp(row, "FAILED")
    ELSE row

Load(t) == Evict([j \in Jobs |-> Recovered(t[j])])

(* Mutant: only RUNNING rows count as interrupted, not CANCELLING ones.    *)
CrashedIngestIgnoresCancelling(t) ==
    \E j \in Jobs : t[j].kind \in IngestFamily /\ t[j].status = "RUNNING"

CrashedIngestOnLoad(t) ==
    \E j \in Jobs : t[j].kind \in IngestFamily /\ Interrupted(t[j])

-----------------------------------------------------------------------------
(* COLLECTION_WRITING_JOB_STATUSES: may this row's task still write the    *)
(* row's collection?                                                       *)
WritingStatuses(kind) ==
    CASE kind \in {"ingest", "import", "migration", "metadata_reindex",
                   "community_rebuild"} -> {"RUNNING", "CANCELLING"}
      [] kind = "reindex" -> {"RUNNING", "CANCELLING", "PENDING"}
      [] OTHER -> {}

MayWriteCollection(row) == row.status \in WritingStatuses(row.kind)

FindActiveCollectionJob(t, c) ==
    {j \in Jobs : t[j].coll = c /\ MayWriteCollection(t[j])}

(* The base ingest jobs of c that a maintenance retry could run or         *)
(* re-create, each moved to CANCELLED.                                     *)
RetryCandidates(t, c) ==
    {j \in Jobs : /\ t[j].kind = "ingest"
                  /\ t[j].coll = c
                  /\ t[j].status \in {"FAILED", "PENDING"}}

WithRetriesCancelled(t, c) ==
    [j \in Jobs |-> IF j \in RetryCandidates(t, c)
                    THEN Stamp(t[j], "CANCELLED") ELSE t[j]]
=============================================================================
