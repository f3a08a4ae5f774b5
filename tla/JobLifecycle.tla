---------------------------- MODULE JobLifecycle ----------------------------
(***************************************************************************)
(* The life of every job of one archon-search server, from the route that  *)
(* creates it to the write of its terminal status, over the job table of   *)
(* JobStore: POST /ingest and the other job-creating routes, the tasks     *)
(* they spawn, the bulk scheduler, DELETE /jobs/{id}, POST                 *)
(* /jobs/{id}/resume, the maintenance retries, the lifespan shutdown, the  *)
(* death of the process and the recovery at the next start.  Every write   *)
(* of the job file may fail.                                               *)
(*                                                                         *)
(* The server is one asyncio event loop: an action is what a coroutine     *)
(* does between two awaits that matter to the job table.                   *)
(***************************************************************************)
EXTENDS JobStore, FiniteSets

CONSTANTS MaxConcurrent,  \* [jobs].max_concurrent of the scheduler
          MaxFaults       \* bound: failed writes of the job file

ASSUME BoundsAssumption == MaxConcurrent \in Nat /\ MaxFaults \in Nat

VARIABLES
    memory,   \* JobStore._jobs
    file,     \* the content of the jobs file
    task,     \* the asyncio task (or route coroutine) that owns the job
    phase,    \* the server process: up, stopping (lifespan shutdown), down
    crashed,  \* JobStore.crashed_ingest_on_load
    died,     \* history: ingest-family jobs at work when the last process
              \* died, empty after an orderly exit
    aborted,  \* history: a start that failed since then published its
              \* recovery
    faults    \* failed writes so far

vars == <<memory, file, task, phase, crashed, died, aborted, faults>>

(***************************************************************************)
(* creating: the route has stored the job and records its id on the        *)
(*   collection's meta row, under the collection lock (reindex).           *)
(* waiting: a maintenance retry waits for the collection lock.             *)
(* spawned: the task runs but has not claimed the job RUNNING.             *)
(* ending: a reindex that will not run clears its meta pointer.            *)
(* working: the task does the job's work, as a lifespan background task.   *)
(* dispatched: the same, as a task of the bulk scheduler.                  *)
(***************************************************************************)
Tasks == {"none", "creating", "waiting", "spawned", "ending", "working",
          "dispatched"}

AtWork == {"working", "dispatched"}

Bulk == {"export", "import", "migration"}

TypeOK ==
    /\ memory \in Tables
    /\ file \in Tables
    /\ task \in [Jobs -> Tasks]
    /\ phase \in {"up", "stopping", "down"}
    /\ crashed \in BOOLEAN
    /\ died \subseteq Jobs
    /\ aborted \in BOOLEAN
    /\ faults \in 0 .. MaxFaults

Init ==
    /\ memory = EmptyTable
    /\ file = EmptyTable
    /\ task = [j \in Jobs |-> "none"]
    /\ phase = "up"
    /\ crashed = FALSE
    /\ died = {}
    /\ aborted = FALSE
    /\ faults = 0

-----------------------------------------------------------------------------
Store == [mem |-> memory, file |-> file]

(* The step leaves the store s after cost failed writes.                   *)
Leaves(s, cost) ==
    /\ memory' = s.mem
    /\ file' = s.file
    /\ faults + cost <= MaxFaults
    /\ faults' = faults + cost

Owner(j, t) == task' = [task EXCEPT ![j] = t]

Process == <<phase, crashed, died, aborted>>

(* _persist_job_status: a best-effort update of a job's status.            *)
Persist(j, status) ==
    \E o \in Outcomes : Leaves(Update(Store, j, status, o), Cost(o, "ok"))

(* A persist of table t that succeeds, and one that fails and is undone.   *)
Commit(t) == Leaves(Save(Store, t, "ok"), 0)

Refuse(t) ==
    \E o \in Failures, r \in Outcomes :
        Leaves(RollBack(Store, t, o, r), Cost(o, r))

(* A successful compare-and-set of j's status, and one whose write fails.  *)
With(j, status) == [memory EXCEPT ![j] = Stamp(@, status)]

-----------------------------------------------------------------------------
(***************************************************************************)
(* Creating a job.  A failed create leaves no job in memory.               *)
(***************************************************************************)
Unused(j) == memory[j] = NoRow /\ file[j] = NoRow /\ task[j] = "none"

CreatedStatus(kind) ==
    CASE kind \in {"ingest", "reindex"} -> "PENDING"
      [] kind \in {"export", "import"} -> "QUEUED"
      [] OTHER -> "RUNNING"

(* Who runs the job: POST /ingest holds the collection lock for its task,  *)
(* the reindex route still records its pointer, the scheduler will find a  *)
(* QUEUED job, and the other routes start the work themselves.             *)
FirstOwner(kind) ==
    CASE kind = "ingest" -> "spawned"
      [] kind = "reindex" -> "creating"
      [] kind \in {"export", "import"} -> "none"
      [] OTHER -> "working"

LockHolders(c) ==
    {j \in Jobs : /\ memory[j].coll = c
                  /\ \/ task[j] = "creating"
                     \/ task[j] = "spawned" /\ memory[j].kind = "ingest"}

NeedsLock == {"ingest", "reindex", "metadata_reindex", "community_rebuild"}

CreateTable(j, kind, c) ==
    [memory EXCEPT ![j] = NewRow(kind, CreatedStatus(kind), c)]

Create(j, kind, c) ==
    /\ phase = "up"
    /\ Unused(j)
    /\ kind \in NeedsLock => LockHolders(c) = {}
    /\ \/ Commit(CreateTable(j, kind, c)) /\ Owner(j, FirstOwner(kind))
       \/ Refuse(CreateTable(j, kind, c)) /\ UNCHANGED task
    /\ UNCHANGED Process

(* POST /ingest: the task inherits the collection lock the route took.     *)
PostIngest(j, c) == Create(j, "ingest", c)

PostReindex(j, c) == Create(j, "reindex", c)

PostExport(j, c) == Create(j, "export", c)

PostImport(j, c) == Create(j, "import", c)

(* The rewrite path of POST /collections/{name}/migrate.                   *)
PostMigrate(j, c) == Create(j, "migration", c)

PostReindexMetadata(j, c) == Create(j, "metadata_reindex", c)

PostRebuildCommunities(j, c) == Create(j, "community_rebuild", c)

PostDescribe(j, c) == Create(j, "description", c)

(* POST /sync, and the sync a server runs when it starts.                  *)
StartSync(j) == Create(j, "sync", "")

(* _reenqueue_retry, _start_retry_job: a retry of a FAILED ingest of c is  *)
(* stored and handed to its task; a failed hand-over is written FAILED in  *)
(* the same step.                                                          *)
RetryIngest(j, c) ==
    /\ phase = "up"
    /\ Unused(j)
    /\ \E i \in RetryCandidates(memory, c) : memory[i].status = "FAILED"
    /\ \/ Commit(CreateTable(j, "ingest", c)) /\ Owner(j, "waiting")
       \/ Refuse(CreateTable(j, "ingest", c)) /\ UNCHANGED task
       \/ /\ \E o \in Outcomes :
                Leaves(Update(Save(Store, CreateTable(j, "ingest", c), "ok"),
                              j, "FAILED", o), Cost(o, "ok"))
          /\ UNCHANGED task
    /\ UNCHANGED Process

(* The reindex route records the job on the collection's meta row; when    *)
(* that write fails the job is FAILED and no task is spawned.              *)
RecordPointer(j) ==
    /\ phase = "up"
    /\ task[j] = "creating"
    /\ \/ Owner(j, "spawned") /\ UNCHANGED <<memory, file, faults>>
       \/ Persist(j, "FAILED") /\ Owner(j, "none")
    /\ UNCHANGED Process

(* _run_maintenance_retry gets the collection lock.                        *)
GetLock(j) ==
    /\ phase = "up"
    /\ task[j] = "waiting"
    /\ LockHolders(memory[j].coll) = {}
    /\ Owner(j, "spawned")
    /\ UNCHANGED <<memory, file, faults>>
    /\ UNCHANGED Process

-----------------------------------------------------------------------------
(***************************************************************************)
(* Claiming a job RUNNING.                                                 *)
(***************************************************************************)

(* Mutants of the two claims: a claim that is not a compare-and-set, one   *)
(* whose failed persist leaves the job PENDING, one whose refusal forgets  *)
(* the requested cancel, and a reindex that runs although its claim was    *)
(* not saved.                                                              *)
ClaimIngestUnconditionally(j) ==
    /\ phase = "up"
    /\ task[j] = "spawned"
    /\ memory[j].kind = "ingest"
    /\ Commit(With(j, "RUNNING"))
    /\ Owner(j, "working")
    /\ UNCHANGED Process

ClaimIngestOrStrand(j) ==
    /\ phase = "up"
    /\ task[j] = "spawned"
    /\ memory[j].kind = "ingest"
    /\ \/ /\ memory[j].status = "PENDING"
          /\ \/ Commit(With(j, "RUNNING")) /\ Owner(j, "working")
             \/ Refuse(With(j, "RUNNING")) /\ Owner(j, "none")
       \/ /\ memory[j].status = "CANCELLING"
          /\ Persist(j, "CANCELLED")
          /\ Owner(j, "none")
    /\ UNCHANGED Process

ClaimIngestForgetCancel(j) ==
    /\ phase = "up"
    /\ task[j] = "spawned"
    /\ memory[j].kind = "ingest"
    /\ \/ /\ memory[j].status = "PENDING"
          /\ Commit(With(j, "RUNNING"))
          /\ Owner(j, "working")
       \/ /\ memory[j].status # "PENDING"
          /\ Owner(j, "none")
          /\ UNCHANGED <<memory, file, faults>>
    /\ UNCHANGED Process

ClaimReindexAnyway(j) ==
    /\ phase = "up"
    /\ task[j] = "spawned"
    /\ memory[j].kind = "reindex"
    /\ \/ /\ memory[j].status = "PENDING"
          /\ Persist(j, "RUNNING")
          /\ Owner(j, "working")
       \/ Owner(j, "ending") /\ UNCHANGED <<memory, file, faults>>
    /\ UNCHANGED Process

(* _claim_ingest.  A failed persist of the claim raises into the task's    *)
(* own handler, which writes FAILED; a refused claim completes a requested *)
(* cancel.  A retry's row may have been cancelled and evicted meanwhile.   *)
ClaimIngest(j) ==
    /\ phase = "up"
    /\ task[j] = "spawned"
    /\ memory[j].kind \in {"ingest", "none"}
    /\ \/ /\ memory[j].status = "PENDING"
          /\ Commit(With(j, "RUNNING"))
          /\ Owner(j, "working")
       \/ /\ memory[j].status = "PENDING"
          /\ \E o \in Failures, r, u \in Outcomes :
                Leaves(Update(RollBack(Store, With(j, "RUNNING"), o, r),
                              j, "FAILED", u),
                       Cost(o, r) + Cost(u, "ok"))
          /\ Owner(j, "none")
       \/ /\ memory[j].status = "CANCELLING"
          /\ Persist(j, "CANCELLED")
          /\ Owner(j, "none")
       \/ /\ memory[j].status \notin {"PENDING", "CANCELLING"}
          /\ Owner(j, "none")
          /\ UNCHANGED <<memory, file, faults>>
    /\ UNCHANGED Process

(* _reindex_task up to _claim_reindex: a pending cancel or a failed load   *)
(* of the embedder ends the job without a claim.                           *)
ClaimReindex(j) ==
    /\ phase = "up"
    /\ task[j] = "spawned"
    /\ memory[j].kind = "reindex"
    /\ \/ /\ memory[j].status = "PENDING"
          /\ Commit(With(j, "RUNNING"))
          /\ Owner(j, "working")
       \/ /\ memory[j].status = "PENDING"
          /\ Refuse(With(j, "RUNNING"))
          /\ Owner(j, "ending")
       \/ Owner(j, "ending") /\ UNCHANGED <<memory, file, faults>>
    /\ UNCHANGED Process

(* _end_reindex_cancelled_or_failed, after the pointer is cleared.         *)
EndReindex(j) ==
    /\ phase = "up"
    /\ task[j] = "ending"
    /\ Persist(j, IF memory[j].status = "CANCELLING"
                  THEN "CANCELLED" ELSE "FAILED")
    /\ Owner(j, "none")
    /\ UNCHANGED Process

(* JobScheduler._tick, one job: the claim fails and the job stays QUEUED,  *)
(* or the job is dispatched, or dispatch_fn raises and it ends FAILED.     *)
Dispatched == {j \in Jobs : task[j] = "dispatched"}

SchedulerClaim(j) ==
    /\ phase = "up"
    /\ memory[j].kind \in Bulk
    /\ memory[j].status = "QUEUED"
    /\ Cardinality(Dispatched) < MaxConcurrent
    /\ \/ Commit(With(j, "RUNNING")) /\ Owner(j, "dispatched")
       \/ Refuse(With(j, "RUNNING")) /\ UNCHANGED task
       \/ /\ \E o \in Outcomes :
                Leaves(Update(Save(Store, With(j, "RUNNING"), "ok"),
                              j, "FAILED", o), Cost(o, "ok"))
          /\ UNCHANGED task
    /\ UNCHANGED Process

-----------------------------------------------------------------------------
(***************************************************************************)
(* The work ends.                                                          *)
(***************************************************************************)

(* A dispatched bulk task still runs while the lifespan shuts down.        *)
Runs(j) ==
    \/ phase = "up" /\ task[j] \in AtWork
    \/ phase = "stopping" /\ task[j] = "dispatched"

(* The terminal status of work that succeeded.  Ingest, reindex and import *)
(* look for a requested cancel right before it; an export looks only while *)
(* it streams chunks; the other tasks never look.                          *)
SuccessStatuses(row) ==
    IF row.status # "CANCELLING" THEN {"DONE"}
    ELSE CASE row.kind \in {"ingest", "reindex", "import"} -> {"CANCELLED"}
           [] row.kind = "export" -> {"CANCELLED", "DONE"}
           [] OTHER -> {"DONE"}

(* Tasks whose failed write of a successful end raises into their handler, *)
(* which then writes FAILED.                                               *)
FailsOnLostOutcome == Bulk \cup {"metadata_reindex"}

Succeed(j) ==
    /\ Runs(j)
    /\ \E status \in SuccessStatuses(memory[j]) :
          \/ Commit(With(j, status))
          \/ /\ memory[j].kind \notin FailsOnLostOutcome
             /\ Persist(j, status)
          \/ /\ memory[j].kind \in FailsOnLostOutcome
             /\ \E o \in Failures, u \in Outcomes :
                   Leaves(Update(Update(Store, j, status, o), j, "FAILED", u),
                          Cost(o, u))
    /\ Owner(j, "none")
    /\ UNCHANGED Process

Fail(j) ==
    /\ Runs(j)
    /\ Persist(j, "FAILED")
    /\ Owner(j, "none")
    /\ UNCHANGED Process

(* The end of each task.                                                   *)
Ends(j, kind) == memory[j].kind = kind /\ (Succeed(j) \/ Fail(j))

IngestTask(j) == Ends(j, "ingest")

ReindexTask(j) == Ends(j, "reindex")

ExportTask(j) == Ends(j, "export")

ImportTask(j) == Ends(j, "import")

MigrationTask(j) == Ends(j, "migration")

ReindexMetadataTask(j) == Ends(j, "metadata_reindex")

CommunityRebuildTask(j) == Ends(j, "community_rebuild")

SyncTask(j) == Ends(j, "sync")

DescribeTask(j) == Ends(j, "description")

(* update_progress of a bulk task: the write saves the whole table.  A     *)
(* failed one ends an export or import; a migration only logs it.          *)
Progress(j) ==
    /\ Runs(j)
    /\ memory[j].kind \in Bulk
    /\ \/ /\ Commit(With(j, memory[j].status))
          /\ UNCHANGED task
       \/ /\ memory[j].kind = "migration"
          /\ Persist(j, memory[j].status)
          /\ UNCHANGED task
       \/ /\ memory[j].kind # "migration"
          /\ \E o \in Failures, u \in Outcomes :
                Leaves(Update(Update(Store, j, memory[j].status, o),
                              j, "FAILED", u), Cost(o, u))
          /\ Owner(j, "none")
    /\ UNCHANGED Process

-----------------------------------------------------------------------------
(***************************************************************************)
(* Requests about an existing job.                                         *)
(***************************************************************************)

(* DELETE /jobs/{id}.                                                      *)
CancelTable(j) ==
    [memory EXCEPT ![j] =
        [Stamp(@, "CANCELLING") EXCEPT
            !.before_start = (memory[j].status = "PENDING")]]

(* Mutant: a cancel that does not look at the job's status first.          *)
RequestCancelBlindly(j) ==
    /\ phase = "up"
    /\ memory[j].kind \notin {"sync", "description"}
    /\ Commit(CancelTable(j)) \/ Refuse(CancelTable(j))
    /\ UNCHANGED task
    /\ UNCHANGED Process

RequestCancel(j) ==
    /\ phase = "up"
    /\ memory[j].kind \notin {"sync", "description"}
    /\ memory[j].status \in {"RUNNING", "PENDING"}
    /\ Commit(CancelTable(j)) \/ Refuse(CancelTable(j))
    /\ UNCHANGED task
    /\ UNCHANGED Process

(* POST /jobs/{id}/resume, for a bulk job whose files still exist.         *)
Resume(j) ==
    /\ phase = "up"
    /\ memory[j].kind \in Bulk
    /\ memory[j].status = "FAILED"
    /\ Commit(With(j, "QUEUED")) \/ Refuse(With(j, "QUEUED"))
    /\ UNCHANGED task
    /\ UNCHANGED Process

(* _end_retry_chain, one job of the chain.                                 *)
ExpireRetry(j) ==
    /\ phase = "up"
    /\ memory[j].kind = "ingest"
    /\ memory[j].status = "FAILED"
    /\ Commit(With(j, "FAILED_EXPIRED")) \/ Refuse(With(j, "FAILED_EXPIRED"))
    /\ UNCHANGED task
    /\ UNCHANGED Process

(* DELETE /collections/{name}, which holds the collection lock and found   *)
(* no job that may write the collection: cancel_ingest_retries.            *)
CancelIngestRetries(c) ==
    /\ phase = "up"
    /\ LockHolders(c) = {}
    /\ FindActiveCollectionJob(memory, c) = {}
    /\ RetryCandidates(memory, c) # {}
    /\ \/ Commit(WithRetriesCancelled(memory, c))
       \/ Refuse(WithRetriesCancelled(memory, c))
    /\ UNCHANGED task
    /\ UNCHANGED Process

(* Seven days pass without a write of job j.                               *)
Age(j) ==
    /\ memory[j].status \in Terminal \/ file[j].status \in Terminal
    /\ memory' = [memory EXCEPT ![j] = Aged(@)]
    /\ file' = [file EXCEPT ![j] = Aged(@)]
    /\ <<memory, file>>' # <<memory, file>>
    /\ UNCHANGED <<task, faults>>
    /\ UNCHANGED Process

-----------------------------------------------------------------------------
(***************************************************************************)
(* The server process.                                                     *)
(***************************************************************************)

(* The lifespan cancels its background tasks; the scheduler's own tasks    *)
(* are not among them.                                                     *)
BeginShutdown ==
    /\ phase = "up"
    /\ phase' = "stopping"
    /\ UNCHANGED <<memory, file, task, crashed, died, aborted, faults>>

(* The statuses a cancelled task may leave its job in: an ingest at work   *)
(* and a sync end CANCELLED, a description FAILED, a waiting retry         *)
(* completes a requested cancel, a reindex is CANCELLED when the           *)
(* cancellation reaches its ingest step; every other task just ends.       *)
StoppedStatuses(j) ==
    LET row == memory[j] IN
    CASE row.kind = "ingest" /\ task[j] = "working" -> {"CANCELLED"}
      [] row.kind = "ingest" /\ task[j] = "waiting"
             /\ row.status = "CANCELLING" -> {"CANCELLED"}
      [] row.kind = "sync" -> {"CANCELLED"}
      [] row.kind = "description" -> {"FAILED"}
      [] row.kind = "reindex" /\ task[j] = "working" ->
             {"CANCELLED", row.status}
      [] OTHER -> {row.status}

StopTask(j) ==
    /\ phase = "stopping"
    /\ task[j] \notin {"none", "dispatched"}
    /\ \E status \in StoppedStatuses(j) :
          IF status = memory[j].status
          THEN UNCHANGED <<memory, file, faults>>
          ELSE Persist(j, status)
    /\ Owner(j, "none")
    /\ UNCHANGED Process

Gone ==
    /\ phase' = "down"
    /\ memory' = EmptyTable
    /\ task' = [j \in Jobs |-> "none"]
    /\ crashed' = FALSE
    /\ aborted' = FALSE
    /\ UNCHANGED <<file, faults>>

(* The lifespan has drained its background tasks: the process exits and    *)
(* takes the scheduler's tasks with it.                                    *)
Exit ==
    /\ phase = "stopping"
    /\ \A j \in Jobs : task[j] \in {"none", "dispatched"}
    /\ died' = {}
    /\ Gone

(* kill -9, an OOM kill, a machine reset.                                  *)
Kill ==
    /\ phase \in {"up", "stopping"}
    /\ died' = {j \in Jobs : /\ task[j] \in AtWork
                             /\ memory[j].kind \in IngestFamily}
    /\ Gone

(* JobStore.__init__: load, recover and, when that changed anything, write *)
(* the file.  A failed write aborts the start.                             *)
Boot ==
    /\ phase = "down"
    /\ IF Load(file) = file
       THEN /\ Leaves([mem |-> file, file |-> file], 0)
            /\ phase' = "up"
            /\ crashed' = CrashedIngestOnLoad(file)
            /\ UNCHANGED aborted
       ELSE \/ /\ Leaves([mem |-> Load(file), file |-> Load(file)], 0)
               /\ phase' = "up"
               /\ crashed' = CrashedIngestOnLoad(file)
               /\ UNCHANGED aborted
            \/ \E o \in Failures :
               /\ Leaves([mem |-> EmptyTable,
                          file |-> Save(Store, Load(file), o).file], 1)
               /\ aborted' = (aborted \/ o = "unconfirmed")
               /\ UNCHANGED <<phase, crashed>>
    /\ UNCHANGED <<task, died>>

-----------------------------------------------------------------------------
TaskEnds(j) ==
    \/ IngestTask(j)
    \/ ReindexTask(j)
    \/ ExportTask(j)
    \/ ImportTask(j)
    \/ MigrationTask(j)
    \/ ReindexMetadataTask(j)
    \/ CommunityRebuildTask(j)
    \/ SyncTask(j)
    \/ DescribeTask(j)

TaskStep(j) ==
    \/ RecordPointer(j)
    \/ GetLock(j)
    \/ ClaimIngest(j)
    \/ ClaimReindex(j)
    \/ EndReindex(j)
    \/ SchedulerClaim(j)
    \/ TaskEnds(j)
    \/ Progress(j)

Post(j, c) ==
    \/ PostIngest(j, c)
    \/ PostReindex(j, c)
    \/ PostExport(j, c)
    \/ PostImport(j, c)
    \/ PostMigrate(j, c)
    \/ PostReindexMetadata(j, c)
    \/ PostRebuildCommunities(j, c)
    \/ PostDescribe(j, c)

Request(j) ==
    \/ \E c \in Collections : Post(j, c) \/ RetryIngest(j, c)
    \/ StartSync(j)
    \/ RequestCancel(j)
    \/ Resume(j)
    \/ ExpireRetry(j)

Next ==
    \/ \E j \in Jobs : TaskStep(j) \/ Request(j) \/ Age(j) \/ StopTask(j)
    \/ \E c \in Collections : CancelIngestRetries(c)
    \/ BeginShutdown
    \/ Exit
    \/ Kill
    \/ Boot

Spec == Init /\ [][Next]_vars

(***************************************************************************)
(* Fairness: the event loop runs every ready coroutine, the awaits of a    *)
(* job's work end, and a supervisor restarts a stopped server.             *)
(***************************************************************************)
Fairness ==
    /\ \A j \in Jobs : /\ WF_vars(RecordPointer(j))
                       /\ SF_vars(GetLock(j))
                       /\ WF_vars(ClaimIngest(j) \/ ClaimReindex(j))
                       /\ WF_vars(EndReindex(j))
                       /\ WF_vars(TaskEnds(j))
                       /\ WF_vars(StopTask(j))
    /\ WF_vars(Exit)
    /\ WF_vars(Boot)

FairSpec == Spec /\ Fairness

-----------------------------------------------------------------------------
(***************************************************************************)
(* Properties.                                                             *)
(***************************************************************************)

(* A job whose work is running is recorded as running, in memory and in    *)
(* the file: whatever writes failed before, a kill -9 at any moment leaves *)
(* a row that the next load reports as interrupted.  Work also never       *)
(* starts on a job that was cancelled before its claim.                    *)
RunningIsRecorded ==
    \A j \in Jobs : task[j] \in AtWork =>
        Interrupted(memory[j]) /\ Interrupted(file[j])

(* No job is abandoned: while the server is up, every PENDING, RUNNING or  *)
(* CANCELLING job has a live task that will end it, and one that started   *)
(* has the task that does its work.  A job nobody owns would keep          *)
(* refusing DELETE /collections/{name} until a restart.                    *)
EveryJobOwned ==
    phase = "up" => \A j \in Jobs :
        /\ memory[j].status \in {"PENDING", "RUNNING", "CANCELLING"} =>
              task[j] # "none"
        /\ Interrupted(memory[j]) => task[j] \in AtWork

(* The crash-loop guard's signal: a server that starts after a process     *)
(* died during an ingest or a sync knows it, unless a start in between     *)
(* failed right after its recovery write was published.                    *)
GuardArmed ==
    phase = "up" /\ died # {} /\ ~aborted => crashed

(* No false alarm: as long as no write of the job file failed, the guard   *)
(* is armed only by a process that died at work; an orderly shutdown and   *)
(* a job cancelled before it started arm nothing.                          *)
NoFalseAlarm ==
    phase = "up" /\ faults = 0 /\ crashed => died # {}

(* The crash-loop guard of a start is armed by a death at work, and by     *)
(* nothing else (crashed_ingest_on_load).                                  *)
GuardExact == GuardArmed /\ NoFalseAlarm

(* DONE, FAILED_EXPIRED and CANCELLED are final while the process lives:   *)
(* no late task, cancel, resume, retry or roll-back of a failed write      *)
(* changes such a row again, except that an old one is evicted; a FAILED   *)
(* row moves on only by a resume, an expiry or the removal of its          *)
(* collection.                                                             *)
MovesOn(row) ==
    IF row.status # "FAILED" THEN {}
    ELSE IF row.kind \in Bulk THEN {"QUEUED"}
    ELSE IF row.kind = "ingest" THEN {"FAILED_EXPIRED", "CANCELLED"}
    ELSE {}

FinalStatus ==
    [][\A j \in Jobs :
        memory[j].status \in Terminal /\ phase' # "down" =>
            memory'[j].status \in
                {memory[j].status, "ABSENT"} \cup MovesOn(memory[j])]_vars

(* A requested cancel settles: a CANCELLING job of a running server ends   *)
(* in a terminal status of a running server, through its task, or through  *)
(* the recovery of the next start.                                         *)
CancelSettles ==
    \A j \in Jobs :
        (phase = "up" /\ memory[j].status = "CANCELLING") ~>
            (phase = "up" /\ memory[j].status \in Terminal \cup {"ABSENT"})
=============================================================================
