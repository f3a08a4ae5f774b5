# A TLA+ verification project for archon-search

archon-search is a local retrieval server: one asyncio process (FastAPI) in front of a LanceDB store, a graph store, a
JSON job store and a TOML config, with background loops, a bulk-job scheduler, a directory watcher and language-model
clients. Most of its state belongs to the one event loop, so most of its races are *await races*: a coroutine reads
state, awaits, and acts on what it read. Worker threads load models and fire the watcher's timers; other processes
(the command line, the installer, a second server) meet it in files. Together with failed writes, and with a process
that may die between any two steps, that is where the hard behaviour is, and it is what these modules are about.

Paths below are relative to `src/archon_search/`.

## 1. Inventory

| Component | State | Operations | Hard behaviour | Modules |
|---|---|---|---|---|
| Job store (`jobs/store.py`, `_durable_io.py`) | table of jobs in memory, one JSON file | create, update, compare-and-set `transition`, `request_cancel`, `cancel_ingest_retries`, eviction, recovery at load | a write may fail before or *after* its rename; the next start has the file alone | JobStore, JobLifecycle |
| Job tasks and routes, bulk scheduler (`server/routes_jobs.py`, `jobs/scheduler.py`, ...) | one asyncio task per job, places | claim, work, outcome, cancel, resume, delete, dispatch | cancel against claim against outcome; shutdown; roll-backs | JobLifecycle |
| Retries of failed ingests (`jobs/maintenance_loop.py`) | the job rows of one retry key | retry, end of a chain | attempts and age read off rows that others change and evict | RetryChain |
| Collections (`store.py`, `server/routes_collections.py`, `server/_ingest_lock.py`) | table, meta row (the owner), config entry, lock, registered writers | add, ingest, delete, reindex, rewrite, import, sync, patch, prune, recompute | four pieces of state changed by separate calls; tenants; stale reads across awaits | CollectionLifecycle |
| Counts (`store.py`, `pipeline.py`) | rows, counts, centroid sum, mutation counter | batches, deletions, pruning, recompute | a scan of seconds without the lock, beside batches | ChunkCounts |
| Import / export, backups (`server/routes_export.py`, `jobs/export_archive.py`, `jobs/backup_loop.py`) | archives, temp files, checkpoints, backup state file | import, resume, export, tick, rotation | a crash between a batch and its checkpoint; tracking that a restart forgets | ArchiveImport, BackupLoop |
| Maintenance loop (`jobs/maintenance_loop.py`) | trigger event, `_rebuild_state`, state file | pass: GC, pruning, retries, drain of rebuild requests, save | done-callbacks that run later than the end of their task | MaintenanceLoop, Debouncer |
| Graph (`graph_store.py`, `graph_extractor.py`, `defref_extractor.py`, `community_builder.py`) | nodes, edges, mentions, communities | extraction, clean-up, GC, build | writes in separate calls beside GC; a build writes what it read minutes ago | EntityGraph, CommunityClusters |
| Descriptions (`description_*.py`) | row fields, version per collection, one generation slot with a queue, remembered failures | request, run, guarded write, set, clear, import, close, drain | versioned row reads, manual against generated, failures that cannot be stored | DescriptionLifecycle, PromptSizing |
| Server start and stop (`server/app.py`, `server/warmup.py`, `sync_suppression.py`) | crash flag, sentinel, warm-up and validation results | start, startup sync, warm-up, recovery, shutdown | crash loops; a result that arrives late | StartupGuard, CrashGuard, ModelWarmup |
| Sync and watcher (`sync.py`, `watcher.py`, `progress.py`) | mtimes, processed paths, debounce timers | diff, ingest, resume, drop of an emptied collection | edits during a run; a crash between ingest and record; timer threads | FileSync, Watcher |
| Models (`embedder_cache.py`, `warmup_coordinator.py`, `prose_extraction_backend.py`) | cached models, registrations, the build in flight, the latched failure of a load | load, wait, evict, warm up, infer | single flight, cancelled loaders, threads that cannot be stopped | EmbedderCache, WarmupCoordinator, ProseBackend |
| Search (`server/routes_search.py`, `pipeline.py`, `server/mcp.py`, `server/routes_openai_shim.py`) | none of its own | look-up, HyDE, fusion, retrieval, graph modes, rerank, context, fan-out | the index changes between the awaits; legs fail or time out | SearchFlow, SearchFanOut |
| Keys (`key_manager.py`, `server/middleware_auth.py`) | `.search.env`, `keys.json`, the published key, a cached view | first key, rotate with grace, create, revoke | files and memory changed in three steps; several processes | KeyStore, KeyFile |
| LLM clients (`llm_client/`) | rate limit, child processes, template counts | size a prompt, call, retry, probe | time-outs and cancels during a kill; token counts that are not monotone | PromptSizing, LlmCalls, TemplateCosts |
| Telemetry (`telemetry/`) | bounded queue, one file per day | append, rotate, drain, prune, read | overflow, failed rotation, drain at shutdown | TelemetryLog |
| Installer (`install/`) | config, backup, record, packages, index, service, lock file | wizard run, exits, edits, uninstall | undo on every exit; two installers | InstallRun, InstallLock |
| Evaluation harness, CLI, configuration parsing | none that the server shares | | I/O and formatting | |

How they meet: routes create jobs in the job store and hand them to tasks or to the scheduler; tasks and the
maintenance loop write collections under `store.lock_for(name)`; `find_active_collection_job` and
`has_active_writer` tell a drop who else is at work; the loop spawns rebuilds and retries; the description
lifecycle writes meta rows under the same lock; the lifespan starts all of them, decides from the recovered job
store whether a startup sync may run, and at shutdown cancels most of them before it closes the stores.

What makes each component correct is stated by the properties of section 3; `PROJECT.json` lists every component
with its status, and every hazard at its line.

## 2. Modules

```
JobStore ----> JobLifecycle -----------------> JobLifecycleProofs
CollectionLifecycle -> MCCollection ---------> CollectionLifecycleProofs
MaintenanceLoop -----------------------------> MaintenanceLoopProofs
        \----> MCMaintenance
Debouncer -----------------------------------> DebouncerProofs
        \----> MCServices <---- EmbedderCache, WarmupCoordinator, ModelWarmup, Watcher, ProseBackend
DescriptionLifecycle ------------------------> DescriptionLifecycleProofs
        \----> MCDescriptions
                   \----> MCModels <---- PromptSizing, LlmCalls, TemplateCosts
                               \-------------> ModelsProofs
StartupGuard (=> CrashGuard) -> MCDocuments <---- FileSync, ArchiveImport, ChunkCounts, EntityGraph, RetryChain
                                    \--------> DocumentsProofs
MCRequests <---- SearchFlow, SearchFanOut, KeyStore, KeyFile, BackupLoop, InstallRun, InstallLock, TelemetryLog,
        \        CommunityClusters
         \-----------------------------------> RequestsProofs
```

An action is the code between two awaits that matter to the module's state (asyncio runs it without interruption).
A call that may raise is a disjunction of its outcomes. Every bound is a constant (`Max...`, `Last...`, or a small
set) and stands in a guard.

**MC modules with parts.** MCServices, MCModels, MCDocuments and MCRequests check components that share no state
in one run: the first state chooses the component that runs (`part`), the others rest in one of their first states.
Interleaving them would multiply their states and add no behaviour. Such a run's properties are one per component: the
conjunction of the component's type invariant and its named properties, guarded by `part`.

### JobStore and JobLifecycle

`JobStore` is the table of `jobs/store.py` as pure operators: `Save` is `_write_atomic` with the outcomes of
`atomic_write_json` (`ok`; `unwritten`: raised before the rename; `unconfirmed`: raised after it), `Update` keeps
the new status in memory whatever the write does, `RollBack` undoes a failed persist and rewrites the file as a
best effort, `Load` is the recovery of `_load`. `JobLifecycle` turns them into actions: one `Post...` per route
that creates a job, the claims, the outcomes of every task kind, progress writes, `RequestCancel`, `Resume`,
`ExpireRetry`, `CancelIngestRetries`, the lifespan's `BeginShutdown`/`StopTask`/`Exit`, `Kill` at any point and
`Boot`. `task[j]` is the coroutine that owns the job.

Abstractions. Error texts, `cancel_requested`, timestamps other than "older than the eviction age", and the
contents of progress are dropped. The 409 answers to duplicate jobs and the sync lock are left out, so the model
allows more jobs than the code. Tasks of kinds that are created RUNNING count as started. The reset of a corrupt
file in `_load` and a power loss that reverts an unconfirmed rename are not modelled, nor are legacy QUEUED/PENDING
rows of older versions. A dry-run metadata reindex counts like a real one. The history variables `died` and
`aborted` record what the last process left, for the guard's properties.

### RetryChain

The base ingest jobs of one retry key (namespace, collection, path): submissions, claims and outcomes, the client's
cancel, DELETE /collections, shutdown, kill and restart, the eviction by age that every write performs, and `Pass`,
which is `_run_failed_ingest_retry` (it has no await: one step) with its failing writes. `since` is the history that
the properties speak of: what happened since the last submission. Time is counted in days. The first
state may hold a failed or a running job of the key.

### CollectionLifecycle

One collection name: `table`, `rows` (whose chunks it holds), `meta` (the owner's row), `config`/`saved` (entries of
the path in memory and on disk), `failed` (ingests that a retry would run again) and `lock`. An actor is a coroutine
with a program counter. Sixteen operations are modelled through the awaits of their handlers: DELETE, POST
/collections, POST /ingest (also by a tenant that does not own the collection), maintenance retries, reindex,
metadata reindex, import with overwrite, MCP ingest, sync, the sync's drop, PATCH and other row updates, rewrite
migration, document delete, expiry pruning. Every store call and config save may fail, lock waits may time out, and
`Crash` may happen at any point.

Abstractions. Counts and row contents are dropped (ChunkCounts has them), so `touch_last_indexed` has no effect. Any
waiter may get the lock next (asyncio's lock is FIFO: the model allows more). Config entries are counted; there is
one path. The 409 for a pinned-only collection is left out. An import's `_restore_description` is part of its forced
recompute. `syncdrop` takes every table as managed. A retry keeps its FAILED row. Two history variables: `gone` (a
DELETE succeeded and nobody asked for the collection since) and `disowned` (one of the two roll-backs that can
delete the row of stored rows did so).

### ChunkCounts

The meta row of one collection against its table. A writer ingests (delete the document's rows, subtract, add batch
by batch, count), deletes or prunes; a recompute reads the row, scans vectors and documents without the lock and
writes under it what `recompute_collection_meta` decides from the mutation counter. A pruning takes no lock, removes
some or all chunks of a document and leaves the row alone; a recompute follows only where the code asks for one: on a
server with a description lifecycle (`Describing`; the default has none, and `finalize_after_removal` returns at once)
and for documents without a chunk left (`Reported`). `lagging` remembers the pruning until a recompute that nothing
crosses. Each document has two chunks and each chunk is a batch; vectors may be unusable. Vectors and their sum are reduced to whether the row has a sum.
`contested` is set when a writer begins on a document that another has not done with; a recompute has done with its own.

### ArchiveImport and BackupLoop

ArchiveImport: imports of one archive into one collection, with corrupt and undecodable lines; the absence check,
the claim, batches, the checkpoint every `checkpoint_interval` documents, `_resume_point`, `_owns_collection`, the
rows a resume finds again, deletions and configuration changes between runs. One bulk job runs at a time (the
default). BackupLoop: ticks and triggers, the scheduler's dispatch, the export task with its temp file, the
finalisation in place, `_drain_completed` with state file and rotation, resume, cancel and restart. An archive is
named after the second of its enqueueing; `begun` and `own` say which run of an export wrote it and whether the loop
of this process tracks it, and `draining` holds the entries of a drain between its awaits. `mixed` marks archives that two exports, or a resume over a killed run's
lines, wrote together.

### MaintenanceLoop and Debouncer

One collection: the loop's coroutine (`loop`), the trigger event, its entry of `_rebuild_state`, the rebuild tasks,
the request that synonym enrichment leaves, and `communities_invalidated` in the pass and in the state file. A task
passes through `over`, the time between its end and its done-callback, in which other coroutines may run.
`stale` and `garbage` say how the stored communities relate to the graph. Task names are reused; three are enough
for a running, a finished and a new one. The FTS, orphan and expiry policies appear only as the orphans they leave
(`LeaveGarbage`); POST rebuild-communities is a job (JobLifecycle); `write_communities` deletes before it adds, so a
failed or cancelled build may leave none (`stale' \in {stale, TRUE}`). History variables: `asked`, `owed`, `lost`,
`crossed`, `used`. `settings` chooses a schedule with GC, or passes on triggers alone.

Debouncer: `schedule_synonym_enrichment` and `_on_enrichment_done` for one collection;
`schedule_pagerank_recompute` is the same code over another dictionary.

### EntityGraph and CommunityClusters

EntityGraph: the rows of the graph under the ingest of `_ingest_text` (prose nodes, edges and mentions under the
collection lock; the def/ref pass with its deletions and writes outside it), the clean-up after a deletion, and
`_run_graph_gc` with its reads and deletes as separate steps. Documents have one chunk, two prose entities that all
share and, for code, a symbol, a module and an import. What an extraction finds is chosen freely; store calls and
extractions may fail. `touched`, `met` and `swept` remember what a fault or a crossing excuses.

CommunityClusters: `CommunityBuilder.build` by the REST task and by the loop: the snapshot of the graph, Leiden as
any partition, the split of oversized groups to a depth, group after group the representatives and a summary that may
fail, and the delete and the add of `write_communities` as two steps. Builders share the rebuild lock; ingests do not take it.

### DescriptionLifecycle

The requests (`RequestGeneration` up to the row read, `AnswerRequest` after it), `_GenerationSlot` with its priority
queue, the run (`Begin`, the versioned read of `_read_row`, the model call, the guarded write under the collection
lock, the record of a failure), the operators' set, clear, import and delete, and the shutdown (`Close`, `Drain`,
`EndCancelled`, `Disconnect`). The heap of waiting requests is the place of each of them, so that "the next one" is
the request of the least place. A merge and the move of the row's version are two steps, as in
`_do_write_meta_unlocked` with its `on_merged`.

Abstractions. Texts, vectors and counts are dropped: `described` is the number of the change that wrote the text,
which tells two texts apart as `last_described` does. The 20% rule may say yes or no. A request's kind is chosen
when it is answered (before, it does not matter). `changes` counts merges, `version` the moves; `excused` marks the
two cases that `_read_row`'s docstring excludes. A merge that raises after it committed, and the unlocked row delete
of `_rollback_add`, are not modelled. The classes below describe may wait as long as describes keep coming, as the
code intends.

### StartupGuard and CrashGuard

CrashGuard is the abstract promise: once the process died while it ingested on record, nothing is ingested on the
server's own initiative, however often it restarts, until an operator's sync ends clean; `slipped` makes it void
from the failure of a write that it rests on to that sync. StartupGuard has the mechanism: RUNNING rows in the jobs
file, the flag that loading it leaves (true for one start), the sentinel file, `sync_result`, the startup sync with
its lock, POST /sync, an ingest job, the watcher's syncs, shutdown and kill. Its `Guard == INSTANCE CrashGuard WITH`
maps `held` to the result while the server is up, to flag or sentinel while it decides, and to sentinel or open rows
while it is down; `NoCrashLoop` is the refinement, checked as a property of the `documents` run.

### FileSync and Watcher

FileSync: one collection's directory. A file's content is the number of its edit, which is also its mtime. A sync
(`StartSync`, `Decide`, `LoadProcessedPaths`) and a watcher run read the state, compare, delete, ingest file by file
and record; each may fail at a file, at a state write, as a whole, be cancelled, or die with the process, and files
may be edited meanwhile. `Drop` is DELETE /collections, `OrphanSweep` the maintenance's. `doomed` marks the files
that a resume took for current (section 5). Watcher: the debounce timer's restarts by watchdog's thread, `_fire` in
the timer's thread in two steps, the coroutine on the loop, and `stop_all`.

### EmbedderCache, WarmupCoordinator, ModelWarmup, ProseBackend

EmbedderCache: `get_or_load` and `preload` over the LRU dictionary; no await happens inside the cache's lock, so each
section is one step; the thread that builds a model may hang for ever. WarmupCoordinator: the shared build task, its
time limit, its done-callback, and the worker thread that runs on after the limit, with the backend's double-checked
lock. ModelWarmup: `run_model_warmup`, the validation after it, `run_warmup_recovery`, GET /ready, and a search that
meets models still being built; a call of `warmup()` is one that ends, as WarmupCoordinator shows.

ProseBackend: the entity model that the first prose document loads. A round of `load()` finds the model, a latched
failure, another loader to wait for, or registers and starts a thread; a thread runs on after the time limit or the
cancel of its loader and may deliver late. `Infer` sends a document's texts in sub-batches, and a document whose
answers do not add up is degraded. Truncation, labels and the merging of entities are dropped.

### SearchFlow and SearchFanOut

SearchFlow: one request over one collection (POST /search, POST /explain, MCP search and search_with_context) through
HyDE, fusion, the graph modes, filters, pools, reranking and context, with a step at every await, while chunks are
deleted and re-ingested. A chunk is its place in document and ranking, the reranker prefers the opposite order, and
what the graph, the LLM and the models answer is a choice. `RightPage` compares with a reference definition of the
page. Each leg of a hybrid search ends after `Depth` rows (`candidate_depth`), before the glob, the scope prefix and
the acl are applied: the vector leg holds that many of the rows that the query's SQL predicate reaches, the text leg up
to that many. SearchFanOut: `search_many`, explain over several collections and the catch-all chat model: look-up, legs,
time-outs, merge, trim, acl and rerank, while collections are dropped. A leg over a table that is gone reads nothing
and succeeds; a local leg reads its graph chunks (`LegReadsGraph`) before its search. There is one `Depth`, although
the code reads five times as deep for a fan-out with a glob.

### KeyStore and KeyFile

KeyStore: tokens are numbers. Rotations by REST and MCP (shielded from their caller's cancel) in their three steps,
`create` and `revoke`, the reload of the view, the end of grace periods, other processes on the file (`Create`,
`Revoke`), unreadable and restored files, crash and start. KeyFile: `load_or_generate_key` of up to three
processes, with or without a key in the environment, over a file that may be missing, keyless or invalid and a temp
file that an earlier process may have left: its publication, the wait for another writer, its attempts and its
replacement of a leftover.

### PromptSizing, LlmCalls, TemplateCosts

PromptSizing: how a community summary (names by bisection, then passages), a description (draw, fit, headroom, one
retry) and a HyDE or fusion query are cut to a window, for a provider that counts and one that estimates. The cost of
n names, n excerpts or n characters is an *arbitrary* function, as tokenizers give no monotony. A cloud provider
takes the draw whole; a passage is counted with the ones before it, and reads and counts may fail. LlmCalls: the
fixed-window limiters of the graph and of the search and description calls, the `claude` child with its working
directory, descendants, time limit and (for search calls alone) retry, and a cloud call; cancels may come again during
the kill. TemplateCosts: llama_cpp's window and template counts, while the
llama-server is restarted and answers arrive late.

### TelemetryLog, InstallRun, InstallLock

TelemetryLog: the queue with its oldest-out overflow, `task_done` and `join`, files per day with failing close, open,
write and fsync, the drain with its time limit, the pruner and a windowed read. InstallRun: the wizard from its first
guard to its exits (`Leave`, `PrewarmFails`, `Abort`, `Interrupt`) with config, `.bak`, record, packages, index and
service; beside it the service indexes and the operator edits, starts and uninstalls. InstallLock: creation with
O_EXCL, the pid written after it, inspection, removal of stale locks with one retry, release.

## 3. Runs

| Run | Instance | Properties |
|---|---|---|
| `jobs` | 2 jobs of any kind, 1 collection, scheduler with 1 place, 1 failed write, `FairSpec` | `RunningIsRecorded`: working tasks have an interrupted row in memory and file. `EveryJobOwned`: no active job without a live task. `GuardExact`: the crash-loop guard is armed by a death at work and by nothing else. `FinalStatus`. `CancelSettles` |
| `collections` | 2 coroutines: one tenant with 13 operations and 2 config entries, or two tenants competing for the name | `DropExcludesWriters`, `DeletedStaysGone`, `RowsOwned` |
| `rebuilds` | both settings, 3 rebuild tasks, 1 fault of any kind, 2 GCs with garbage, 1 restart, `FairSpec` | `RebuildsTracked`: a rebuild asked for is under way or to come, none outlives the loop. `FlagAccurateUnlessLost`. `RebuildsHappen`: the flag falls, synonym edges lead to a rebuild. `TriggersServed` |
| `descriptions` | 1 collection, 3 landed changes, 3 read attempts, every first row; sizing, calls, templates | `FailureTrue`, `ManualWins`, `PromptFits`, `CallsHeld`, `BudgetTrue` |
| `generation_queue` | 3 collections, queue of 1 or 2, `FairSpec` | `QueueSound`, `DescribeSettles` |
| `services` | debouncer, cache, entity model, coordinator, warm-up, watcher, each with its fairness | `NoRequestLost`, `RequestServed`, `LoadsShared`, `WarmupShared`, `ReadyTrue`, `ChangesFollowed` |
| `documents` | sync and watcher over 2 files, startup guard, imports, counts, graph, retries | `FilesRecorded`, `NoCrashLoop` (refinement), `ImportsWhole`, `CountsTrue`, `GraphWhole`, `RetriesHeld` |
| `requests` | search, fan-out, keys, first key, backups, installer, lock, telemetry, communities | `AnswersRight`, `FanOutRight`, `KeysHold`, `BackupsKept`, `InstallSafe`, `LogWhole`, `CommunitiesWhole` |
| `rebuild_lost` (violation) | no faults at all | `RebuildKept` fails: a callback consumes another rebuild's entry |
| `changes_lost` (violation) | 2 files, 1 crash, no edits during a run | `RerunAfterCrash` fails: a resumed sync records a file that changed while the server was down |
| `counts_lost` (violation) | 2 documents, 2 writers, no pruning | `LandedBatchKept` fails: a recompute writes counts without a batch that landed during its scan |
| `collection_left_out` (violation) | 2 collections, one search | `NothingLeftOut` fails: a collection dropped after the look-up is neither searched nor excluded in a successful answer |

The MC modules' comments say of which named properties each conjunction consists; each of those is stated, with its
exceptions, at the end of its component's module.

Why the bounds are enough.

* Jobs: two of every kind give a holder and a waiter of the collection lock and of the scheduler's place, and a job
  whose row is evicted or rolled back by the other's write. One failed write may be the persist or the rewrite after
  it; the theorems cover any number.
* Collections: two coroutines give every pair of operations, which is what a lock and a check under it must
  withstand; two config entries occur because a DELETE can overlap an add.
* Maintenance: three rebuild tasks are one in flight, one whose callback is due and one new; two GCs are one that
  spawns a rebuild and one that finds it in flight; the two invariants are proved for any number of faults.
* Descriptions: three landed changes are a write during each of the three reads. Three collections
  with a queue of one or two give a holder, a waiting request and one that is refused or overtakes.
* Cache: two models beside the pinned one with one place make every load an eviction; three coroutines are a loader
  and two waiters. Coordinator: three builds are one whose thread hangs, one that waits for its lock, and a third.
  Watcher: three events are one before, one during and one after a hand-over. Entity model: two extractors are a
  loader and a waiter, three documents are a load whose thread runs on, one beside it and one after it; three texts in
  sub-batches of two give a full and a short batch.
* Files: two edits and a fault put an edit before, in and after the run that the fault breaks; the second file keeps
  a run going. Imports: five lines, intervals 1 and 2, two troubles: a break and what makes its resume delicate.
  Counts: two writers and two further writes give a batch inside each gap of a recompute; servers with and without
  descriptions. Graph: two writers beside
  one GC. Retries: two attempts and an age of one day, with eviction after two, in four days, let both limits, and
  the eviction of the origin, decide.
* Search: three chunks, a page and a pool of two: one hidden, filtered or changed chunk changes the page. The depth is
  two, so that three chunks exceed it and two, or those of an exact scope, do not (the code's depth is three times the
  pool and at least 20; the model does without that ratio). Fan-out: two legs over two chunks each.
  Keys: two rotations on the way, three tokens, two mishaps. First key: three starters are a dead writer and two that
  find its file. Backups: three jobs in two seconds. Installer: two runs and two acts of the operator; locks: three
  processes, two killed. Telemetry: queue of two, four days, retention of one. Communities: three entities, size and
  depth 1 (the code's depth is 5: the recursion at its end is what matters), two builds.
* Sizing: windows from below the template to one that fits all, four items. Calls: a
  window of one second in three, one slot, three calls of two callers, two child processes. Templates: three of them in a cache of two, two servers.

`CHECK_DEADLOCK FALSE` is used where the system may stop: after a shutdown, or when the bounded events are used up.

### Fairness

* JobLifecycle: weak fairness of the steps of a job's task, because the event loop runs every ready coroutine and
  the awaits of the work end; strong fairness of `GetLock`, because asyncio's lock is first come, first served, so
  a retry that waits gets it although others take it in between; weak fairness of `Exit` and `Boot`, because a
  supervisor (launchd, systemd) restarts the server. Requests, kills, shutdowns and the scheduler's tick are not
  fair.
* MaintenanceLoop: weak fairness of a pass's beginning (event set or interval passed), of its steps, and of each
  rebuild task and callback. GC, synonym edges, triggers and stops are not fair.
* Debouncer: weak fairness of each task and its callback.
* DescriptionLifecycle: weak fairness of each run and of the end of a cancelled one; the model call, the lock wait
  and the store calls have time limits.
* EmbedderCache: a waiter's time limit and its wake-up; *not* the end of a load. WarmupCoordinator: the build's time
  limit, its end and the return to its callers; not the threads. ProseBackend: the time limits of a load and of a
  wait, and a woken waiter's next round; not the threads. ModelWarmup: the warm-up's time limit and the
  validation after it, which has one too. Watcher: timers fire and the loop runs what was submitted to it; events and
  stops are not fair.
* The components of `documents` and `requests`, and PromptSizing, LlmCalls and TemplateCosts, are checked for safety
  (and the refinement) without fairness.

## 4. Proofs

TLAPS proves the following for every number of jobs, coroutines, tenants, tasks, failed writes and config entries.

**JobLifecycleProofs**: `TypeCorrect`, `WorkIsRecorded` (RunningIsRecorded), `NoJobAbandoned` (EveryJobOwned),
`GuardIsExact` (GuardExact, from `CrashIsNoticed` and `OnlyCrashesAlarm`), `FinalStatusHolds` (FinalStatus). None of
the properties is inductive. The invariant `IInv` adds: `WorkRecorded` (working tasks have an interrupted row in both
copies), `PendingKinds` (only ingests and reindexes are ever PENDING, so the recovery ends every PENDING row),
`OwnerFits` (which rows the tasks own that are not yet at work: a claim finds what it expects), `Owned` (per job,
EveryJobOwned) and `FamilyOwned` (an ingest or sync row says at work only while it is, also during the shutdown), `Agreed`
(without failed writes memory and file agree, which `NoFalseAlarm` needs), `Down` (nothing is in memory when the
process is down), `DeathKnown` (both guard properties, and their counterparts about the file while the process is
down). Every action is handled by a lemma about the store operation it
ends in (`Commit`, `Refuse`, `Persist`), so a failed write is argued about once and not once per route.
`FinalStatusHolds` needs `IInv` because only an owner moves a job on, and an owner implies a status that is not
final.

**CollectionLifecycleProofs**: `TypeCorrect`, `DropsExcludeWriters` (DropExcludesWriters), `RowsHaveTheirOwner`
(RowsOwned), `DeletedIsGone` (DeletedStaysGone). The invariant of the first three adds `LockHeld` (who is in a critical section is the holder), `OpFits` (the points
outside the lock that only one operation reaches), `ClaimHolds` (a batch about to store its rows owns the row, and
one that has just claimed it finds no rows, unless the collection was disowned) and `DropEmpties` (between the drop of the table and the delete of the row there are no
rows). Without `ClaimHolds` a batch could land under a row that had changed hands; without `DropEmpties` the row
delete would leave rows behind.

`DeletedIsGone` (DeletedStaysGone) needs an invariant of its own, `GoneInv`, over the scenarios of MCCollection:
`PointsFit` (which operations reach which point of the pipeline), `RowsInTable`, and for one tenant `OneTenant`,
`RecomputeSeen` (a document delete on its way to a recompute has read the row, for without one there are no vectors to
scan) and, after a DELETE, `NothingLeft` (no row, table, config entry in memory or on disk, and failed ingest) with
`Harmless` for every coroutine: none is at a point from which any of those comes back. `DeleteStep` establishes it in
the step in which the DELETE succeeds (whoever could bring the collection back is a job, a registered writer, the
holder of the lock, or cancelled), `QuietStep` keeps it through every action, and a crash finds nothing to recover.

**DebouncerProofs**: `TypeCorrect` and `RequestsAreKept` (NoRequestLost, which is inductive with the types): the
debouncer loses no request although a callback may act on the entry of another task.

**MaintenanceLoopProofs**: `RebuildsAreTracked` (RebuildsTracked), `FlagIsAccurate` (FlagAccurateUnlessLost) and
`TriggersAreKept`, for every number of tasks, faults, GCs and restarts. The invariant adds, unless entries crossed,
`OnlyTracked` (the only task is that of the entry), `MarksFit` (a mark is one that its task's callback will read) and
`Stopped` (a loop that stops has cancelled it and leaves no mark); `RebuildComing` (communities out of date have a
build to come that reads the graph as it is, or orphans that the next GC finds), `Reported` and `PassFresh` (where
they are reported: the file between passes, the pass while one runs), `TriggerHeld` (without a schedule the event stays
set during a pass). The exceptions `crossed` and `lost` are the ones of the runs (section 5).

**DocumentsProofs**: `GuardImplemented` (NoCrashLoop): StartupGuard implements CrashGuard under
the mapping of section 2. The initial states map to initial states and each action to a step of the guard or a
stutter. The simulation holds in the reachable states that `StartInv` describes: `IdleUnlessUp`, `SpawnedIsPending`,
`OneSync` (sync_lock), `AskedOnRecord` and `StartupOnRecord` (what runs has its row in the jobs file; the startup sync
unless that write failed), `HoldOnDisk` (a server that holds back has it in the sentinel, unless that write failed).

`FilesAreRecorded` (FilesRecorded, FileSync), for every number of files, edits and faults. RecordedIsIndexed speaks of
the moments without a run and is not inductive. `FilesInv` says of every mtime that is written in the state file or
that a run holds: it is true of its file or its file is an exception (doomed, blank), and it is not newer than the last edit, so that no later
edit makes a stale record current (`Sound`); and a stale file that a resume will not look at is doomed (`DoomedKnown`).
`FilesStep` argues once about all actions: what a step writes was written before, is nothing, is the stat of a file
that a resume lists, or becomes true in the step (`From`); an ingest of a version that an edit has overtaken is of the
last kind because its file is doomed.

`GraphIsWhole` (GraphWhole, EntityGraph), for every number of documents, writers, faults and collections. `GraphInv`
says of a document that no two writers and no fault have touched how far its writer has come and which of its rows are
there (`Phase`, `PhaseFit`), or, at rest, that they all are (`DocSettled`); that mentions and relations have their nodes
at every step (`RowsFit`); and of a garbage collection that what it has read still holds, unless a write outside the
lock crossed it (`SweepReads`). The argument is a frame: a writer changes only rows of its own document (`Framed`), so
the other documents' phases are kept by one lemma for all actions; only the sweep (`SweepFramed`) touches rows of all.

`CountsAreTrue` (CountsTrue, ChunkCounts), for every number of documents, writers and writes. The counts are wrong
between a writer's rows and its counts and from a pruning to the next recompute that nothing crosses (which may never
come: section 5), so neither property is inductive. `CountInv` says by how much they are wrong: `LockFits` (who is between rows and counts holds the lock),
`NothingYet` and `ClaimsFit` (without a row there is nothing, and the batch that claimed it is the only one), `HandsFit`
(which rows of a document its only writer has left or written), `CountKept` (the row is the table's, off by what the
holder of the lock has changed) and `ResetKept` (a row without mutations). A recompute may write because the counter and
the flag only rise while it scans (`SeenFit`), so that a scan that finds them unmoved has counted the table as it is
(`ScansFit`). The table's rows are counted as a finite set: one more by a batch, a document's less by a deletion
(`RowsMore`, `RowsLess`, `RowsNone`), from the library's theorems on cardinality.

**DescriptionLifecycleProofs**: `FailuresAreTrue` (FailureTrue), `QueueIsSound` (QueueSound), `ManualIsKept`
(ManualWins). `FailureTrue` needs to know, per collection, what versions stand for: `LockFits` (a run writes under the
lock, and a merge is followed by its version before the lock is free), `GuardHolds` (the guard of the write holds until
the merge), `ReadTrue` (the version a run read is, excused reads aside, that of the very row it read), `FailureLanded`,
`PastOnly` (nothing remembered is newer than the row), `NotStale` and `FailureKept` (the last failed run of the row as
it is is remembered or in the row). `QueueInv` adds that the waiting requests are finitely many, so that one of them
has the least place (`Ordered`), and that nothing outlives the shutdown.

**RequestsProofs**: `LogIsWhole` (LogWhole, TelemetryLog) from `Balanced` (the queue's count of unfinished entries is
its length), `Accounted` (every accepted entry waits, was written or was given up), `JoinedIsOver` (a drain that joined
left no task and no entry), `WindowKept`, `ListedKept` and `ShownKept` (the pruner takes no file of the window that a
read covers, before or between its steps). `BackupsAreKept` (BackupsKept, BackupLoop) from `JobsFit`, `NamesApart` (two
exports of one name are known to be mixed), `ArchiveIsOwned`, `TrackedIsNewest`, `LinesLanded` (the temp file holds what
its export wrote), `TrackedWhole` and `RecordedWhole` (the archive of a DONE job that is tracked or on record is there
and whole), `OwnIsTracked` (an active job of this process's loop is the tracked one).

`KeysAreHeld` (KeysHold, KeyStore and KeyFile) from `KeyInv`: the default key's record, and the one of the key the
server was given, never expires (`DefaultFit`), a rotation goes to a token that nobody has seen and there is one at a
time (`RotationFit`, `OneRotation`), a retired token has a record that says so or never had one (`GoneFit`), tokens not
yet issued have none (`NotIssued`). For the processes that start together, `FileInv`: unless somebody removed a temp
file that was in use, it belongs to the process that publishes it (`OwnTmp`), and in a new directory every key that a
process runs with is that of the file (`NewDirectory`).

`FanOutIsRight` (FanOutRight, SearchFanOut) from `ScopeSplit` (once looked up, each collection that was asked for is in
scope or excluded, not both), `LegsFit` (legs run only while they are waited for, with rows that the glob admits),
`LegsCount` (which legs may have failed when rows are merged), `LegsThere` (a leg that ended over no table belongs to a
collection that was dropped under the request) and `MergedFit`; after the reply nothing is enabled, so
the properties of the answer are kept as they are (`Replied`).

`AnswersAreRight` (AnswersRight, SearchFlow) from `FlowInv`: a candidate that the acl admitted was open to the caller
and the pool holds no other (`RowsFit`), which requests come to which places (`PathFit`), a HyDE vector is on its way
or was given up with a warning (`HydeFit`), what the graph's candidates and the pool hold before they are ranked
(`GraphFit`, `PoolFit`), and nothing embeds for a request that found its embedder cold (`ColdFit`). The page is the
reference's, for a collection within the candidate depth, because each leg then reads every row that the predicate
reaches (`NearestAreAll`, `AllRows`), because the top of a top is the top (`TopOfTop`), and because the ids of candidates and the eligible chunks
are in a bijection (`TopIds`), for pages and pools of any size. An explain whose page is larger than its pool shows the
pool alone (the docstring at `pipeline.py:2268` promises no more), so `RightPage` leaves it out.

`CommunitiesAreWhole` (CommunitiesWhole, CommunityClusters) from `BuildFit`: whoever holds the rebuild lock is the only
builder past it; the groups it has still to do and those it has done cover its snapshot of the graph, are disjoint and
not empty, and a group that is done fits max_cluster_size, could not be split, or is at the last depth (`GroupsFit`,
`Fitting`); and `TableFit`: the rows are those of one build. `PartitionFit` says what a clustering of a group leaves of
this, `ReplaceFit` and `MoveFit` what a split and an acceptance do. NeverOlder follows because the graph a build has
seen is at least as new as the newest one in the table, as long as it holds the lock.

`InstallIsSafe` (InstallSafe, InstallRun and InstallLock) from `RunInv`: `BranchFit` (what the three branches have in
hand, however they are interrupted), unless a run was broken `FlagsFit` (a flag has its package, or the run that wrote
it will install or revert it; what a restore brings back is covered too), unless the operator crossed a run `ServedFit`
(what is served and indexed is of the config's model) and `EditFit` (an edit is in the config and never in the record),
and with neither `RecordFit` (the record describes the config that the last run left, which a failed re-run restores);
and from `InstLockInv`: unless an unlink met a file that was not the stale one, who is past the creation has its own
file there, a file is that of somebody who is past it or dead, and a torn file is there only before anybody got on.

**ModelsProofs**: `PromptsFit` (PromptFits): whatever a tokenizer counts, what is sent fits the window. `SizingInv` is
`SizingTyped`, `PlacesFit`, `BudgetKnown` (the budget is the one of the window that was read), `NamesSized`,
`SampleSized`, `QuerySized` (what a bisection has found was counted and fitted) and `SentFits`; the lemmas say what
the budget's arithmetic leaves (`RoomHolds`, `MarginHolds`), what the bisection's result has been compared with
(`RisingAll`, `FoundMost`) and how characters are spread over excerpts (`Spread`).

`CallsAreHeld` (CallsHeld, LlmCalls) from `CallInv`: per bucket, the slots of the window that are taken are its last
grants, all of them after it began, and no earlier window's length held more than two windows' slots (`BucketFit`); per
caller, which processes may still be its own (`OwnProcess`), and that one which left early has none (`LeftClean`).
`BudgetsTrue` (BudgetTrue, TemplateCosts) from `CostInv`: a count that is cached or under way is of a server not older
than the window (`CachedFit`, `SizingFit`), and neither window nor probe is ahead of the server (`KnownOfServer`).

MCDocuments, MCRequests and MCModels choose a component in the first state; the invariants of these modules are about the state
of the proved component, and the steps of the others leave it alone (`LogStill`, `BackupStill` and their like).

The assumptions are those on the constants, and TLC evaluates them in the runs: `"" \notin Collections`, `Default \in
Namespaces`, "none" names no actor, tenant or file, `NoTask \notin Tasks`, `NoOne` is no collection; bounds and limits are
naturals, positive where the code refuses zero (`ConstantsFit`, `LimitsFit`, `BoundsFit`, `InputsFit`, `TelemetryFits`,
`BackupsFit`, `SizingFits`, `CallsFit`, `CostsFit`, `KeysFit`, `ClustersFit`, `SearchFits`);
document, writer, process and token numbers are apart from the marks that stand for none (`GraphFits`, `CountsFit`,
`KeysFit`, `InstallFits`); the documents of a collection and the entities of a graph are finitely many.

Only model-checked:

* All liveness (`CancelSettles`, `RebuildsHappen`, `TriggersServed`, `RequestServed`, `DescribeSettles` and the
  liveness parts of the services), which is out of this prover's reach.
* `ImportsWhole`: `ImportComplete` compares what an import stored and counted with a fold over the archive's lines,
  which is induction over data.
* `RetriesHeld`: the retries of a chain are bounded by what a selection over the sequence of jobs returns.
* `LoadsShared`, `WarmupShared`, `ReadyTrue` and `ChangesFollowed`: each states a liveness property along with its
  safety part.

`DeletedStaysGone` excludes expiry pruning and, with two tenants, a document delete that outlives two deletions of its
collection (section 5).

## 5. Where the code and its documentation disagree

Four disagreements have a run. `rebuild_lost`: `maintenance_loop.py:252` says that a pending mark means a re-enqueue;
`_on_rebuild_done` does not look whether the entry it finds is its own task's. `changes_lost`: the manual says that a
crash mid-index is re-run by the next sync; the resume skips what the first run processed and records the mtimes it
finds at its end. `counts_lost`: the docstring of `recompute_collection_meta` says that a batch that lands during the
scan keeps the row's totals; a row without a valid sum that is already marked shows no sign of the batch.
`collection_left_out`: the comment at
`pipeline.py:3181` says that a search over several collections fails loudly rather than leave one out; a table dropped
after the look-up is an empty leg that succeeds (`store.py:3815-3818`).

The modules contain the steps of the following ones as well. Their properties are stated so that they hold beside
them, with the exception named in the property, by a history variable or by the instance; those marked (outside)
are left out of the model, as section 2 or the text here says. They come from reading the code against its docs and
comments, and are recorded for whoever maintains it.

Jobs and retries
* A cancelled migration, metadata reindex, community rebuild or (late) export whose work succeeds ends DONE
  (`SuccessStatuses`); `Documentation/UserManual/100_jobs_and_async_operations.md:67` says CANCELLED or FAILED.
* A reindex that an orderly shutdown stops outside its ingest step stays RUNNING in the file (`StoppedStatuses`);
  line 71 of the same page says CANCELLED.
* When `_end_retry_chain`'s write for an older FAILED job fails and the newer's succeeds, the next pass retries the
  older one, or restarts the age limit, although its docstring says "End job's retry key for good" (`leaked`).
* `retry_max_age_hours` beyond half of the eviction age lets the eviction of the origin extend a chain; the model
  assumes `2 * MaxAge <= EvictAge`, which the default of 72 hours satisfies.
* `_start_retry_job` says that a job whose dispatch and FAILED write both fail stays PENDING until a restart;
  `JobStore.update` keeps FAILED in memory, so the next pass retries it.

Collections and counts
* Expiry pruning takes no lock and, on a server with descriptions, forces a recompute; when a DELETE lands between the
  two, a bare meta row of the deleted collection is written, although `pipeline.py:4010` says that a dropped collection
  is left dropped. With two tenants a document delete can outlive its collection's deletion, re-creation by the other
  tenant and second deletion, and write back a row. `DeletedStaysGone` is checked for one tenant without pruning.
* POST /collections/ releases the lock between its stub row and its ingest job (`routes_collections.py:533`); a
  DELETE that waits gets it, and the add still answers 202 for a path that is no longer configured.
* `_rollback_add` deletes the stub row without a look at the table, and after a lock timeout without the lock; an
  overwrite's failed drop is passed over and the row deleted all the same (`routes_export.py:561`). Both leave rows
  without an owner (`disowned`).
* `_ensure_collection_absent` looks for jobs and not for registered writers, so a force_overwrite drops under an MCP
  ingest or a sync; `DropExcludesWriters` asks less of an overwrite.
* A DELETE of a collection that is only configured leaves an empty table.
* Expiry pruning leaves the meta row alone, and the docstring of `finalize_after_removal` (`pipeline.py:1403`) says
  that it always needs a forced recompute. Without a description lifecycle, which is the default, none follows; with
  one, none follows when every document kept a chunk (`maintenance_loop.py:640` counts the documents that are gone) or
  when it meets another recompute. The row keeps counts that are too high, without a flag, until the next recompute
  (`lagging`).
* A death between rows and counts leaves wrong counts without a flag (`torn`); two ingests of one
  document at once duplicate its rows (`contested`).

Maintenance, graph, communities
* `Documentation/UserManual/30_configuration.md:223` says that `POST /maintenance/trigger` always works; an
  `OSError` of `_save_state` (`maintenance_loop.py:1506`) is caught nowhere and ends the loop. `TriggersServed` and
  `RebuildsHappen` ask nothing of a loop that has ended (`Over`).
* A trigger during a *scheduled* pass is answered "triggered" and wiped out by the clear after the pass;
  `TriggerKept` is about passes on triggers alone.
* After a restart, a cancelled or a failed build the next pass clears `communities_invalidated` although the
  communities are still out of date (`lost` in `FlagAccurateUnlessLost`); `schemas.py:422` says it stays set.
* The drain replaces the entry of a rebuild in flight; that rebuild is then cancelled by nobody and can outlive the
  loop (`crossed` in `RebuildsEndUncrossed`; `maintenance_loop.py:1546`).
* A request between a run's end and its callback can lead to two enrichment runs at once, which
  `maintenance_loop.py:913-916` excludes, and enrichment runs are not cancelled at shutdown, so one can begin on a
  closed store (`app.py:1188-1190`). No request is lost (`NoRequestLost`).
* The def/ref write is not under the collection lock, although the docstring of `_run_graph_gc` says that the ingest
  takes it around its graph write: GC may delete an import node between its node and edge writes (`met`).
* A def/ref extraction that cannot parse deletes the symbol nodes that the prose pass has just written; calls looked
  up before the other file's deletion leave edges without an end; `delete_graph_by_doc` deletes shared edges by the
  last writer's stamp, although the comment at its Step 3b says that this would erase others' relationships; a
  deletion's clean-up that lands after a re-ingest erases the live document's mentions (`touched`).

Descriptions and LLM calls
* A failed read remembers its failure for the row's version; when the row was deleted and created again meanwhile
  without a change of its description, `failed` can show over the new row.
* A sizing in flight when a probe succeeds returns a budget of the window read before, although the window's
  docstring says it is read live. On Windows only the `claude` child is killed, not what it started (outside).

Sync and start
* A resume skips files that changed while the server was down and records their new mtimes, and an edit or a deletion
  between a file's ingest and the end of the run is recorded as current (`doomed`); a file that was emptied keeps its
  chunks; the mtimes read before the lock can drop the records of a run in between; a sync that starts during a
  watcher's run resets it to PENDING.
* A forced reindex with a soft failure is not retried, although the comment near `sync.py:872` says so; DELETE
  /collections leaves the entry in `.indexing_state.json`, so that a path added again stays empty.
* A startup validation that ends late can overwrite the recovery's (`app.py`, near line 822); `ReadyTrue` holds
  beside it.

Search
* Failed legs are dropped in the naive, local and fusion fan-outs, although the docstring near `pipeline.py:2283` says
  that /search must fail loudly; `EveryLegCounted` is about the standard path. A leg's own TimeoutError is answered
  504. A fan-out that is asked for a collection which is dropped meanwhile says nothing of it (`collection_left_out`).
* Each leg is cut at the candidate depth before the glob, the scope prefix and the acl, so that in a larger collection
  fewer results than asked for may come back although there are more, and a page may be short without a notice of what
  the acl hid; `Documentation/Architecture/130_data_architecture_and_persistence.md:255-259` says so of the glob with a
  scope prefix. `RightPage` and `HiddenTold` are about collections within the depth.
* `expansion_warning` stays null when no variant was generated because the LLM failed, and the local mode answers 422
  when communities are not built; the API reference says otherwise of both. The global mode ignores
  `source_path_glob`. A fan-out trims before the acl, so hidden chunks crowd out visible ones. The catch-all chat
  answers 404 when a collection is dropped between its two look-ups.

Keys
* Two starters that clear a dead writer's temp file at once, or find a keyless `.search.env`, can run with a key the
  file does not hold (`meddled`; docstring near `key_manager.py:993`). An unreadable `keys.json` makes the guard
  against revoking the default key fail open. The rotation lock does not span processes (outside).

Archives and backups
* An export resumed after a kill appends to the temp file's old lines, and two exports enqueued in one second share
  archive and temp file (`mixed`). A failed or cancelled export removes its temp file, so that a resume answers 422,
  although `Documentation/UserManual/90_export_import.md:148` calls exports resumable.
* After a restart a running or resumed backup is untracked: a tick enqueues another and its end is never recorded
  (`own` in `OneOnItsWay`). A failed finalisation leaves a torn archive that the rotation counts.
* With `max_concurrent_bulk` above 1 two imports of an absent collection can both pass the absence check (outside).

Installer and telemetry
* A lock read between its creation and the write of its pid, or two contenders for one stale lock, let two installers
  in (`mistaken`). `start` and `uninstall` take no lock.
* A kill or an exception in the middle of a run leaves feature flags without their packages (`broken`).
  `_stop_service` ignores the result of `stop()`, although its docstring says that a service that cannot be stopped
  aborts before anything is deleted; an edit during a run is recorded as the wizard's, or lost by the restore
  (`crossed`).
* After a failed `os.open` at rotation the writer keeps a closed descriptor and loses one more entry (`KeptFails`). A
  crashed drain task leaves the queue without a consumer until the drain times out.

## 6. Plan

Done: the job store with its proofs, collections with their proofs, maintenance and its debouncers, descriptions, the
crash-loop guard with its refinement, retries, backups, imports, sync and watcher, embedder cache, entity model and
warm-up, keys, search, graph and communities, counts, LLM calls, telemetry, installer; proofs of the job store,
collections, maintenance, debouncers, descriptions, prompt sizes, LLM calls and their budgets, the crash-loop guard, recorded
files, the entity graph, counts, communities, keys, searches and their fan-out, telemetry, backups and the installer.

What is left, in this order:

1. Proofs: `RetriesHeld` (DocumentsProofs), and the safety parts of WarmupCoordinator, EmbedderCache and ProseBackend
   (`OneBuildAtATime`, `RegistrationOwned`, `ProseLoadedOnce`), stated apart from their liveness.
2. `IngestAdmission`: admission limits, job pointers and the 409 answers to duplicate jobs.
3. The lock map with `discard_lock` as an implementation of CollectionLifecycle's `lock`.
4. Pure algorithms against reference definitions: chunker windows, rank fusion, personalised PageRank.

## 7. Not modelled

Parsing, chunking, enrichment and embedding of text, scores and weights, archive layouts, schema migrations, request
validation, configuration parsing, logging, the command line, service definitions of the platforms and the evaluation
harness: conversions, formatting, or external calls without state of the server. LanceDB, the file system, the
language models, Leiden, watchdog and the package manager are external: their calls succeed or fail, and a failed one
may have taken effect where the code cannot tell.
