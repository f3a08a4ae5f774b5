------------------------ MODULE CollectionLifecycle ------------------------
(***************************************************************************)
(* One collection name of the store: its LanceDB table, its meta row, its  *)
(* entries in the config file, and every operation that creates, writes or *)
(* drops it: POST and DELETE /collections, POST /ingest and its            *)
(* maintenance retries, the jobs created under the collection lock, import *)
(* with its overwrite, MCP ingests, collection syncs, rewrite migrations,  *)
(* document deletes, expiry pruning, and read-modify-writes of the row.    *)
(*                                                                         *)
(* An actor is a coroutine: a request handler, or the task it spawned.  An *)
(* action is what it does between two awaits that matter here.  The lock   *)
(* of the collection is its holder, and any waiter may be next (the code's *)
(* asyncio.Lock is first come, first served, so the model allows more).    *)
(* Every call of the store and every save of a file may fail; the process  *)
(* may die at any point.                                                   *)
(***************************************************************************)
EXTENDS Naturals

CONSTANTS Actors,       \* coroutines
          Namespaces,   \* tenants
          Default,      \* DEFAULT_NAMESPACE
          Starts,       \* the operations clients and loops start
          MaxEntries    \* bound: config entries of the one path

Ops == {"none", "delete", "add", "ingest", "foreign", "retry", "reindex",
        "metadata", "import", "mcp", "sync", "syncdrop", "patch", "rewrite",
        "erase", "prune"}

ASSUME DefaultAssumption == Default \in Namespaces

ASSUME StartsAssumption == Starts \subseteq Ops /\ MaxEntries \in Nat

(* "none" stands for no holder and no owner.                               *)
ASSUME NoneAssumption == "none" \notin Actors \cup Namespaces

VARIABLES
    table,     \* the LanceDB table exists
    rows,      \* the namespaces whose chunks the table holds
    meta,      \* the namespace of the meta row, or "none"
    config,    \* entries of the path in config.collections, in memory
    saved,     \* the same in the config file
    failed,    \* namespaces with a FAILED base ingest in the job store
    lock,      \* the holder of lock_for(collection), or "none"
    act,       \* what each actor does
    gone,      \* history: deleted, and nobody asked for it since
    disowned   \* history: the meta row of stored rows was removed

data == <<table, rows, meta>>
conf == <<config, saved>>
history == <<gone, disowned>>
vars == <<table, rows, meta, config, saved, failed, lock, act, gone,
          disowned>>

(* Waiting for the collection lock.                                        *)
Waiting == {"delete_wait", "stub_wait", "add_wait", "post_wait",
            "retry_wait", "missing_wait", "batch_wait", "erase_wait",
            "recompute_wait", "create_wait", "rewrite_wait", "patch_wait",
            "overwrite_wait", "register_wait", "syncdrop_wait"}

(* Holding it.                                                             *)
Locked == {"drop", "unmeta", "adding", "undo_locked", "spawned", "rows",
           "count", "rewrite", "patch", "overwrite", "overwrite_meta",
           "syncdrop"}

Pcs == Waiting \cup Locked \cup
       {"idle", "append", "undo", "unlocked", "dispatch", "run", "ensure",
        "import_start", "prune", "settle"}

(* op: the operation; pc: how far it is; ns: the namespace it acts for;    *)
(* row: the meta row it read, or the claim its batch made; listed: the     *)
(* config entries its DELETE found at first, then the ones it removed.     *)
Acts == [op : Ops, pc : Pcs, ns : Namespaces, row : BOOLEAN, listed : Nat]

Idle == [op |-> "none", pc |-> "idle", ns |-> Default, row |-> FALSE,
         listed |-> 0]

TypeOK ==
    /\ table \in BOOLEAN
    /\ rows \subseteq Namespaces
    /\ meta \in Namespaces \cup {"none"}
    /\ config \in Nat
    /\ saved \in Nat
    /\ failed \subseteq Namespaces
    /\ lock \in Actors \cup {"none"}
    /\ act \in [Actors -> Acts]
    /\ gone \in BOOLEAN
    /\ disowned \in BOOLEAN

Init ==
    /\ table = FALSE
    /\ rows = {}
    /\ meta = "none"
    /\ config = 0
    /\ saved = 0
    /\ failed = {}
    /\ lock = "none"
    /\ act = [a \in Actors |-> Idle]
    /\ gone = FALSE
    /\ disowned = FALSE

-----------------------------------------------------------------------------
(***************************************************************************)
(* Steps of a coroutine.                                                   *)
(***************************************************************************)
At(a, p) == act[a].pc = p

Ns(a) == act[a].ns

(* An idle actor starts operation o for namespace n at p.                  *)
BeginWith(a, o, n, p, row, listed) ==
    /\ o \in Starts
    /\ At(a, "idle")
    /\ act' = [act EXCEPT ![a] = [op |-> o, pc |-> p, ns |-> n,
                                  row |-> row, listed |-> listed]]

Begin(a, o, n, p, row) == BeginWith(a, o, n, p, row, 0)

Goto(a, p) == act' = [act EXCEPT ![a].pc = p]

GotoWith(a, p, row) == act' = [act EXCEPT ![a].pc = p, ![a].row = row]

End(a) == act' = [act EXCEPT ![a] = Idle]

(* A waiter may go on: it holds the lock from here, unless its critical    *)
(* section is this very step.                                              *)
Free(a, p) == At(a, p) /\ lock = "none"

Holding(a, p) == At(a, p) /\ lock = a

Take(a) == lock' = a

Release == lock' = "none"

(* _require_collection_access: may namespace n write the collection?       *)
Access(n) ==
    \/ meta = n
    \/ meta = "none" /\ (n = Default \/ rows = {})

(* update_collection_meta: the upsert of n's row, refused to a foreigner.  *)
Upserted(n) == IF meta = "none" THEN n ELSE meta

(* delete_collection_meta for (name, n).                                   *)
Unlisted(n) == IF meta = n THEN "none" ELSE meta

(* A save of the config that succeeds, and one whose failure is logged.    *)
SaveConfig(c) == config' = c /\ saved' = c

SaveBestEffort(c) == config' = c /\ saved' \in {saved, c}

-----------------------------------------------------------------------------
(***************************************************************************)
(* Who is writing, as a drop sees it.                                      *)
(***************************************************************************)
IngestOps == {"ingest", "foreign", "retry"}

(* The operations that run the ingest pipeline.                            *)
Writers == IngestOps \cup {"reindex", "import", "mcp", "sync"}

Working == {"dispatch", "missing_wait", "run", "ensure", "erase_wait",
            "batch_wait", "rows", "count", "recompute_wait"}

Importing == {"import_start", "overwrite_wait", "overwrite",
              "overwrite_meta"}

Recording == {"rewrite_wait", "rewrite", "patch_wait", "patch"}

(* find_active_collection_job: a job that may still write the collection.  *)
JobAtWork(a) ==
    \/ act[a].op \in IngestOps /\ act[a].pc \in Working
    \/ act[a].op = "import" /\ act[a].pc \in Working \cup Importing
    \/ act[a].op \in {"reindex", "metadata", "rewrite"}
       /\ act[a].pc \in Working \cup Recording

(* has_active_writer: MCP ingests and syncs, which create no job.          *)
WriterAtWork(a) == act[a].op \in {"mcp", "sync"} /\ act[a].pc \in Working

OtherJob(a) == \E b \in Actors \ {a} : JobAtWork(b)

Busy(a) == OtherJob(a) \/ \E b \in Actors \ {a} : WriterAtWork(b)

-----------------------------------------------------------------------------
(***************************************************************************)
(* DELETE /collections/{name}.                                             *)
(***************************************************************************)
RemoveCollection(a, n) ==
    /\ \/ meta = n
       \/ meta = "none" /\ n = Default /\ config > 0
    /\ BeginWith(a, "delete", n, "delete_wait", meta = n, config)
    /\ UNCHANGED <<data, conf, failed, lock, history>>

(* The PENDING ingests of the collection whose task runs without the lock. *)
Pending(b) == act[b].pc \in {"retry_wait", "unlocked"}

(* cancel_ingest_retries, best effort, in the step that leaves a as x; a   *)
(* cancelled ingest's claim is refused, so its task ends.                  *)
CancelIngestRetries(a, x) ==
    \/ /\ failed' = {}
       /\ act' = [b \in Actors |-> IF b = a THEN x
                                   ELSE IF Pending(b) THEN Idle ELSE act[b]]
    \/ failed' = failed /\ act' = [act EXCEPT ![a] = x]

(* The DELETE succeeded: nobody may bring the collection back unasked.     *)
(* Not counted: a table that a config-only DELETE leaves, rows that lost   *)
(* their row before, an add or an ingest since the check under the lock    *)
(* (requests of their own), and a retry that could not be cancelled.       *)
Deleted(a) ==
    gone' = /\ ~table' /\ ~disowned
            /\ config' = 0 /\ saved' = 0
            /\ failed' = {}
            /\ ~OtherJob(a)
            /\ \A b \in Actors : act'[b].pc \notin {"retry_wait", "unlocked"}

(* The row the DELETE goes by: one read before the lock is not read again. *)
SeesRow(a) == act[a].row \/ meta = Ns(a)

StillVisible(a) == SeesRow(a) \/ meta = "none"

(* _drop_path_from_config: a path that was not configured when the DELETE  *)
(* began is not looked for again.                                          *)
Unconfigured(a) == IF act[a].listed > 0 THEN 0 ELSE config

(* A DELETE that trusts the lock alone.                                    *)
CheckDeleteLockOnly(a) ==
    /\ Free(a, "delete_wait")
    /\ SeesRow(a)
    /\ SaveConfig(Unconfigured(a))
    /\ Take(a)
    /\ act' = [act EXCEPT ![a].pc = "drop", ![a].listed = config - config']
    /\ UNCHANGED <<data, failed, history>>

(* Under the lock: the row again, the jobs and writers, the config.        *)
CheckDelete(a) ==
    /\ Free(a, "delete_wait")
    /\ UNCHANGED <<data, disowned>>
    /\ \/ End(a) /\ UNCHANGED <<conf, failed, lock, gone>>
       \/ /\ StillVisible(a)
          /\ ~Busy(a)
          /\ SaveConfig(Unconfigured(a))
          /\ \/ /\ SeesRow(a)
                /\ Take(a)
                /\ act' = [act EXCEPT ![a].pc = "drop",
                                      ![a].listed = config - config']
                /\ UNCHANGED <<failed, gone>>
             \/ /\ ~SeesRow(a)
                /\ CancelIngestRetries(a, Idle)
                /\ Deleted(a)
                /\ UNCHANGED lock

DropTable(a) ==
    /\ Holding(a, "drop")
    /\ UNCHANGED <<meta, history>>
    /\ \/ /\ Access(Ns(a))
          /\ table' = FALSE
          /\ rows' = {}
          /\ CancelIngestRetries(a, [act[a] EXCEPT !.pc = "unmeta"])
          /\ UNCHANGED <<conf, lock>>
       \/ /\ SaveBestEffort(IF config = 0 THEN act[a].listed ELSE config)
          /\ Release
          /\ End(a)
          /\ UNCHANGED <<table, rows, failed>>

DropMeta(a) ==
    /\ Holding(a, "unmeta")
    /\ Release
    /\ End(a)
    /\ UNCHANGED <<table, rows, conf, failed, disowned>>
    /\ \/ meta' = Unlisted(Ns(a)) /\ Deleted(a)
       \/ UNCHANGED <<meta, gone>>

-----------------------------------------------------------------------------
(***************************************************************************)
(* POST /collections/: config entry, stub row, then the ingest job.        *)
(***************************************************************************)
AddCollection(a, n) ==
    /\ config = 0
    /\ Begin(a, "add", n, "append", FALSE)
    /\ UNCHANGED <<data, conf, failed, lock, history>>

AppendConfig(a) ==
    /\ At(a, "append")
    /\ \/ /\ meta = "none"
          /\ config < MaxEntries
          /\ SaveConfig(config + 1)
          /\ gone' = FALSE
          /\ Goto(a, "stub_wait")
       \/ End(a) /\ UNCHANGED <<conf, gone>>
    /\ UNCHANGED <<data, failed, lock, disowned>>

(* A roll-back that does not look whether its entry is still there.        *)
RollBackEntryBlindly == SaveBestEffort(config - 1)

(* _rollback_config_entry: a DELETE may have removed the entry meanwhile.  *)
RollBackEntry == SaveBestEffort(IF config > 0 THEN config - 1 ELSE 0)

(* The stub write releases the lock; the route then takes it again, at     *)
(* once when nobody waits for it.                                          *)
WriteStub(a) ==
    /\ Free(a, "stub_wait")
    /\ \/ /\ meta \in {"none", Ns(a)}
          /\ meta' = Ns(a)
          /\ gone' = FALSE
          /\ IF \E b \in Actors \ {a} : act[b].pc \in Waiting
             THEN Goto(a, "add_wait") /\ UNCHANGED lock
             ELSE Goto(a, "adding") /\ Take(a)
          /\ UNCHANGED conf
       \/ RollBackEntry /\ End(a) /\ UNCHANGED <<meta, lock, gone>>
    /\ UNCHANGED <<table, rows, failed, disowned>>

GetAddLock(a) ==
    /\ Free(a, "add_wait")
    /\ Take(a)
    /\ Goto(a, "adding")
    /\ UNCHANGED <<data, conf, failed, history>>

CreateAddJob(a) ==
    /\ Holding(a, "adding")
    /\ \/ /\ act' = [act EXCEPT ![a].op = "ingest", ![a].pc = "spawned"]
          /\ gone' = FALSE
          /\ UNCHANGED conf
       \/ RollBackEntry /\ Goto(a, "undo_locked") /\ UNCHANGED gone
    /\ UNCHANGED <<data, failed, lock, disowned>>

(* Rows stored, or about to be under the row a batch has checked.          *)
RowsAtStake == rows # {} \/ \E b \in Actors : At(b, "rows")

(* _rollback_add deletes the stub row: under the lock after a failed job   *)
(* creation, without it after the wait for the lock timed out.             *)
UndoAdd(a) ==
    /\ At(a, "undo") \/ Holding(a, "undo_locked")
    /\ lock' = IF lock = a THEN "none" ELSE lock
    /\ End(a)
    /\ \/ /\ meta' = Unlisted(Ns(a))
          /\ disowned' = (disowned \/ (meta = Ns(a) /\ RowsAtStake))
       \/ UNCHANGED <<meta, disowned>>
    /\ UNCHANGED <<table, rows, conf, failed, gone>>

-----------------------------------------------------------------------------
(***************************************************************************)
(* POST /ingest, and the maintenance retry of a failed one.                *)
(***************************************************************************)
PostIngest(a, n) ==
    /\ \/ /\ Access(n)
          /\ Begin(a, "ingest", n, "post_wait", FALSE)
          /\ UNCHANGED gone
       \/ /\ ~Access(n)
          /\ Begin(a, "foreign", n, "unlocked", FALSE)
          /\ gone' = FALSE
    /\ UNCHANGED <<data, conf, failed, lock, disowned>>

CreateIngestJob(a) ==
    /\ Free(a, "post_wait")
    /\ \/ Take(a) /\ Goto(a, "spawned") /\ gone' = FALSE
       \/ End(a) /\ UNCHANGED <<lock, gone>>
    /\ UNCHANGED <<data, conf, failed, disowned>>

RetryIngest(a, n) ==
    /\ n \in failed
    /\ Begin(a, "retry", n, "retry_wait", FALSE)
    /\ UNCHANGED <<data, conf, failed, lock, history>>

GetRetryLock(a) ==
    /\ Free(a, "retry_wait")
    /\ Take(a)
    /\ Goto(a, "spawned")
    /\ UNCHANGED <<data, conf, failed, history>>

(* PENDING to RUNNING, then the early release of the lock; a refused or    *)
(* failed claim ends the task.                                             *)
ClaimIngest(a) ==
    /\ Holding(a, "spawned") \/ At(a, "unlocked")
    /\ lock' = IF lock = a THEN "none" ELSE lock
    /\ \/ Goto(a, "dispatch") /\ UNCHANGED failed
       \/ End(a) /\ failed' \in {failed, failed \cup {Ns(a)}}
    /\ UNCHANGED <<data, conf, history>>

(* _dispatch_ingest: a path that is gone fails the job, after a stub row   *)
(* for a collection that had none when the task looked.                    *)
DispatchIngest(a) ==
    /\ At(a, "dispatch")
    /\ \/ Goto(a, "run") /\ UNCHANGED failed
       \/ meta # Ns(a) /\ Goto(a, "missing_wait") /\ UNCHANGED failed
       \/ meta = Ns(a) /\ End(a) /\ failed' = failed \cup {Ns(a)}
    /\ UNCHANGED <<data, conf, lock, history>>

WriteMissingStub(a) ==
    /\ Free(a, "missing_wait")
    /\ meta' \in {meta, Upserted(Ns(a))}
    /\ End(a)
    /\ failed' = failed \cup {Ns(a)}
    /\ UNCHANGED <<table, rows, conf, lock, history>>

EndOfIngest(a) ==
    /\ At(a, "run")
    /\ act[a].op \in IngestOps
    /\ End(a)
    /\ failed' \in {failed, failed \cup {Ns(a)}}
    /\ UNCHANGED <<data, conf, lock, history>>

-----------------------------------------------------------------------------
(***************************************************************************)
(* The pipeline: ensure_collection, delete_document, ingest_chunks and     *)
(* recompute_collection_meta, for every kind of writer.                    *)
(***************************************************************************)
Runs(a, ops) == At(a, "run") /\ act[a].op \in ops

(* The ownership check of ensure_collection, without the lock, then the    *)
(* creation of the table.  A refusal ends the document with an error.      *)
EnsureCollection(a) ==
    /\ Runs(a, Writers)
    /\ Access(Ns(a))
    /\ Goto(a, "ensure")
    /\ UNCHANGED <<data, conf, failed, lock, history>>

CreateTable(a) ==
    /\ At(a, "ensure")
    /\ Goto(a, "run")
    /\ table' \in {table, TRUE}
    /\ UNCHANGED <<rows, meta, conf, failed, lock, history>>

StartErase(a) ==
    /\ Runs(a, Writers)
    /\ Goto(a, "erase_wait")
    /\ UNCHANGED <<data, conf, failed, lock, history>>

(* store.delete_document: perhaps the last document of the table.          *)
EraseDocument(a) ==
    /\ Free(a, "erase_wait")
    /\ Goto(a, "run")
    /\ rows' \in {rows} \cup (IF Access(Ns(a)) THEN {{}} ELSE {})
    /\ UNCHANGED <<table, meta, conf, failed, lock, history>>

StartBatch(a) ==
    /\ Runs(a, Writers)
    /\ Goto(a, "batch_wait")
    /\ UNCHANGED <<data, conf, failed, lock, history>>

(* A batch that leaves the claim to the row written after its rows.        *)
ClaimAfterRows(a) ==
    /\ Free(a, "batch_wait")
    /\ Access(Ns(a))
    /\ Take(a)
    /\ GotoWith(a, "rows", FALSE)
    /\ UNCHANGED <<data, conf, failed, history>>

(* ingest_chunks: the claim of a collection without owner is recorded      *)
(* before the rows land.                                                   *)
ClaimCollection(a) ==
    /\ Free(a, "batch_wait")
    /\ \/ /\ Access(Ns(a))
          /\ meta' = Ns(a)
          /\ Take(a)
          /\ GotoWith(a, "rows", meta = "none")
       \/ Goto(a, "run") /\ UNCHANGED <<meta, lock>>
    /\ UNCHANGED <<table, rows, conf, failed, history>>

(* _do_ingest, or _release_claim after it failed, best effort.             *)
AddRows(a) ==
    /\ Holding(a, "rows")
    /\ \/ /\ table
          /\ rows' = rows \cup {Ns(a)}
          /\ Goto(a, "count")
          /\ UNCHANGED <<meta, lock>>
       \/ /\ meta' \in {meta} \cup
                       (IF act[a].row THEN {Unlisted(Ns(a))} ELSE {})
          /\ Release
          /\ GotoWith(a, "run", FALSE)
          /\ UNCHANGED rows
    /\ UNCHANGED <<table, conf, failed, history>>

(* _do_update_meta_on_add writes the row, missing or not.                  *)
CountRows(a) ==
    /\ Holding(a, "count")
    /\ meta' \in {meta, Upserted(Ns(a))}
    /\ Release
    /\ GotoWith(a, "run", FALSE)
    /\ UNCHANGED <<table, rows, conf, failed, history>>

(* finalize_after_removal of a document delete: a recompute is due only    *)
(* for a row that says so, and is read again when it starts.               *)
FinalizeAfterRemoval(a) ==
    /\ Runs(a, {"erase"})
    /\ meta = Ns(a)
    /\ Goto(a, "settle")
    /\ UNCHANGED <<data, conf, failed, lock, history>>

(* recompute_collection_meta: read the row, scan the vectors, and go on    *)
(* when there is a row or a vector, or the caller forces it (an import,    *)
(* expiry pruning).                                                        *)
ScanVectors(a) ==
    /\ Runs(a, Writers \cup {"prune"}) \/ At(a, "settle")
    /\ \/ meta = Ns(a)
       \/ rows # {}
       \/ act[a].op \in {"import", "prune"}
    /\ GotoWith(a, "recompute_wait", meta = Ns(a))
    /\ UNCHANGED <<data, conf, failed, lock, history>>

(* A recompute that writes back the row it read before its scan.           *)
RecomputeFromStaleRow(a) ==
    /\ Free(a, "recompute_wait")
    /\ GotoWith(a, "run", FALSE)
    /\ meta' = Upserted(Ns(a))
    /\ UNCHANGED <<table, rows, conf, failed, lock, history>>

(* Under the lock: a row that is gone since the scan stays gone, one that  *)
(* never was is written.                                                   *)
RecomputeCollectionMeta(a) ==
    /\ Free(a, "recompute_wait")
    /\ GotoWith(a, "run", FALSE)
    /\ meta' \in {meta} \cup (IF act[a].row THEN {} ELSE {Upserted(Ns(a))})
    /\ UNCHANGED <<table, rows, conf, failed, lock, history>>

(* A run without job, a document delete or a pruning is over.              *)
EndOfRun(a) ==
    /\ Runs(a, {"import", "mcp", "sync", "erase", "prune"})
       \/ At(a, "settle")
    /\ End(a)
    /\ UNCHANGED <<data, conf, failed, lock, history>>

-----------------------------------------------------------------------------
(***************************************************************************)
(* Jobs created by create_collection_job, rewrites and row updates.        *)
(***************************************************************************)
PostCollectionJob(a, o, n) ==
    /\ o \in {"reindex", "metadata"}
    /\ meta = n
    /\ Begin(a, o, n, "create_wait", FALSE)
    /\ UNCHANGED <<data, conf, failed, lock, history>>

(* The row is read again under the lock: 404 when it is gone.              *)
CreateCollectionJob(a) ==
    /\ Free(a, "create_wait")
    /\ \/ /\ meta = Ns(a)
          /\ Goto(a, IF act[a].op = "reindex" THEN "run" ELSE "rewrite_wait")
       \/ End(a)
    /\ UNCHANGED <<data, conf, failed, lock, history>>

(* The reindex clears its pointer on the row before its final status.      *)
EndOfReindex(a) ==
    /\ Runs(a, {"reindex"})
    /\ Goto(a, "patch_wait")
    /\ UNCHANGED <<data, conf, failed, lock, history>>

(* The rewrite path of POST /collections/{name}/migrate.                   *)
PostMigrate(a, n) ==
    /\ meta = n
    /\ Begin(a, "rewrite", n, "rewrite_wait", FALSE)
    /\ UNCHANGED <<data, conf, failed, lock, history>>

(* apply_rewrite_migration and reindex_metadata hold the lock throughout.  *)
BeginRewrite(a) ==
    /\ Free(a, "rewrite_wait")
    /\ \/ table /\ Take(a) /\ Goto(a, "rewrite")
       \/ UNCHANGED lock /\ IF act[a].op = "metadata"
                            THEN Goto(a, "patch_wait") ELSE End(a)
    /\ UNCHANGED <<data, conf, failed, history>>

EndRewrite(a) ==
    /\ Holding(a, "rewrite")
    /\ Release
    /\ \/ Goto(a, "patch_wait")
       \/ act[a].op = "rewrite" /\ End(a)
    /\ UNCHANGED <<data, conf, failed, history>>

(* PATCH /collections/{name} and every other read-modify-write of the row. *)
PatchCollection(a, n) ==
    /\ Begin(a, "patch", n, "patch_wait", FALSE)
    /\ UNCHANGED <<data, conf, failed, lock, history>>

LockedCollectionMeta(a) ==
    /\ Free(a, "patch_wait")
    /\ \/ meta = Ns(a) /\ Take(a) /\ Goto(a, "patch")
       \/ End(a) /\ UNCHANGED lock
    /\ UNCHANGED <<data, conf, failed, history>>

UpdateCollectionMeta(a) ==
    /\ Holding(a, "patch")
    /\ meta' \in {meta, Upserted(Ns(a))}
    /\ Release
    /\ End(a)
    /\ UNCHANGED <<table, rows, conf, failed, history>>

DeleteDocument(a, n) ==
    /\ meta = n
    /\ Begin(a, "erase", n, "erase_wait", FALSE)
    /\ UNCHANGED <<data, conf, failed, lock, history>>

(* The maintenance pass of an owner's collection.                          *)
StartPruning(a) ==
    /\ meta # "none"
    /\ Begin(a, "prune", meta, "prune", FALSE)
    /\ UNCHANGED <<data, conf, failed, lock, history>>

(* prune_expired_chunks takes no lock.                                     *)
PruneExpiredChunks(a) ==
    /\ At(a, "prune")
    /\ \/ rows # {} /\ rows' \in {rows, {}} /\ Goto(a, "run")
       \/ End(a) /\ UNCHANGED rows
    /\ UNCHANGED <<table, meta, conf, failed, lock, history>>

-----------------------------------------------------------------------------
(***************************************************************************)
(* An import, as the scheduler dispatches it.                              *)
(***************************************************************************)
StartImport(a, n) ==
    /\ Begin(a, "import", n, "import_start", FALSE)
    /\ gone' = FALSE
    /\ UNCHANGED <<data, conf, failed, lock, disowned>>

Exists(n) == meta = n \/ rows # {}

(* _ensure_collection_absent up to the lock; force_overwrite takes it.     *)
EnsureAbsent(a) ==
    /\ At(a, "import_start")
    /\ \/ Access(Ns(a)) /\ ~Exists(Ns(a)) /\ Goto(a, "run")
       \/ Access(Ns(a)) /\ Goto(a, "overwrite_wait")
       \/ End(a)
    /\ UNCHANGED <<data, conf, failed, lock, history>>

CheckOverwrite(a) ==
    /\ Free(a, "overwrite_wait")
    /\ \/ ~Exists(Ns(a)) /\ Goto(a, "run") /\ UNCHANGED lock
       \/ /\ Exists(Ns(a))
          /\ ~OtherJob(a)
          /\ Take(a)
          /\ GotoWith(a, "overwrite", meta = Ns(a))
       \/ End(a) /\ UNCHANGED lock
    /\ UNCHANGED <<data, conf, failed, history>>

(* A RuntimeError of the drop is passed over.                              *)
OverwriteTable(a) ==
    /\ Holding(a, "overwrite")
    /\ \/ /\ Access(Ns(a))
          /\ \/ table' = FALSE /\ rows' = {}
             \/ UNCHANGED <<table, rows>>
          /\ Goto(a, "overwrite_meta")
          /\ UNCHANGED lock
       \/ Release /\ End(a) /\ UNCHANGED <<table, rows>>
    /\ UNCHANGED <<meta, conf, failed, history>>

OverwriteMeta(a) ==
    /\ Holding(a, "overwrite_meta")
    /\ Release
    /\ \/ /\ meta' = IF act[a].row THEN Unlisted(Ns(a)) ELSE meta
          /\ disowned' = (disowned \/ (meta' # meta /\ rows # {}))
          /\ GotoWith(a, "run", FALSE)
       \/ End(a) /\ UNCHANGED <<meta, disowned>>
    /\ UNCHANGED <<table, rows, conf, failed, gone>>

-----------------------------------------------------------------------------
(***************************************************************************)
(* Writers without job, and the drop of a collection gone from the config. *)
(***************************************************************************)
McpIngest(a, n) ==
    /\ Begin(a, "mcp", n, "register_wait", FALSE)
    /\ UNCHANGED <<data, conf, failed, lock, history>>

(* A sync writes for the owner recorded when it started.                   *)
RecordedOwner == IF meta = "none" THEN Default ELSE meta

StartSync(a) ==
    /\ config > 0
    /\ Begin(a, "sync", RecordedOwner, "register_wait", FALSE)
    /\ UNCHANGED <<data, conf, failed, lock, history>>

(* collection_writer; a sync then looks for the path in the live config.   *)
RegisterWriter(a) ==
    /\ Free(a, "register_wait")
    /\ \/ /\ act[a].op = "mcp" /\ Access(Ns(a))
          /\ gone' = FALSE
          /\ Goto(a, "run")
       \/ act[a].op = "sync" /\ config > 0 /\ Goto(a, "run") /\ UNCHANGED gone
       \/ End(a) /\ UNCHANGED gone
    /\ UNCHANGED <<data, conf, failed, lock, disowned>>

StartSyncDrop(a) ==
    /\ config = 0
    /\ table
    /\ Begin(a, "syncdrop", RecordedOwner, "syncdrop_wait", FALSE)
    /\ UNCHANGED <<data, conf, failed, lock, history>>

DropIfIdle(a) ==
    /\ Free(a, "syncdrop_wait")
    /\ \/ ~Busy(a) /\ Take(a) /\ Goto(a, "syncdrop")
       \/ End(a) /\ UNCHANGED lock
    /\ UNCHANGED <<data, conf, failed, history>>

SyncDropTable(a) ==
    /\ Holding(a, "syncdrop")
    /\ Release
    /\ End(a)
    /\ \/ Access(Ns(a)) /\ table' = FALSE /\ rows' = {}
       \/ UNCHANGED <<table, rows>>
    /\ UNCHANGED <<meta, conf, failed, history>>

-----------------------------------------------------------------------------
(***************************************************************************)
(* Waits that time out, and the death of the process.                      *)
(***************************************************************************)

(* INGEST_LOCK_TIMEOUT_S; a retry and a rewrite wait without bound.  A     *)
(* writer reports the document and goes on.                                *)
TimeOut(a) ==
    /\ act[a].pc \in Waiting \ {"retry_wait", "rewrite_wait"}
    /\ lock # "none"
    /\ CASE At(a, "stub_wait") -> RollBackEntry /\ End(a)
         [] At(a, "add_wait") -> RollBackEntry /\ Goto(a, "undo")
         [] act[a].pc \in {"batch_wait", "erase_wait", "recompute_wait"} ->
                GotoWith(a, "run", FALSE) /\ UNCHANGED conf
         [] OTHER -> End(a) /\ UNCHANGED conf
    /\ failed' = IF At(a, "missing_wait") THEN failed \cup {Ns(a)} ELSE failed
    /\ UNCHANGED <<data, lock, history>>

(* The next start: the config is read back, every unfinished ingest is     *)
(* FAILED.                                                                 *)
Crash ==
    /\ config' = saved
    /\ lock' = "none"
    /\ act' = [a \in Actors |-> Idle]
    /\ failed' = failed \cup
                 {Ns(a) : a \in {b \in Actors : act[b].op \in IngestOps
                                                /\ ~At(b, "post_wait")}}
    /\ UNCHANGED <<data, saved, history>>

Step(a) ==
    \/ \E n \in Namespaces :
           \/ RemoveCollection(a, n) \/ AddCollection(a, n)
           \/ PostIngest(a, n) \/ RetryIngest(a, n)
           \/ PostMigrate(a, n) \/ PatchCollection(a, n)
           \/ DeleteDocument(a, n) \/ StartImport(a, n) \/ McpIngest(a, n)
           \/ \E o \in Ops : PostCollectionJob(a, o, n)
    \/ CheckDelete(a) \/ DropTable(a) \/ DropMeta(a)
    \/ AppendConfig(a) \/ WriteStub(a) \/ GetAddLock(a) \/ CreateAddJob(a)
    \/ UndoAdd(a)
    \/ CreateIngestJob(a) \/ GetRetryLock(a) \/ ClaimIngest(a)
    \/ DispatchIngest(a) \/ WriteMissingStub(a) \/ EndOfIngest(a)
    \/ EnsureCollection(a) \/ CreateTable(a)
    \/ StartErase(a) \/ EraseDocument(a)
    \/ StartBatch(a) \/ ClaimCollection(a) \/ AddRows(a) \/ CountRows(a)
    \/ FinalizeAfterRemoval(a) \/ ScanVectors(a)
    \/ RecomputeCollectionMeta(a) \/ EndOfRun(a)
    \/ CreateCollectionJob(a) \/ EndOfReindex(a)
    \/ BeginRewrite(a) \/ EndRewrite(a)
    \/ LockedCollectionMeta(a) \/ UpdateCollectionMeta(a)
    \/ StartPruning(a) \/ PruneExpiredChunks(a)
    \/ EnsureAbsent(a) \/ CheckOverwrite(a) \/ OverwriteTable(a)
    \/ OverwriteMeta(a)
    \/ StartSync(a) \/ RegisterWriter(a)
    \/ StartSyncDrop(a) \/ DropIfIdle(a) \/ SyncDropTable(a)
    \/ TimeOut(a)

Next == (\E a \in Actors : Step(a)) \/ Crash

Spec == Init /\ [][Next]_vars

-----------------------------------------------------------------------------
(***************************************************************************)
(* Properties.                                                             *)
(***************************************************************************)
Dropping == {"drop", "unmeta", "syncdrop"}

Overwriting == {"overwrite", "overwrite_meta"}

(* At work as a job that was created or claimed under the lock.            *)
LockedJob(b) ==
    JobAtWork(b) /\ act[b].op \in {"ingest", "retry", "reindex", "metadata"}

(* A DELETE, a sync or an import that drops the table, the row or both     *)
(* (the points between its check and its release of the collection lock)   *)
(* has no job at work on the collection that was created or claimed under  *)
(* that lock, and a DELETE or a sync no registered writer either: the      *)
(* check under the lock and the claims under the lock exclude each other.  *)
(* A foreign namespace's ingest takes no lock and is not excluded.         *)
DropExcludesWriters ==
    \A a \in Actors : \A b \in Actors \ {a} :
        /\ act[a].pc \in Dropping => ~WriterAtWork(b) /\ ~LockedJob(b)
        /\ act[a].pc \in Overwriting => ~LockedJob(b)

(* Stored rows belong to the namespace of the meta row, across failed      *)
(* writes and crashes: ingest_chunks records its claim before the rows     *)
(* land, and every drop removes the rows before the row.  The two places   *)
(* that can remove the row of stored rows (the roll-back of POST           *)
(* /collections/ and an import's overwrite after a failed drop) are set    *)
(* apart by the history variable.                                          *)
RowsOwned == rows # {} /\ ~disowned => rows = {meta}

(* Once a DELETE has succeeded, no task, retry, sync, row update or        *)
(* recompute that was under way brings the table or the row back: only a   *)
(* new request does.                                                       *)
GoneStaysGone == gone => meta = "none" /\ ~table
=============================================================================
