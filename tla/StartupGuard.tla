---------------------------- MODULE StartupGuard ----------------------------
(***************************************************************************)
(* The startup sync, POST /sync, an ingest job and the watcher's syncs     *)
(* around the crash-loop guard: the rows that are RUNNING in the jobs      *)
(* file, the flag that loading it leaves, the sentinel file, and           *)
(* app.state.sync_result (server/app.py, server/routes_sync.py,            *)
(* sync_suppression.py).  One kind of each ingest; every write may fail.   *)
(***************************************************************************)
VARIABLES phase,     \* "stopped", "dead", "loading" (job store loaded), "up", "stopping"
          rows,      \* the ingests whose row is RUNNING in the jobs file
          flag,      \* job_store.crashed_ingest_on_load
          sentinel,  \* the sentinel file exists
          syncResult,\* app.state.sync_result
          startup,   \* "none", "spawned", "waiting" (for sync_lock) or "running"
          others,    \* the running ones among "manual", "ingest" and "watch"
          unsafe     \* history: a write of the guard failed since the last clean sync

startVars == <<phase, rows, flag, sentinel, syncResult, startup, others, unsafe>>

StartInit == /\ phase = "stopped" /\ rows = {} /\ flag = FALSE /\ sentinel = FALSE
             /\ syncResult = "none" /\ startup = "none" /\ others = {} /\ unsafe = FALSE

\* app.state.sync_lock: held by the sync that runs.
SyncLocked == startup = "running" \/ "manual" \in others

\* The rows that are RUNNING in memory; every write of the file saves just these.
Open == {a \in rows : a \in others \/ (a = "startup" /\ startup # "none")}

\* create_app loads the job store: RUNNING rows become FAILED "process_restart".
LoadJobs ==
  /\ phase \in {"stopped", "dead"} /\ phase' = "loading"
  /\ flag' = (rows # {}) /\ rows' = {}
  /\ syncResult' = "none" /\ UNCHANGED <<sentinel, startup, others, unsafe>>

\* The save at the end of the load raises: the process does not start.
LoadFails ==
  /\ phase \in {"stopped", "dead"} /\ rows # {} /\ phase' = "dead"
  /\ rows' \in {rows, {}} /\ unsafe' = (unsafe \/ rows' = {})
  /\ UNCHANGED <<flag, sentinel, syncResult, startup, others>>

\* The lifespan's decision, and write_sync_suppressed_sentinel, which may fail.
SuppressedByFlag == flag
Suppressed == flag \/ sentinel
DecideStartupSync ==
  /\ phase = "loading" /\ phase' = "up"
  /\ \/ /\ Suppressed /\ syncResult' = "SUPPRESSED" /\ UNCHANGED startup
        /\ sentinel' \in {TRUE, sentinel} /\ unsafe' = (unsafe \/ ~sentinel')
     \/ /\ ~Suppressed /\ syncResult' = "PENDING" /\ startup' = "spawned"
        /\ UNCHANGED <<sentinel, unsafe>>
  /\ UNCHANGED <<rows, flag, others>>

\* _run_startup_sync: its job row first (a failed write leaves it unmarked).
MarkStartupSync ==
  /\ phase = "up" /\ startup = "spawned" /\ startup' = "waiting"
  /\ rows' \in {Open \cup {"startup"}, rows} /\ unsafe' = (unsafe \/ "startup" \notin rows')
  /\ UNCHANGED <<phase, flag, sentinel, syncResult, others>>

RunStartupSync ==
  /\ phase = "up" /\ startup = "waiting" /\ ~SyncLocked /\ startup' = "running"
  /\ UNCHANGED <<phase, rows, flag, sentinel, syncResult, others, unsafe>>

\* The terminal status of a row; a failed write may leave it RUNNING on disk.
Close(a) == rows' \in {rows, Open \ {a}}

\* DONE, errors, an exception, or the time limit, which also covers the wait.
EndStartupSync ==
  /\ phase = "up"
  /\ \/ startup = "running" /\ syncResult' \in {"DONE", "FAILED"}
     \/ startup = "waiting" /\ syncResult' = "FAILED"
  /\ startup' = "none" /\ Close("startup")
  /\ UNCHANGED <<phase, flag, sentinel, others, unsafe>>

\* trigger_sync: 409 while the lock is held or waited for; an unsaved job is refused.
TriggerSync ==
  /\ phase = "up" /\ ~SyncLocked /\ startup # "waiting"
  /\ others' = others \cup {"manual"} /\ rows' = Open \cup {"manual"}
  /\ UNCHANGED <<phase, flag, sentinel, syncResult, startup, unsafe>>

\* _sync_task without errors: _clear_degraded_sync_state; the unlink may fail.
CleanManualSync ==
  /\ phase = "up" /\ "manual" \in others /\ others' = others \ {"manual"} /\ Close("manual")
  /\ syncResult' = IF syncResult \in {"SUPPRESSED", "FAILED"} THEN "DONE" ELSE syncResult
  /\ sentinel' \in {FALSE, sentinel}
  /\ unsafe' = (unsafe /\ startup = "waiting" /\ "startup" \notin rows)
  /\ UNCHANGED <<phase, flag, startup>>

\* An ingest job of a client (it claims its row RUNNING), or a failed manual sync.
BeginIngest ==
  /\ phase = "up" /\ "ingest" \notin others
  /\ others' = others \cup {"ingest"} /\ rows' = Open \cup {"ingest"}
  /\ UNCHANGED <<phase, flag, sentinel, syncResult, startup, unsafe>>
EndIngest(a) ==
  /\ phase = "up" /\ a \in others \cap {"manual", "ingest"}
  /\ others' = others \ {a} /\ Close(a)
  /\ UNCHANGED <<phase, flag, sentinel, syncResult, startup, unsafe>>

\* _sync_watched_collection: refused while suppressed, and never recorded.
WatchAllowed == syncResult # "SUPPRESSED"
BeginWatchSync ==
  /\ phase = "up" /\ "watch" \notin others /\ WatchAllowed
  /\ others' = others \cup {"watch"}
  /\ UNCHANGED <<phase, rows, flag, sentinel, syncResult, startup, unsafe>>
EndWatchSync ==
  /\ phase = "up" /\ "watch" \in others /\ others' = others \ {"watch"}
  /\ UNCHANGED <<phase, rows, flag, sentinel, syncResult, startup, unsafe>>

\* Shutdown: the watcher is stopped first, then every task is cancelled and
\* writes its row CANCELLED, then the process exits.
BeginShutdown ==
  /\ phase = "up" /\ phase' = "stopping" /\ others' = others \ {"watch"}
  /\ UNCHANGED <<rows, flag, sentinel, syncResult, startup, unsafe>>
CancelTask(a) ==
  /\ phase = "stopping"
  /\ \/ a = "startup" /\ startup # "none" /\ startup' = "none" /\ syncResult' = "FAILED" /\ UNCHANGED others
     \/ a \in others /\ others' = others \ {a} /\ UNCHANGED <<startup, syncResult>>
  /\ Close(a)
  /\ UNCHANGED <<phase, flag, sentinel, unsafe>>
ExitCleanly ==
  /\ phase = "stopping" /\ startup = "none" /\ others = {} /\ phase' = "stopped"
  /\ UNCHANGED <<rows, flag, sentinel, syncResult, startup, others, unsafe>>

\* kill -9, out of memory, power loss: also between the load and the sentinel.
Kill ==
  /\ phase \in {"loading", "up", "stopping"} /\ phase' = "dead"
  /\ unsafe' = (unsafe \/ (phase = "loading" /\ flag))
  /\ startup' = "none" /\ others' = {}
  /\ UNCHANGED <<rows, flag, sentinel, syncResult>>

StartNext ==
  \/ LoadJobs \/ LoadFails \/ DecideStartupSync
  \/ MarkStartupSync \/ RunStartupSync \/ EndStartupSync
  \/ TriggerSync \/ CleanManualSync \/ BeginIngest \/ BeginWatchSync \/ EndWatchSync
  \/ BeginShutdown \/ ExitCleanly \/ Kill
  \/ \E a \in {"startup", "manual", "ingest"} : EndIngest(a) \/ CancelTask(a)

StartSpec == StartInit /\ [][StartNext]_startVars

StartTypeOK ==
  /\ phase \in {"stopped", "dead", "loading", "up", "stopping"}
  /\ rows \subseteq {"startup", "manual", "ingest"} /\ {flag, sentinel, unsafe} \subseteq BOOLEAN
  /\ syncResult \in {"none", "PENDING", "SUPPRESSED", "FAILED", "DONE"}
  /\ startup \in {"none", "spawned", "waiting", "running"} /\ others \subseteq {"manual", "ingest", "watch"}

-----------------------------------------------------------------------------
\* The guard in these terms: while the server is up the result holds automatic
\* ingests back, before the decision the flag and the sentinel will, and while
\* it is down the rows and the sentinel.
Guard == INSTANCE CrashGuard WITH
  Recorded  <- {"startup", "manual", "ingest"},
  Automatic <- {"startup", "watch"},
  server    <- IF phase \in {"stopped", "dead"} THEN phase ELSE "up",
  working   <- others \cup (IF startup \in {"waiting", "running"} THEN {"startup"} ELSE {}),
  held      <- CASE phase \in {"up", "stopping"} -> syncResult = "SUPPRESSED"
                 [] phase = "loading"            -> flag \/ sentinel
                 [] OTHER                        -> sentinel \/ rows # {},
  slipped   <- unsafe

\* The server implements the guard: after a death during a recorded ingest no
\* startup sync and no watcher sync begins before an operator's clean sync.
NoCrashLoop == Guard!GuardSpec
=============================================================================
