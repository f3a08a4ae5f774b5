-------------------------- MODULE MaintenanceLoop --------------------------
(***************************************************************************)
(* The maintenance loop of jobs/maintenance_loop.py and its community      *)
(* rebuilds, for one collection: the trigger event, one pass (graph GC,    *)
(* drain of the rebuilds that synonym enrichment asks for, save of the     *)
(* state file), the rebuild tasks with their done-callbacks, and the stop  *)
(* of the loop at shutdown.                                                *)
(*                                                                         *)
(* asyncio runs a coroutine without interruption between two awaits, so an *)
(* action is the code between two awaits.  A done-callback runs in a later *)
(* iteration of the event loop than the end of its task, and other         *)
(* coroutines may run in between: the state "over" of a task.              *)
(***************************************************************************)
EXTENDS Integers, FiniteSets

CONSTANTS
    Tasks,        \* names of rebuild tasks, reused once their callback ran
    NoTask,       \* no entry in _rebuild_state
    Settings,     \* the configurations, each with the bounds it is explored with
    FaultKinds,   \* the calls that may fail: "list", "gc", "build", "save"
    MaxFaults,    \* bound on failed calls
    MaxSynonyms,  \* bound on the enrichment runs that write synonym edges
    MaxRestarts   \* bound on process ends

ASSUME ConstantsFit ==
    /\ NoTask \notin Tasks
    /\ Settings \subseteq [interval : BOOLEAN, gc : BOOLEAN, maxPosts : Nat, maxGarbage : Nat]
    /\ FaultKinds \subseteq {"list", "gc", "build", "save"}
    /\ {MaxFaults, MaxSynonyms, MaxRestarts} \subseteq Nat

VARIABLES
    settings,   \* interval: interval_hours > 0; gc: _graph_gc_active; bounds on triggers and orphans
    server,     \* "up", "stopping" (lifespan's finally) or "closed" (stores and clients closed)
    loop,       \* where the loop's coroutine waits
    event,      \* _trigger_event
    entry,      \* the collection's entry of _rebuild_state
    task,       \* the state of each rebuild task
    requested,  \* the collection is in _communities_pending_rebuild
    health,     \* communities_invalidated in the running pass
    flag,       \* communities_invalidated in .maintenance-state.json
    garbage,    \* the graph holds nodes or edges that no chunk supports
    stale,      \* the stored communities are not those of the graph that GC left
    asked,      \* history: a trigger was answered "triggered", and no pass began since
    owed,       \* history: a rebuild was asked for, and no build began since
    lost,       \* history: a build failed or was cut off since the last full one
    crossed,    \* history: an entry was replaced before its task's callback ran
    used        \* history: how much of each bound is used up

\* All but the settings, which no step changes.
vars == <<server, loop, event, entry, task, requested, health, flag, garbage,
          stale, asked, owed, lost, crossed, used>>

rebuilds == <<entry, task, crossed>>
histories == <<asked, owed, lost, used>>

Bounds == [fault |-> MaxFaults, garbage |-> settings.maxGarbage, synonyms |-> MaxSynonyms,
           post |-> settings.maxPosts, restart |-> MaxRestarts]

(* One more use of a bounded kind of event. *)
Use(kind) ==
    /\ used[kind] < Bounds[kind]
    /\ used' = [used EXCEPT ![kind] = @ + 1]

Fault(kind) == kind \in FaultKinds /\ Use("fault")

Entry == [task : Tasks \cup {NoTask}, pending : BOOLEAN, completed : BOOLEAN]
NoEntry == [task |-> NoTask, pending |-> FALSE, completed |-> FALSE]
Tracked == entry.task # NoTask

Live == {"queued", "building", "outdated", "cancelled"}
TaskStates == Live \cup {"none", "over"}
Building == {t \in Tasks : task[t] \in {"building", "outdated"}}

PassSteps == {"listing", "removed", "drain", "cleanup"}

Init ==
    /\ settings \in Settings
    /\ server = "up" /\ loop = "waiting" /\ event = FALSE
    /\ entry = NoEntry /\ task = [t \in Tasks |-> "none"]
    /\ requested = FALSE /\ health = FALSE /\ flag = FALSE
    /\ garbage = FALSE /\ stale = FALSE
    /\ asked = FALSE /\ owed = FALSE /\ lost = FALSE /\ crossed = FALSE
    /\ used = [kind \in DOMAIN Bounds |-> 0]

----------------------------------------------------------------------------
(* Rebuild tasks *)

(* _spawn_rebuild_task: a new task and a new entry, whatever is tracked    *)
(* now.  tasks is the state of the tasks when it is called.                *)
SpawnRebuildTask(tasks) ==
    \E new \in Tasks :
        /\ tasks[new] = "none"
        /\ task' = [tasks EXCEPT ![new] = "queued"]
        /\ entry' = [task |-> new, pending |-> FALSE, completed |-> FALSE]
        /\ crossed' = (crossed \/ (Tracked /\ tasks[entry.task] # "none"))

(* A rebuild in flight is taken to cover the removal. *)
MarkOrSpawnNoPending ==
    IF Tracked /\ task[entry.task] \in Live THEN UNCHANGED <<entry, task, crossed>>
                                            ELSE SpawnRebuildTask(task)

(* The end of _run_graph_gc after a removal: mark a rebuild in flight, or *)
(* spawn one.                                                             *)
MarkOrSpawn ==
    IF Tracked /\ task[entry.task] \in Live
      THEN entry' = [entry EXCEPT !.pending = TRUE] /\ UNCHANGED <<task, crossed>>
      ELSE SpawnRebuildTask(task)

(* _consume_completed_rebuild *)
Consumed == Tracked /\ entry.completed
Consume == IF Consumed THEN entry' = NoEntry ELSE entry' = entry

(* CommunityBuilder.build takes the rebuild lock and reads the graph. *)
StartBuild(t) ==
    /\ task[t] = "queued" /\ Building = {}
    /\ task' = [task EXCEPT ![t] = "building"]
    /\ owed' = FALSE
    /\ UNCHANGED <<server, loop, event, entry, requested, health, flag, garbage,
                   stale, asked, lost, crossed, used>>

(* write_communities replaces the stored communities by those of the graph *)
(* the build has read.                                                     *)
FinishBuild(t) ==
    /\ t \in Building
    /\ server # "closed"
    /\ task' = [task EXCEPT ![t] = "over"]
    /\ stale' = (stale /\ task[t] = "outdated")
    /\ lost' = (lost /\ task[t] = "outdated")
    /\ UNCHANGED <<server, loop, event, entry, requested, health, flag, garbage,
                   asked, owed, crossed, used>>

(* A build that raises: no graph nodes, a store failure, or a store that  *)
(* is closed.  write_communities deletes before it adds, so a failure in  *)
(* between leaves no communities.                                         *)
FailBuild(t) ==
    /\ t \in Building
    /\ IF server = "closed" THEN used' = used ELSE Fault("build")
    /\ task' = [task EXCEPT ![t] = "over"]
    /\ lost' = TRUE
    /\ stale' \in {stale, TRUE}
    /\ UNCHANGED <<server, loop, event, entry, requested, health, flag, garbage,
                   asked, owed, crossed>>

(* A cancelled rebuild ends at its next await, perhaps inside the write. *)
EndCancelled(t) ==
    /\ task[t] = "cancelled"
    /\ task' = [task EXCEPT ![t] = "over"]
    /\ lost' = TRUE
    /\ stale' \in {stale, TRUE}
    /\ UNCHANGED <<server, loop, event, entry, requested, health, flag, garbage,
                   asked, owed, crossed, used>>

(* The callback only respawns, and leaves the entry of a finished rebuild. *)
OnRebuildDoneUnmarked(t) ==
    /\ task[t] = "over"
    /\ LET after == [task EXCEPT ![t] = "none"]
       IN  IF Tracked /\ entry.pending
             THEN SpawnRebuildTask(after)
             ELSE task' = after /\ UNCHANGED <<entry, crossed>>
    /\ UNCHANGED <<server, loop, event, requested, health, flag, garbage, stale>>
    /\ UNCHANGED histories

(* _on_rebuild_done of task t acts on the entry it finds, t's or not. *)
OnRebuildDone(t) ==
    /\ task[t] = "over"
    /\ LET after == [task EXCEPT ![t] = "none"]
       IN  IF Tracked /\ entry.pending
             THEN SpawnRebuildTask(after)
             ELSE /\ task' = after
                  /\ entry' = [entry EXCEPT !.completed = Tracked]
                  /\ UNCHANGED crossed
    /\ UNCHANGED <<server, loop, event, requested, health, flag, garbage, stale>>
    /\ UNCHANGED histories

----------------------------------------------------------------------------
(* The loop and its pass *)

(* POST /maintenance/trigger, the answer "triggered"; with the event set *)
(* the answer is "already_triggered" and nothing changes.                *)
TriggerMaintenance ==
    /\ server = "up" /\ ~event
    /\ Use("post")
    /\ event' = TRUE /\ asked' = TRUE
    /\ UNCHANGED <<server, loop, requested, health, flag, garbage, stale, owed, lost>>
    /\ UNCHANGED rebuilds

(* _trigger_loop wakes up, _run_one_pass loads the state file. *)
BeginPass ==
    /\ loop = "waiting" /\ (event \/ settings.interval)
    /\ loop' = "listing" /\ health' = flag /\ asked' = FALSE
    /\ UNCHANGED <<server, event, requested, flag, garbage, stale, owed, lost, used>>
    /\ UNCHANGED rebuilds

(* list_collections fails: the pass returns early, the event is cleared. *)
ListFails ==
    /\ loop = "listing" /\ Fault("list")
    /\ loop' = "waiting" /\ event' = FALSE
    /\ UNCHANGED <<server, requested, health, flag, garbage, stale, asked, owed, lost>>
    /\ UNCHANGED rebuilds

(* Graph GC under the collection lock finds orphans and deletes them. *)
RemoveOrphans ==
    /\ loop = "listing" /\ settings.gc /\ garbage
    /\ loop' = "removed" /\ garbage' = FALSE /\ stale' = TRUE
    /\ task' = [t \in Tasks |-> IF task[t] = "building" THEN "outdated" ELSE task[t]]
    /\ UNCHANGED <<server, event, entry, requested, health, flag, crossed>>
    /\ UNCHANGED histories

(* The rest of _run_graph_gc and _run_collection_graph_gc after a removal. *)
AfterRemoval ==
    /\ loop = "removed"
    /\ MarkOrSpawn
    /\ health' = TRUE /\ owed' = TRUE /\ loop' = "drain"
    /\ UNCHANGED <<server, event, requested, flag, garbage, stale, asked, lost, used>>

(* The flag reports the last GC alone, not a rebuild in flight. *)
NothingRemovedClears ==
    /\ loop = "listing" /\ settings.gc
    /\ health' = FALSE
    /\ Consume /\ loop' = "drain"
    /\ UNCHANGED <<server, event, task, requested, flag, garbage, stale, crossed>>
    /\ UNCHANGED histories

(* Nothing was removed: no orphans, the lock stayed busy, or the chunks   *)
(* could not be listed.  The flag clears when no rebuild is tracked or the *)
(* tracked one is consumed.                                                *)
NothingRemoved ==
    /\ loop = "listing" /\ settings.gc
    /\ health' = (health /\ Tracked /\ ~Consumed)
    /\ Consume /\ loop' = "drain"
    /\ UNCHANGED <<server, event, task, requested, flag, garbage, stale, crossed>>
    /\ UNCHANGED histories

(* A store call of graph GC raises, perhaps after some of the deletes: the *)
(* pass goes on, the health flag is left alone, and orphans remain.        *)
GcFails ==
    /\ loop = "listing" /\ settings.gc /\ Fault("gc")
    /\ loop' = "drain"
    /\ \/ UNCHANGED <<stale, task>>
       \/ /\ garbage /\ stale' = TRUE
          /\ task' = [t \in Tasks |-> IF task[t] = "building" THEN "outdated" ELSE task[t]]
    /\ UNCHANGED <<server, event, entry, requested, health, flag, garbage, asked,
                   owed, lost, crossed>>

(* With graph GC off a pass still consumes a finished rebuild. *)
GcOff ==
    /\ loop = "listing" /\ ~settings.gc
    /\ health' = (health /\ ~Consumed)
    /\ Consume /\ loop' = "drain"
    /\ UNCHANGED <<server, event, task, requested, flag, garbage, stale, crossed>>
    /\ UNCHANGED histories

(* _drain_communities_pending_rebuild *)
DrainCommunitiesPendingRebuild ==
    /\ loop = "drain" /\ loop' = "cleanup"
    /\ requested' = FALSE
    /\ IF requested THEN SpawnRebuildTask(task) ELSE UNCHANGED rebuilds
    /\ UNCHANGED <<server, event, health, flag, garbage, stale>>
    /\ UNCHANGED histories

(* The event stays set after the pass that served it. *)
FinishPassUncleared ==
    /\ loop = "cleanup"
    /\ loop' = "waiting" /\ flag' = health
    /\ UNCHANGED <<server, event, requested, health, garbage, stale>>
    /\ UNCHANGED histories /\ UNCHANGED rebuilds

(* _save_state after version cleanup and retries, then the event is cleared. *)
FinishPass ==
    /\ loop = "cleanup"
    /\ loop' = "waiting" /\ flag' = health /\ event' = FALSE
    /\ UNCHANGED <<server, requested, health, garbage, stale>>
    /\ UNCHANGED histories /\ UNCHANGED rebuilds

(* _cancel_rebuilds: every tracked rebuild in flight is cancelled. *)
CancelRebuilds ==
    /\ loop' = "cancelling"
    /\ entry' = [entry EXCEPT !.pending = FALSE]
    /\ task' = [t \in Tasks |-> IF t = entry.task /\ task[t] \in Live
                                  THEN "cancelled" ELSE task[t]]

(* _save_state raises, before or after the rename of the new file: the loop *)
(* ends, and run() cancels the rebuilds.                                    *)
SaveFails ==
    /\ loop = "cleanup" /\ Fault("save")
    /\ CancelRebuilds
    /\ flag' \in {flag, health}
    /\ UNCHANGED <<server, event, requested, health, garbage, stale, asked, owed,
                   lost, crossed>>

(* The gather of _cancel_rebuilds returns; run() is over. *)
EndLoop ==
    /\ loop = "cancelling" /\ \A t \in Tasks : task[t] # "cancelled"
    /\ loop' = "ended"
    /\ UNCHANGED <<server, event, requested, health, flag, garbage, stale>>
    /\ UNCHANGED histories /\ UNCHANGED rebuilds

----------------------------------------------------------------------------
(* The rest of the server *)

(* A document was deleted or re-ingested: entities lost their last mention. *)
LeaveGarbage ==
    /\ server = "up" /\ ~garbage /\ Use("garbage")
    /\ garbage' = TRUE
    /\ UNCHANGED <<server, loop, event, requested, health, flag, stale, asked, owed, lost>>
    /\ UNCHANGED rebuilds

(* The end of _run_synonym_enrichment after it wrote synonym edges. *)
RequestRebuild ==
    /\ server # "closed" /\ ~requested /\ Use("synonyms")
    /\ requested' = TRUE /\ owed' = TRUE
    /\ UNCHANGED <<server, loop, event, health, flag, garbage, stale, asked, lost>>
    /\ UNCHANGED rebuilds

(* lifespan's finally cancels the loop's task. *)
StopLoop ==
    /\ server = "up" /\ Use("restart")
    /\ server' = "stopping"
    /\ IF loop \in PassSteps \cup {"waiting"} THEN CancelRebuilds
                                              ELSE UNCHANGED <<loop, entry, task>>
    /\ UNCHANGED <<event, requested, health, flag, garbage, stale, asked, owed, lost,
                   crossed>>

(* The gather of the background tasks returned: the shared clients and the *)
(* stores are closed.                                                      *)
CloseStores ==
    /\ server = "stopping" /\ loop = "ended"
    /\ server' = "closed"
    /\ UNCHANGED <<loop, event, requested, health, flag, garbage, stale>>
    /\ UNCHANGED histories /\ UNCHANGED rebuilds

(* The process ends, after an orderly shutdown or a kill, and a new one    *)
(* starts: the file and the graph are all it finds.                        *)
Restart ==
    /\ IF server = "up" THEN Use("restart") ELSE used' = used
    /\ server' = "up" /\ loop' = "waiting" /\ event' = FALSE
    /\ entry' = NoEntry /\ task' = [t \in Tasks |-> "none"]
    /\ requested' = FALSE /\ health' = FALSE
    /\ stale' \in (IF Building # {} THEN {stale, TRUE} ELSE {stale})
    /\ lost' = (lost \/ stale' \/ \E t \in Tasks : task[t] \in Live)
    /\ asked' = FALSE /\ owed' = FALSE /\ crossed' = FALSE
    /\ UNCHANGED <<flag, garbage>>

PassStep ==
    \/ ListFails \/ RemoveOrphans \/ AfterRemoval \/ NothingRemoved \/ GcFails
    \/ GcOff \/ DrainCommunitiesPendingRebuild \/ FinishPass \/ SaveFails \/ EndLoop

TaskStep(t) ==
    StartBuild(t) \/ FinishBuild(t) \/ FailBuild(t) \/ EndCancelled(t) \/ OnRebuildDone(t)

Next ==
    \/ TriggerMaintenance \/ BeginPass \/ PassStep
    \/ LeaveGarbage \/ RequestRebuild \/ StopLoop \/ CloseStores \/ Restart
    \/ \E t \in Tasks : TaskStep(t)

Spec == Init /\ [][Next /\ UNCHANGED settings]_<<vars, settings>>

(* The event loop runs every ready coroutine and callback; a pass is begun *)
(* when the event is set or the interval passed.                           *)
Fairness == WF_vars(BeginPass) /\ WF_vars(PassStep) /\ \A t \in Tasks : WF_vars(TaskStep(t))

FairSpec == Spec /\ Fairness

----------------------------------------------------------------------------
(* Properties *)

(* The variables keep their types, and a pass-local decision exists only   *)
(* while the loop's coroutine is inside the pass it belongs to.            *)
TypeOK ==
    /\ server \in {"up", "stopping", "closed"}
    /\ loop \in PassSteps \cup {"waiting", "cancelling", "ended"}
    /\ {event, requested, health, flag, garbage, stale, asked, owed, lost, crossed}
         \subseteq BOOLEAN
    /\ entry \in Entry /\ task \in [Tasks -> TaskStates]
    /\ entry.task = NoTask => ~entry.pending /\ ~entry.completed
    /\ used \in [DOMAIN Bounds -> Nat]
    /\ \A kind \in DOMAIN Bounds : used[kind] <= Bounds[kind]

(* A trigger that was answered "triggered" stays pending until a pass      *)
(* begins: the clear of the event after a pass (_trigger_loop) never wipes *)
(* out a trigger that no pass has served, as long as passes begin only on  *)
(* triggers and graph GC is off.                                           *)
TriggerKept == ~settings.interval /\ ~settings.gc => (asked => event)

(* A rebuild that graph GC or the drain asked for is never forgotten:      *)
(* until a build begins, a task waits to begin one, or the entry is marked *)
(* pending and the callback of its task is still to come.                  *)
RebuildKept ==
    owed /\ server = "up" /\ loop \notin {"cancelling", "ended"} =>
        \/ requested
        \/ \E t \in Tasks : task[t] = "queued"
        \/ Tracked /\ entry.pending /\ task[entry.task] # "none"

(* RebuildKept, unless a rebuild was tracked over another whose callback   *)
(* was still to come: _on_rebuild_done then acts on the wrong entry.       *)
RebuildKeptUncrossed == crossed \/ RebuildKept

(* Between passes, communities that GC made out of date are reported by    *)
(* communities_invalidated in the state file, or the next pass will find   *)
(* the orphans that a failed GC left.                                      *)
FlagAccurate == loop = "waiting" /\ stale => flag \/ garbage

(* FlagAccurate, unless a build failed or was cut off, or entries crossed. *)
FlagAccurateUnlessLost == lost \/ crossed \/ FlagAccurate

(* When run() of the loop is over, no community rebuild it spawned is in   *)
(* flight.                                                                 *)
RebuildsEndWithLoop == loop = "ended" => \A t \in Tasks : task[t] \notin Live

(* RebuildsEndWithLoop, unless entries crossed. *)
RebuildsEndUncrossed == crossed \/ RebuildsEndWithLoop

(* Unless entries crossed, a rebuild that was asked for is under way or    *)
(* still to come, and none outlives the loop.                              *)
RebuildsTracked == TypeOK /\ RebuildKeptUncrossed /\ RebuildsEndUncrossed

(* The server stops, or the loop ends: nothing catches a failed save. *)
Over == server # "up" \/ loop \in {"cancelling", "ended"}

(* A pending trigger is served, whatever answer its request got: the pass  *)
(* ends and the event is cleared, unless the loop is over first.           *)
TriggerWorks == event ~> ~event \/ Over

(* No trigger is wiped out unserved, and each is served in the end.        *)
TriggersServed == []TriggerKept /\ TriggerWorks

(* The reported flag does not stay set when the graph stays as it is, also *)
(* across failed calls and restarts, where passes begin on a schedule.     *)
FlagSettles == settings.interval /\ flag ~> ~flag \/ Over

(* Synonym edges that were written lead to a community rebuild, unless the *)
(* process or the loop ends first, where passes begin on a schedule.       *)
SynonymsBuilt == settings.interval /\ requested ~> Building # {} \/ used.restart > 0 \/ Over

(* What the passes and the callbacks owe comes about: the flag falls when  *)
(* the communities are rebuilt, and synonym edges lead to a rebuild.       *)
RebuildsHappen == FlagSettles /\ SynonymsBuilt
=============================================================================
