----------------------- MODULE MaintenanceLoopProofs -----------------------
(***************************************************************************)
(* Proofs about MaintenanceLoop for any number of rebuild tasks, settings, *)
(* faults and restarts: the types, that no rebuild is forgotten and none   *)
(* outlives the loop (RebuildsTracked), that communities out of date are   *)
(* reported (FlagAccurateUnlessLost), and that no trigger is wiped out     *)
(* (TriggerKept).                                                          *)
(***************************************************************************)
EXTENDS MaintenanceLoop, TLAPS

Running == loop \notin {"cancelling", "ended"}

(* Unless entries crossed, the only task is the tracked one, *)
OnlyTracked == \A t \in Tasks : task[t] # "none" => entry.task = t

(* its mark is read by its callback, and it is completed once that ran, *)
MarksFit ==
    /\ entry.pending => task[entry.task] # "none"
    /\ entry.completed => task[entry.task] = "none"

(* and a loop that stops has cancelled it and leaves no mark behind. *)
Stopped ==
    /\ ~Running => /\ ~entry.pending
                   /\ \A t \in Tasks : task[t] \notin {"queued", "building", "outdated"}
    /\ loop = "ended" => \A t \in Tasks : task[t] # "cancelled"

Structure == crossed \/ (OnlyTracked /\ MarksFit /\ Stopped)

(* Communities that are out of date have a build to come that reads the    *)
(* graph as it is, or orphans that the next GC will find.                  *)
Coming ==
    \/ \E t \in Tasks : task[t] \in {"queued", "building"}
    \/ entry.pending /\ task[entry.task] # "none"
RebuildComing ==
    lost \/ crossed \/ (Running /\ stale => garbage \/ loop = "removed" \/ Coming)

(* They are reported in the file between passes, and in the running pass. *)
Reported ==
    \/ lost \/ crossed
    \/ /\ loop = "waiting" /\ stale => flag \/ garbage
       /\ loop \in {"listing", "drain", "cleanup"} /\ stale => health \/ garbage
PassFresh == loop = "listing" => health = flag

(* Without a schedule the event stays set while a pass runs, so no trigger *)
(* is accepted that the end of the pass would clear.                       *)
TriggerHeld == ~settings.interval => (asked => event) /\ (loop \in PassSteps => event /\ ~asked)

IInv == /\ settings \in Settings /\ TypeOK /\ Structure /\ RebuildKeptUncrossed
        /\ RebuildComing /\ Reported /\ PassFresh /\ TriggerHeld

Step == Next /\ UNCHANGED settings

----------------------------------------------------------------------------
(* Types *)

Kinds == {"fault", "garbage", "synonyms", "post", "restart"}

(* The bounds are naturals, one for each kind of event. *)
LEMMA BoundsFit ==
  ASSUME settings \in Settings
  PROVE  DOMAIN Bounds = Kinds /\ \A kind \in Kinds : Bounds[kind] \in Nat
<1>1. settings \in [interval : BOOLEAN, gc : BOOLEAN, maxPosts : Nat, maxGarbage : Nat]
  BY ConstantsFit
<1> QED
  BY <1>1, ConstantsFit DEF Bounds, Kinds

(* One more use of a bound stays within it. *)
LEMMA UseFits ==
  ASSUME settings \in Settings, TypeOK, NEW kind \in Kinds, Use(kind), UNCHANGED settings
  PROVE  used' \in [DOMAIN Bounds' -> Nat] /\ \A k \in DOMAIN Bounds' : used'[k] <= Bounds'[k]
<1>1. Bounds' = Bounds
  BY DEF Bounds
<1>2. used \in [Kinds -> Nat] /\ \A k \in Kinds : used[k] <= Bounds[k]
  BY BoundsFit DEF TypeOK
<1>3. used' = [used EXCEPT ![kind] = used[kind] + 1] /\ used[kind] < Bounds[kind]
  BY DEF Use
<1>4. used' \in [Kinds -> Nat]
  BY <1>2, <1>3
<1>5. ASSUME NEW k \in Kinds PROVE used'[k] <= Bounds[k]
  BY <1>2, <1>3, <1>5, BoundsFit
<1> QED
  BY <1>1, <1>4, <1>5, BoundsFit

(* A spawned task is queued and tracked, the other tasks stay as they are. *)
LEMMA SpawnFits ==
  ASSUME TypeOK, NEW tasks \in [Tasks -> TaskStates], SpawnRebuildTask(tasks)
  PROVE  /\ task' \in [Tasks -> TaskStates] /\ entry' \in Entry /\ crossed' \in BOOLEAN
         /\ entry'.task \in Tasks /\ entry'.task # NoTask
         /\ ~entry'.pending /\ ~entry'.completed
         /\ tasks[entry'.task] = "none" /\ task' = [tasks EXCEPT ![entry'.task] = "queued"]
         /\ crossed' = (crossed \/ (Tracked /\ tasks[entry.task] # "none"))
<1>1. PICK new \in Tasks :
        /\ tasks[new] = "none"
        /\ task' = [tasks EXCEPT ![new] = "queued"]
        /\ entry' = [task |-> new, pending |-> FALSE, completed |-> FALSE]
        /\ crossed' = (crossed \/ (Tracked /\ tasks[entry.task] # "none"))
  BY DEF SpawnRebuildTask
<1>2. new # NoTask
  BY ConstantsFit
<1>3. entry' \in Entry /\ entry'.task = new /\ ~entry'.pending /\ ~entry'.completed
  BY <1>1 DEF Entry
<1>4. task' \in [Tasks -> TaskStates]
  BY <1>1 DEF TaskStates, Live
<1> QED
  BY <1>1, <1>2, <1>3, <1>4

(* The first state is well typed and satisfies the invariant. *)
LEMMA InitInv == Init => IInv
<1> SUFFICES ASSUME Init PROVE IInv
  OBVIOUS
<1>1. settings \in Settings
  BY DEF Init
<1>2. used \in [DOMAIN Bounds -> Nat] /\ \A kind \in DOMAIN Bounds : used[kind] <= Bounds[kind]
  BY <1>1, BoundsFit DEF Init
<1>3. TypeOK
  BY <1>2 DEF Init, TypeOK, PassSteps, Entry, NoEntry, TaskStates, Live
<1>4. Structure
  BY DEF Init, Structure, OnlyTracked, MarksFit, Stopped, Running, NoEntry
<1>5. RebuildKeptUncrossed /\ RebuildComing /\ Reported /\ PassFresh /\ TriggerHeld
  BY DEF Init, RebuildKeptUncrossed, RebuildKept, RebuildComing, Reported, PassFresh, TriggerHeld, PassSteps
<1> QED
  BY <1>1, <1>3, <1>4, <1>5 DEF IInv

(* TypeOK in three parts: the scalars, the rebuilds, the used bounds. *)
ScalarsOK ==
    /\ server \in {"up", "stopping", "closed"}
    /\ loop \in PassSteps \cup {"waiting", "cancelling", "ended"}
    /\ event \in BOOLEAN /\ requested \in BOOLEAN /\ health \in BOOLEAN /\ flag \in BOOLEAN
    /\ garbage \in BOOLEAN /\ stale \in BOOLEAN /\ asked \in BOOLEAN /\ owed \in BOOLEAN
    /\ lost \in BOOLEAN /\ crossed \in BOOLEAN
RebuildsOK ==
    /\ entry \in Entry /\ task \in [Tasks -> TaskStates]
    /\ entry.task = NoTask => ~entry.pending /\ ~entry.completed
UsedOK ==
    /\ used \in [DOMAIN Bounds -> Nat]
    /\ \A kind \in DOMAIN Bounds : used[kind] <= Bounds[kind]

(* The parts make up TypeOK. *)
LEMMA TypeParts == TypeOK <=> ScalarsOK /\ RebuildsOK /\ UsedOK
BY DEF TypeOK, ScalarsOK, RebuildsOK, UsedOK

(* Steps that use a bound, or none, keep within the bounds. *)
LEMMA UsedStep ==
  ASSUME settings \in Settings, TypeOK, UNCHANGED settings,
         (\E kind \in Kinds : Use(kind)) \/ UNCHANGED used
  PROVE  UsedOK'
<1>1. CASE \E kind \in Kinds : Use(kind)
  BY <1>1, UseFits DEF UsedOK
<1>2. CASE UNCHANGED used
  BY <1>2, TypeParts DEF UsedOK, Bounds
<1> QED
  BY <1>1, <1>2

(* Every action uses at most one bound. *)
LEMMA UsesOne == Next => (\E kind \in Kinds : Use(kind)) \/ UNCHANGED used
<1> SUFFICES ASSUME Next PROVE (\E kind \in Kinds : Use(kind)) \/ UNCHANGED used
  OBVIOUS
<1> USE DEF Kinds
<1>1. CASE TriggerMaintenance \/ LeaveGarbage \/ RequestRebuild \/ StopLoop \/ Restart
  BY <1>1 DEF TriggerMaintenance, LeaveGarbage, RequestRebuild, StopLoop, Restart
<1>2. CASE BeginPass \/ CloseStores
  BY <1>2 DEF BeginPass, CloseStores, histories
<1>3. CASE PassStep
  BY <1>3 DEF PassStep, ListFails, RemoveOrphans, AfterRemoval, NothingRemoved, GcFails, GcOff,
              DrainCommunitiesPendingRebuild, FinishPass, SaveFails, EndLoop, histories, Fault
<1>4. CASE \E t \in Tasks : TaskStep(t)
  BY <1>4 DEF TaskStep, StartBuild, FinishBuild, FailBuild, EndCancelled, OnRebuildDone, histories, Fault
<1> QED
  BY <1>1, <1>2, <1>3, <1>4 DEF Next

(* The pass and the callbacks change the rebuilds in four ways only. *)
LEMMA ConsumeFits ==
  ASSUME TypeOK, Consume
  PROVE  entry' \in Entry /\ (entry'.task = NoTask => ~entry'.pending /\ ~entry'.completed)
<1>1. CASE Consumed
  <2>1. entry' = NoEntry
    BY <1>1 DEF Consume
  <2>2. NoEntry \in Entry
    BY DEF NoEntry, Entry
  <2>3. ~NoEntry.pending /\ ~NoEntry.completed
    BY DEF NoEntry
  <2> QED
    BY <2>1, <2>2, <2>3
<1>2. CASE ~Consumed
  BY <1>2, TypeParts DEF Consume, RebuildsOK
<1> QED
  BY <1>1, <1>2

(* Every step keeps the scalars' types. *)
LEMMA ScalarsStep ==
  ASSUME TypeOK, Next
  PROVE  ScalarsOK'
<1> USE TypeParts DEF ScalarsOK, PassSteps
<1>1. CASE TriggerMaintenance
  BY <1>1 DEF TriggerMaintenance, rebuilds, histories
<1>2. CASE BeginPass
  BY <1>2 DEF BeginPass, rebuilds, histories
<1>3. CASE ListFails
  BY <1>3 DEF ListFails, rebuilds, histories
<1>4. CASE RemoveOrphans
  BY <1>4 DEF RemoveOrphans, rebuilds, histories
<1>5. CASE AfterRemoval
  BY <1>5, SpawnFits DEF AfterRemoval, MarkOrSpawn, RebuildsOK, rebuilds, histories
<1>6. CASE NothingRemoved
  BY <1>6 DEF NothingRemoved, rebuilds, histories
<1>7. CASE GcFails
  BY <1>7 DEF GcFails, rebuilds, histories
<1>8. CASE GcOff
  BY <1>8 DEF GcOff, rebuilds, histories
<1>9. CASE DrainCommunitiesPendingRebuild
  BY <1>9, SpawnFits DEF DrainCommunitiesPendingRebuild, RebuildsOK, rebuilds, histories
<1>10. CASE FinishPass
  BY <1>10 DEF FinishPass, rebuilds, histories
<1>11. CASE SaveFails
  BY <1>11 DEF SaveFails, CancelRebuilds, rebuilds, histories
<1>12. CASE EndLoop
  BY <1>12 DEF EndLoop, rebuilds, histories
<1>13. CASE LeaveGarbage
  BY <1>13 DEF LeaveGarbage, rebuilds, histories
<1>14. CASE RequestRebuild
  BY <1>14 DEF RequestRebuild, rebuilds, histories
<1>15. CASE StopLoop
  BY <1>15 DEF StopLoop, CancelRebuilds, rebuilds, histories
<1>16. CASE CloseStores
  BY <1>16 DEF CloseStores, rebuilds, histories
<1>17. CASE Restart
  BY <1>17 DEF Restart, rebuilds, histories
<1>18. ASSUME NEW t \in Tasks, StartBuild(t) PROVE ScalarsOK'
  <2>1. owed' = FALSE /\ server' = server /\ loop' = loop
    BY <1>18 DEF StartBuild
  <2>2. UNCHANGED <<event, requested, health, flag, garbage, stale, asked, lost, crossed>>
    BY <1>18 DEF StartBuild
  <2> QED
    BY <2>1, <2>2
<1>19. ASSUME NEW t \in Tasks, FinishBuild(t) PROVE ScalarsOK'
  BY <1>19 DEF FinishBuild, rebuilds, histories
<1>20. ASSUME NEW t \in Tasks, FailBuild(t) PROVE ScalarsOK'
  <2>1. stale' \in BOOLEAN
    BY <1>20 DEF FailBuild
  <2> QED
    BY <1>20, <2>1 DEF FailBuild
<1>21. ASSUME NEW t \in Tasks, EndCancelled(t) PROVE ScalarsOK'
  <2>1. stale' \in BOOLEAN
    BY <1>21 DEF EndCancelled
  <2>2. lost' = TRUE /\ server' = server /\ loop' = loop
    BY <1>21 DEF EndCancelled
  <2>3. UNCHANGED <<event, requested, health, flag, garbage, asked, owed, crossed>>
    BY <1>21 DEF EndCancelled
  <2> QED
    BY <2>1, <2>2, <2>3
<1>22. ASSUME NEW t \in Tasks, OnRebuildDone(t) PROVE ScalarsOK'
  <2>1. crossed' \in BOOLEAN
    <3>1. [task EXCEPT ![t] = "none"] \in [Tasks -> TaskStates]
      BY DEF RebuildsOK, TaskStates
    <3> QED
      BY <1>22, <3>1, SpawnFits DEF OnRebuildDone
  <2>2. UNCHANGED <<server, loop, event, requested, health, flag, garbage, stale, asked, owed, lost>>
    BY <1>22 DEF OnRebuildDone, histories
  <2> QED
    BY <2>1, <2>2
<1> QED
  BY <1>1, <1>2, <1>3, <1>4, <1>5, <1>6, <1>7, <1>8, <1>9, <1>10, <1>11, <1>12, <1>13, <1>14, <1>15, <1>16, <1>17, <1>18, <1>19, <1>20, <1>21, <1>22 DEF Next, PassStep, TaskStep

(* Every step keeps the types of the entry and the tasks. *)
LEMMA RebuildsStep ==
  ASSUME TypeOK, Next
  PROVE  RebuildsOK'
<1> USE TypeParts DEF RebuildsOK
<1>1. CASE TriggerMaintenance
  BY <1>1 DEF TriggerMaintenance, rebuilds
<1>2. CASE BeginPass
  BY <1>2 DEF BeginPass, rebuilds
<1>3. CASE ListFails
  BY <1>3 DEF ListFails, rebuilds
<1>4. CASE RemoveOrphans
  BY <1>4 DEF RemoveOrphans, TaskStates, Live, rebuilds
<1>5. CASE AfterRemoval
  BY <1>5, SpawnFits DEF AfterRemoval, MarkOrSpawn, Tracked, Entry, rebuilds
<1>6. CASE NothingRemoved
  BY <1>6, ConsumeFits DEF NothingRemoved, rebuilds
<1>7. CASE GcFails
  BY <1>7 DEF GcFails, TaskStates, Live, rebuilds
<1>8. CASE GcOff
  BY <1>8, ConsumeFits DEF GcOff, rebuilds
<1>9. CASE DrainCommunitiesPendingRebuild
  BY <1>9, SpawnFits DEF DrainCommunitiesPendingRebuild, rebuilds
<1>10. CASE FinishPass
  BY <1>10 DEF FinishPass, rebuilds
<1>11. CASE SaveFails
  BY <1>11 DEF SaveFails, CancelRebuilds, Entry, NoEntry, TaskStates, Live, rebuilds
<1>12. CASE EndLoop
  BY <1>12 DEF EndLoop, rebuilds
<1>13. CASE LeaveGarbage
  BY <1>13 DEF LeaveGarbage, rebuilds
<1>14. CASE RequestRebuild
  BY <1>14 DEF RequestRebuild, rebuilds
<1>15. CASE StopLoop
  BY <1>15 DEF StopLoop, CancelRebuilds, Entry, NoEntry, TaskStates, Live, rebuilds
<1>16. CASE CloseStores
  BY <1>16 DEF CloseStores, rebuilds
<1>17. CASE Restart
  BY <1>17 DEF Restart, Entry, NoEntry, TaskStates, rebuilds
<1>18. ASSUME NEW t \in Tasks, StartBuild(t) PROVE RebuildsOK'
  BY <1>18 DEF StartBuild, TaskStates, Live
<1>19. ASSUME NEW t \in Tasks, FinishBuild(t) PROVE RebuildsOK'
  BY <1>19 DEF FinishBuild, TaskStates, Live
<1>20. ASSUME NEW t \in Tasks, FailBuild(t) PROVE RebuildsOK'
  BY <1>20 DEF FailBuild, TaskStates, Live
<1>21. ASSUME NEW t \in Tasks, EndCancelled(t) PROVE RebuildsOK'
  BY <1>21 DEF EndCancelled, TaskStates, Live
<1>22. ASSUME NEW t \in Tasks, OnRebuildDone(t) PROVE RebuildsOK'
  BY <1>22, SpawnFits DEF OnRebuildDone, TaskStates, Live, Entry, Tracked, NoEntry
<1> QED
  BY <1>1, <1>2, <1>3, <1>4, <1>5, <1>6, <1>7, <1>8, <1>9, <1>10, <1>11, <1>12, <1>13, <1>14, <1>15, <1>16, <1>17, <1>18, <1>19, <1>20, <1>21, <1>22 DEF Next, PassStep, TaskStep

(* Every step keeps TypeOK. *)
LEMMA TypeStep ==
  ASSUME settings \in Settings, TypeOK, Step
  PROVE  TypeOK'
<1>1. UsedOK'
  BY UsedStep, UsesOne DEF Step
<1>2. ScalarsOK' /\ RebuildsOK'
  BY ScalarsStep, RebuildsStep DEF Step
<1>3. TypeOK' <=> ScalarsOK' /\ RebuildsOK' /\ UsedOK'
  BY DEF TypeOK, ScalarsOK, RebuildsOK, UsedOK
<1> QED
  BY <1>1, <1>2, <1>3

----------------------------------------------------------------------------
(* Rebuilds *)

(* Where no task but the tracked one exists, a spawn that does not cross   *)
(* leaves the new task alone, queued and tracked.                          *)
LEMMA SpawnAlone ==
  ASSUME TypeOK, NEW tasks \in [Tasks -> TaskStates], SpawnRebuildTask(tasks), ~crossed',
         \A t \in Tasks : tasks[t] # "none" => entry.task = t
  PROVE  /\ OnlyTracked' /\ MarksFit' /\ ~entry'.pending
         /\ entry'.task \in Tasks /\ task'[entry'.task] = "queued"
<1>1. ~(Tracked /\ tasks[entry.task] # "none")
  BY SpawnFits
<1>2. \A t \in Tasks : tasks[t] = "none"
  BY <1>1, ConstantsFit DEF Tracked
<1>3. /\ entry'.task \in Tasks /\ ~entry'.pending /\ ~entry'.completed
      /\ task' = [tasks EXCEPT ![entry'.task] = "queued"]
  BY SpawnFits
<1> QED
  BY <1>2, <1>3 DEF OnlyTracked, MarksFit

(* Steps that leave the rebuilds alone and do not stop the loop. *)
LEMMA StructureRests ==
  ASSUME Structure, UNCHANGED <<entry, task, crossed>>, loop' = loop \/ Running'
  PROVE  Structure'
BY DEF Structure, OnlyTracked, MarksFit, Stopped, Running

(* A loop that stops cancels the tracked rebuild and clears its mark. *)
LEMMA CancelStructure ==
  ASSUME TypeOK, Structure, CancelRebuilds, ~crossed
  PROVE  OnlyTracked' /\ MarksFit' /\ Stopped'
<1>1. RebuildsOK /\ OnlyTracked /\ MarksFit
  BY TypeParts DEF Structure
<1>2. entry'.task = entry.task /\ ~entry'.pending /\ entry'.completed = entry.completed
  BY <1>1 DEF CancelRebuilds, RebuildsOK, Entry
<1>3. \A t \in Tasks : /\ task'[t] = "none" <=> task[t] = "none"
                       /\ task'[t] \notin {"queued", "building", "outdated"}
  BY <1>1 DEF CancelRebuilds, RebuildsOK, TaskStates, Live, OnlyTracked
<1>4. OnlyTracked'
  BY <1>1, <1>2, <1>3 DEF OnlyTracked
<1>5. MarksFit'
  BY <1>1, <1>2, <1>3 DEF MarksFit, RebuildsOK, Entry
<1>6. Stopped'
  BY <1>2, <1>3 DEF Stopped, CancelRebuilds
<1> QED
  BY <1>4, <1>5, <1>6

(* Every step keeps the structure of the rebuilds. *)
LEMMA StructureStep ==
  ASSUME TypeOK, Structure, Next
  PROVE  Structure'
<1>a. RebuildsOK /\ ScalarsOK
  BY TypeParts
<1>1. CASE \/ TriggerMaintenance \/ BeginPass \/ ListFails \/ FinishPass \/ LeaveGarbage
           \/ RequestRebuild \/ CloseStores
  BY <1>1, StructureRests DEF TriggerMaintenance, BeginPass, ListFails, FinishPass, LeaveGarbage,
       RequestRebuild, CloseStores, rebuilds, Running
<1>2. CASE Restart
  BY <1>2 DEF Restart, NoEntry, Structure, OnlyTracked, MarksFit, Stopped, Running
<1>3. CASE SaveFails
  BY <1>3, CancelStructure DEF SaveFails, Structure
<1>4. CASE StopLoop
  <2>1. CASE loop \in PassSteps \cup {"waiting"}
    BY <1>4, <2>1, CancelStructure DEF StopLoop, Structure
  <2>2. CASE loop \notin PassSteps \cup {"waiting"}
    BY <1>4, <2>2, StructureRests DEF StopLoop
  <2> QED
    BY <2>1, <2>2
<1>5. CASE EndLoop
  BY <1>5 DEF EndLoop, rebuilds, Structure, OnlyTracked, MarksFit, Stopped, Running
<1>6. CASE RemoveOrphans \/ GcFails
  <2>1. UNCHANGED <<entry, crossed>> /\ Running'
    BY <1>6 DEF RemoveOrphans, GcFails, Running
  <2>2. \A t \in Tasks : task'[t] = "none" <=> task[t] = "none"
    BY <1>6 DEF RemoveOrphans, GcFails
  <2> QED
    BY <1>a, <2>1, <2>2 DEF Structure, OnlyTracked, MarksFit, Stopped, Running, RebuildsOK, Entry
<1>7. CASE NothingRemoved \/ GcOff
  <2>1. UNCHANGED <<task, crossed>> /\ Running' /\ Consume
    BY <1>7 DEF NothingRemoved, GcOff, Running
  <2>2. CASE Consumed
    <3>1. entry' = NoEntry
      BY <2>1, <2>2 DEF Consume
    <3>2. crossed \/ \A t \in Tasks : task[t] = "none"
      BY <1>a, <2>2 DEF Consumed, Structure, OnlyTracked, MarksFit
    <3> QED
      BY <2>1, <3>1, <3>2 DEF NoEntry, Structure, OnlyTracked, MarksFit, Stopped, Running
  <2>3. CASE ~Consumed
    BY <2>1, <2>3, StructureRests DEF Consume
  <2> QED
    BY <2>2, <2>3
<1>8. CASE AfterRemoval
  <2>1. Running'
    BY <1>8 DEF AfterRemoval, Running
  <2>2. CASE Tracked /\ task[entry.task] \in Live
    <3>1. entry' = [entry EXCEPT !.pending = TRUE] /\ UNCHANGED <<task, crossed>>
      BY <1>8, <2>2 DEF AfterRemoval, MarkOrSpawn
    <3>2. entry'.task = entry.task /\ entry'.completed = entry.completed
      BY <1>a, <3>1 DEF RebuildsOK, Entry
    <3> QED
      BY <1>a, <2>1, <2>2, <3>1, <3>2 DEF Structure, OnlyTracked, MarksFit, Stopped, Running, Live
  <2>3. CASE ~(Tracked /\ task[entry.task] \in Live)
    <3>1. SpawnRebuildTask(task)
      BY <1>8, <2>3 DEF AfterRemoval, MarkOrSpawn
    <3>2. crossed' \/ ~crossed
      BY <1>a, <3>1, SpawnFits DEF RebuildsOK
    <3> QED
      BY <1>a, <2>1, <3>1, <3>2, SpawnAlone DEF Structure, OnlyTracked, Stopped, RebuildsOK, Running
  <2> QED
    BY <2>2, <2>3
<1>9. CASE DrainCommunitiesPendingRebuild
  <2>1. Running'
    BY <1>9 DEF DrainCommunitiesPendingRebuild, Running
  <2>2. CASE requested
    <3>1. SpawnRebuildTask(task)
      BY <1>9, <2>2 DEF DrainCommunitiesPendingRebuild
    <3>2. crossed' \/ ~crossed
      BY <1>a, <3>1, SpawnFits DEF RebuildsOK
    <3> QED
      BY <1>a, <2>1, <3>1, <3>2, SpawnAlone DEF Structure, OnlyTracked, Stopped, RebuildsOK, Running
  <2>3. CASE ~requested
    BY <1>9, <2>1, <2>3, StructureRests DEF DrainCommunitiesPendingRebuild, rebuilds
  <2> QED
    BY <2>2, <2>3
<1>10. ASSUME NEW t \in Tasks, StartBuild(t) \/ FinishBuild(t) \/ FailBuild(t) \/ EndCancelled(t)
       PROVE  Structure'
  <2>1. UNCHANGED <<entry, crossed, loop>>
    BY <1>10 DEF StartBuild, FinishBuild, FailBuild, EndCancelled
  <2>2. PICK v \in {"building", "over"} : task' = [task EXCEPT ![t] = v]
    BY <1>10 DEF StartBuild, FinishBuild, FailBuild, EndCancelled
  <2>3. task[t] # "none" /\ (v = "building" => task[t] = "queued")
    BY <1>10, <2>2, <1>a DEF StartBuild, FinishBuild, FailBuild, EndCancelled, Building, RebuildsOK
  <2>4. \A u \in Tasks : /\ task'[u] = "none" <=> task[u] = "none"
                         /\ u # t => task'[u] = task[u]
    BY <1>a, <2>2, <2>3 DEF RebuildsOK
  <2>5. task'[t] = v
    BY <1>a, <2>2 DEF RebuildsOK
  <2>6. Stopped => Stopped'
    BY <2>1, <2>3, <2>4, <2>5 DEF Stopped, Running
  <2> QED
    BY <1>a, <2>1, <2>4, <2>6 DEF Structure, OnlyTracked, MarksFit, RebuildsOK, Entry
<1>11. ASSUME NEW t \in Tasks, OnRebuildDone(t)
       PROVE  Structure'
  <2> DEFINE after == [task EXCEPT ![t] = "none"]
  <2>1. task[t] = "over" /\ loop' = loop
    BY <1>11 DEF OnRebuildDone
  <2>2. after \in [Tasks -> TaskStates] /\ \A u \in Tasks : after[u] = IF u = t THEN "none" ELSE task[u]
    BY <1>a DEF RebuildsOK, TaskStates
  <2>3. CASE Tracked /\ entry.pending
    <3>1. SpawnRebuildTask(after)
      BY <1>11, <2>3 DEF OnRebuildDone
    <3>2. crossed' \/ ~crossed
      BY <2>2, <3>1, SpawnFits
    <3>3. crossed \/ Running
      BY <2>3 DEF Structure, Stopped
    <3>4. crossed' \/ (OnlyTracked' /\ MarksFit')
      BY <2>2, <3>1, <3>2, SpawnAlone DEF Structure, OnlyTracked
    <3> QED
      BY <2>1, <3>2, <3>3, <3>4 DEF Structure, Stopped, Running
  <2>4. CASE ~(Tracked /\ entry.pending)
    <3>1. task' = after /\ entry' = [entry EXCEPT !.completed = Tracked] /\ crossed' = crossed
      BY <1>11, <2>4 DEF OnRebuildDone
    <3>2. entry'.task = entry.task /\ entry'.pending = entry.pending /\ entry'.completed = Tracked
      BY <1>a, <3>1 DEF RebuildsOK, Entry
    <3>3. OnlyTracked => OnlyTracked'
      BY <2>2, <3>1, <3>2 DEF OnlyTracked
    <3>4. Stopped => Stopped'
      BY <2>1, <2>2, <3>1, <3>2 DEF Stopped, Running
    <3>5. ~entry.pending
      BY <1>a, <2>4 DEF Tracked, RebuildsOK
    <3>6. OnlyTracked => MarksFit'
      BY <1>a, <2>1, <2>2, <3>1, <3>2, <3>5 DEF OnlyTracked, MarksFit, RebuildsOK, Entry, Tracked
    <3> QED
      BY <3>1, <3>3, <3>4, <3>6 DEF Structure
  <2> QED
    BY <2>3, <2>4
<1> QED
  BY <1>1, <1>2, <1>3, <1>4, <1>5, <1>6, <1>7, <1>8, <1>9, <1>10, <1>11 DEF Next, PassStep, TaskStep

(* A rebuild that was asked for stays on its way. *)
LEMMA KeptStep ==
  ASSUME TypeOK, Structure, RebuildKeptUncrossed, Next
  PROVE  RebuildKeptUncrossed'
<1>a. RebuildsOK /\ ScalarsOK
  BY TypeParts
<1>1. CASE TriggerMaintenance \/ BeginPass \/ ListFails \/ FinishPass \/ LeaveGarbage
  BY <1>1 DEF TriggerMaintenance, BeginPass, ListFails, FinishPass, LeaveGarbage, rebuilds, histories,
              RebuildKeptUncrossed, RebuildKept, Tracked
<1>2. CASE CloseStores \/ EndLoop \/ SaveFails \/ StopLoop \/ Restart
  BY <1>2 DEF CloseStores, EndLoop, SaveFails, StopLoop, Restart, CancelRebuilds,
              RebuildKeptUncrossed, RebuildKept
<1>3. CASE RequestRebuild
  BY <1>3 DEF RequestRebuild, RebuildKeptUncrossed, RebuildKept
<1>4. CASE RemoveOrphans \/ GcFails
  <2>1. UNCHANGED <<entry, crossed, requested, owed, server>> /\ loop \notin {"cancelling", "ended"}
    BY <1>4 DEF RemoveOrphans, GcFails, histories
  <2>2. \A t \in Tasks : /\ task'[t] = "none" <=> task[t] = "none"
                         /\ task[t] = "queued" => task'[t] = "queued"
    BY <1>4 DEF RemoveOrphans, GcFails
  <2> QED
    BY <1>a, <2>1, <2>2 DEF RebuildKeptUncrossed, RebuildKept, Tracked, RebuildsOK, Entry
<1>5. CASE NothingRemoved \/ GcOff
  <2>1. UNCHANGED <<task, crossed, requested, owed, server>> /\ loop = "listing" /\ Consume
    BY <1>5 DEF NothingRemoved, GcOff, histories
  <2>2. crossed \/ ~Consumed \/ ~entry.pending
    BY DEF Consumed, Structure, MarksFit
  <2> QED
    BY <2>1, <2>2 DEF Consume, RebuildKeptUncrossed, RebuildKept, Tracked
<1>6. CASE AfterRemoval
  <2>1. CASE Tracked /\ task[entry.task] \in Live
    <3>1. entry' = [entry EXCEPT !.pending = TRUE] /\ UNCHANGED task
      BY <1>6, <2>1 DEF AfterRemoval, MarkOrSpawn
    <3>2. entry'.task = entry.task /\ entry'.pending
      BY <1>a, <3>1 DEF RebuildsOK, Entry
    <3> QED
      BY <2>1, <3>1, <3>2 DEF RebuildKeptUncrossed, RebuildKept, Tracked, Live
  <2>2. CASE ~(Tracked /\ task[entry.task] \in Live)
    <3>1. SpawnRebuildTask(task)
      BY <1>6, <2>2 DEF AfterRemoval, MarkOrSpawn
    <3> QED
      BY <1>a, <3>1, SpawnFits DEF RebuildKeptUncrossed, RebuildKept, RebuildsOK
  <2> QED
    BY <2>1, <2>2
<1>7. CASE DrainCommunitiesPendingRebuild
  <2>1. CASE requested
    BY <1>a, <1>7, <2>1, SpawnFits DEF DrainCommunitiesPendingRebuild, RebuildKeptUncrossed, RebuildKept, RebuildsOK
  <2>2. CASE ~requested
    BY <1>7, <2>2 DEF DrainCommunitiesPendingRebuild, rebuilds, histories, RebuildKeptUncrossed, RebuildKept, Tracked
  <2> QED
    BY <2>1, <2>2
<1>8. ASSUME NEW t \in Tasks, StartBuild(t)
      PROVE  RebuildKeptUncrossed'
  BY <1>8 DEF StartBuild, RebuildKeptUncrossed, RebuildKept
<1>9. ASSUME NEW t \in Tasks, FinishBuild(t) \/ FailBuild(t) \/ EndCancelled(t)
      PROVE  RebuildKeptUncrossed'
  <2>1. UNCHANGED <<entry, crossed, requested, owed, server, loop>> /\ task' = [task EXCEPT ![t] = "over"]
    BY <1>9 DEF FinishBuild, FailBuild, EndCancelled
  <2>2. task[t] \in {"building", "outdated", "cancelled"}
    BY <1>9 DEF FinishBuild, FailBuild, EndCancelled, Building
  <2>3. \A u \in Tasks : /\ task'[u] = "none" <=> task[u] = "none"
                         /\ task[u] = "queued" => task'[u] = "queued"
    BY <1>a, <2>1, <2>2 DEF RebuildsOK
  <2> QED
    BY <1>a, <2>1, <2>3 DEF RebuildKeptUncrossed, RebuildKept, Tracked, RebuildsOK, Entry
<1>10. ASSUME NEW t \in Tasks, OnRebuildDone(t)
       PROVE  RebuildKeptUncrossed'
  <2> DEFINE after == [task EXCEPT ![t] = "none"]
  <2>1. task[t] = "over" /\ UNCHANGED <<requested, owed, server, loop>>
    BY <1>10 DEF OnRebuildDone, histories
  <2>2. after \in [Tasks -> TaskStates] /\ \A u \in Tasks : after[u] = IF u = t THEN "none" ELSE task[u]
    BY <1>a DEF RebuildsOK, TaskStates
  <2>3. CASE Tracked /\ entry.pending
    <3>1. SpawnRebuildTask(after)
      BY <1>10, <2>3 DEF OnRebuildDone
    <3> QED
      BY <2>2, <3>1, SpawnFits DEF RebuildKeptUncrossed, RebuildKept
  <2>4. CASE ~(Tracked /\ entry.pending)
    <3>1. task' = after /\ crossed' = crossed
      BY <1>10, <2>4 DEF OnRebuildDone
    <3> QED
      BY <2>1, <2>2, <2>4, <3>1 DEF RebuildKeptUncrossed, RebuildKept
  <2> QED
    BY <2>3, <2>4
<1> QED
  BY <1>1, <1>2, <1>3, <1>4, <1>5, <1>6, <1>7, <1>8, <1>9, <1>10 DEF Next, PassStep, TaskStep

(* Communities out of date keep a build, or a GC, to come. *)
LEMMA ComingStep ==
  ASSUME TypeOK, Structure, RebuildComing, Next
  PROVE  RebuildComing'
<1>a. RebuildsOK /\ ScalarsOK
  BY TypeParts
<1>1. CASE \/ TriggerMaintenance \/ BeginPass \/ ListFails \/ FinishPass \/ LeaveGarbage
           \/ RequestRebuild \/ CloseStores
  BY <1>1 DEF TriggerMaintenance, BeginPass, ListFails, FinishPass, LeaveGarbage, RequestRebuild,
              CloseStores, rebuilds, histories, RebuildComing, Coming, Running
<1>2. CASE EndLoop \/ SaveFails
  BY <1>2 DEF EndLoop, SaveFails, CancelRebuilds, RebuildComing, Running
<1>3. CASE StopLoop
  <2>1. ~Running'
    BY <1>a, <1>3 DEF StopLoop, CancelRebuilds, Running, ScalarsOK
  <2> QED
    BY <2>1 DEF RebuildComing
<1>4. CASE Restart
  BY <1>4 DEF Restart, RebuildComing
<1>5. CASE RemoveOrphans
  BY <1>5 DEF RemoveOrphans, RebuildComing
<1>6. CASE GcFails
  <2>1. CASE garbage
    BY <1>6, <2>1 DEF GcFails, RebuildComing
  <2>2. CASE ~garbage
    BY <1>6, <2>2 DEF GcFails, RebuildComing, Coming, Running
  <2> QED
    BY <2>1, <2>2
<1>7. CASE NothingRemoved \/ GcOff
  <2>1. UNCHANGED <<task, crossed, lost, stale, garbage>> /\ loop = "listing" /\ Consume
    BY <1>7 DEF NothingRemoved, GcOff, histories
  <2>2. crossed \/ ~Consumed \/ ~Coming
    BY <1>a DEF Consumed, Structure, MarksFit, OnlyTracked, Coming, RebuildsOK
  <2>3. ~Consumed => entry' = entry
    BY <2>1 DEF Consume
  <2> QED
    BY <2>1, <2>2, <2>3 DEF RebuildComing, Coming, Running
<1>8. CASE AfterRemoval
  <2>1. CASE Tracked /\ task[entry.task] \in Live
    <3>1. entry' = [entry EXCEPT !.pending = TRUE] /\ UNCHANGED task
      BY <1>8, <2>1 DEF AfterRemoval, MarkOrSpawn
    <3>2. entry'.task = entry.task /\ entry'.pending
      BY <1>a, <3>1 DEF RebuildsOK, Entry
    <3> QED
      BY <2>1, <3>1, <3>2 DEF RebuildComing, Coming, Live
  <2>2. CASE ~(Tracked /\ task[entry.task] \in Live)
    <3>1. SpawnRebuildTask(task)
      BY <1>8, <2>2 DEF AfterRemoval, MarkOrSpawn
    <3> QED
      BY <1>a, <3>1, SpawnFits DEF RebuildComing, Coming, RebuildsOK
  <2> QED
    BY <2>1, <2>2
<1>9. CASE DrainCommunitiesPendingRebuild
  <2>1. CASE requested
    <3>1. SpawnRebuildTask(task)
      BY <1>9, <2>1 DEF DrainCommunitiesPendingRebuild
    <3> QED
      BY <1>a, <3>1, SpawnFits DEF RebuildComing, Coming, RebuildsOK
  <2>2. CASE ~requested
    BY <1>9, <2>2 DEF DrainCommunitiesPendingRebuild, rebuilds, histories, RebuildComing, Coming, Running
  <2> QED
    BY <2>1, <2>2
<1>10. ASSUME NEW t \in Tasks, StartBuild(t)
       PROVE  RebuildComing'
  <2>1. task'[t] = "building"
    BY <1>a, <1>10 DEF StartBuild, RebuildsOK
  <2> QED
    BY <2>1 DEF RebuildComing, Coming
<1>11. ASSUME NEW t \in Tasks, FinishBuild(t)
       PROVE  RebuildComing'
  <2>1. UNCHANGED <<entry, crossed, garbage, loop>> /\ task' = [task EXCEPT ![t] = "over"]
    BY <1>11 DEF FinishBuild
  <2>2. CASE task[t] = "outdated"
    <3>1. stale' = stale /\ lost' = lost
      BY <1>a, <1>11, <2>2 DEF FinishBuild, ScalarsOK
    <3>2. \A u \in Tasks : task[u] \in {"queued", "building"} => task'[u] = task[u]
      BY <1>a, <2>1, <2>2 DEF RebuildsOK
    <3>3. entry.pending /\ task[entry.task] # "none" => task'[entry.task] # "none"
      BY <1>a, <2>1 DEF RebuildsOK, Entry
    <3> QED
      BY <2>1, <3>1, <3>2, <3>3 DEF RebuildComing, Coming, Running
  <2>3. CASE task[t] # "outdated"
    BY <1>11, <2>3 DEF FinishBuild, RebuildComing
  <2> QED
    BY <2>2, <2>3
<1>12. ASSUME NEW t \in Tasks, FailBuild(t) \/ EndCancelled(t)
       PROVE  RebuildComing'
  BY <1>12 DEF FailBuild, EndCancelled, RebuildComing
<1>13. ASSUME NEW t \in Tasks, OnRebuildDone(t)
       PROVE  RebuildComing'
  <2> DEFINE after == [task EXCEPT ![t] = "none"]
  <2>1. task[t] = "over" /\ UNCHANGED <<stale, garbage, lost, loop>>
    BY <1>13 DEF OnRebuildDone, histories
  <2>2. after \in [Tasks -> TaskStates] /\ \A u \in Tasks : after[u] = IF u = t THEN "none" ELSE task[u]
    BY <1>a DEF RebuildsOK, TaskStates
  <2>3. CASE Tracked /\ entry.pending
    <3>1. SpawnRebuildTask(after)
      BY <1>13, <2>3 DEF OnRebuildDone
    <3> QED
      BY <2>2, <3>1, SpawnFits DEF RebuildComing, Coming
  <2>4. CASE ~(Tracked /\ entry.pending)
    <3>1. task' = after /\ crossed' = crossed
      BY <1>13, <2>4 DEF OnRebuildDone
    <3>2. Coming => Coming'
      BY <1>a, <2>1, <2>2, <2>4, <3>1 DEF Coming, Tracked, RebuildsOK
    <3> QED
      BY <2>1, <3>1, <3>2 DEF RebuildComing, Running
  <2> QED
    BY <2>3, <2>4
<1> QED
  BY <1>1, <1>2, <1>3, <1>4, <1>5, <1>6, <1>7, <1>8, <1>9, <1>10, <1>11, <1>12, <1>13 DEF Next, PassStep, TaskStep

(* What is out of date stays reported. *)
LEMMA ReportedStep ==
  ASSUME TypeOK, Structure, RebuildComing, Reported, PassFresh, Next
  PROVE  Reported'
<1>a. RebuildsOK /\ ScalarsOK
  BY TypeParts
<1>1. CASE TriggerMaintenance \/ BeginPass \/ LeaveGarbage \/ RequestRebuild \/ CloseStores
  BY <1>1 DEF TriggerMaintenance, BeginPass, LeaveGarbage, RequestRebuild, CloseStores, rebuilds,
              histories, Reported
<1>2. CASE ListFails
  BY <1>2 DEF ListFails, rebuilds, Reported, PassFresh
<1>3. CASE FinishPass
  BY <1>3 DEF FinishPass, rebuilds, histories, Reported
<1>4. CASE EndLoop \/ SaveFails
  BY <1>4 DEF EndLoop, SaveFails, CancelRebuilds, Reported
<1>5. CASE StopLoop
  <2>1. loop' \in {"cancelling", "ended"}
    BY <1>a, <1>5 DEF StopLoop, CancelRebuilds, ScalarsOK
  <2> QED
    BY <2>1 DEF Reported
<1>6. CASE Restart
  BY <1>6 DEF Restart, Reported
<1>7. CASE RemoveOrphans \/ AfterRemoval
  BY <1>7 DEF RemoveOrphans, AfterRemoval, Reported
<1>8. CASE GcFails
  BY <1>8 DEF GcFails, Reported
<1>9. CASE NothingRemoved \/ GcOff
  <2>1. UNCHANGED <<crossed, lost, stale, garbage>> /\ loop = "listing" /\ loop' = "drain"
    BY <1>9 DEF NothingRemoved, GcOff, histories
  <2>2. crossed \/ (Tracked /\ ~Consumed) \/ ~Coming
    BY <1>a, ConstantsFit DEF Consumed, Structure, MarksFit, OnlyTracked, Coming, RebuildsOK, Entry, Tracked
  <2>3. Tracked /\ ~Consumed => health' = health
    BY <1>a, <1>9 DEF NothingRemoved, GcOff, ScalarsOK
  <2> QED
    BY <2>1, <2>2, <2>3 DEF RebuildComing, Reported, Running
<1>10. CASE DrainCommunitiesPendingRebuild
  <2>1. crossed => crossed'
    BY <1>a, <1>10, SpawnFits DEF DrainCommunitiesPendingRebuild, rebuilds, RebuildsOK
  <2> QED
    BY <1>10, <2>1 DEF DrainCommunitiesPendingRebuild, histories, Reported
<1>11. ASSUME NEW t \in Tasks, StartBuild(t)
       PROVE  Reported'
  BY <1>11 DEF StartBuild, Reported
<1>12. ASSUME NEW t \in Tasks, FinishBuild(t)
       PROVE  Reported'
  <2>1. UNCHANGED <<crossed, garbage, loop, health, flag>>
    BY <1>12 DEF FinishBuild
  <2>2. (stale' => stale) /\ (~lost' => ~lost \/ ~stale')
    BY <1>12 DEF FinishBuild
  <2> QED
    BY <2>1, <2>2 DEF Reported
<1>13. ASSUME NEW t \in Tasks, FailBuild(t) \/ EndCancelled(t)
       PROVE  Reported'
  BY <1>13 DEF FailBuild, EndCancelled, Reported
<1>14. ASSUME NEW t \in Tasks, OnRebuildDone(t)
       PROVE  Reported'
  <2>1. [task EXCEPT ![t] = "none"] \in [Tasks -> TaskStates]
    BY <1>a DEF RebuildsOK, TaskStates
  <2>2. crossed => crossed'
    BY <1>14, <2>1, SpawnFits DEF OnRebuildDone
  <2> QED
    BY <1>14, <2>2 DEF OnRebuildDone, histories, Reported
<1> QED
  BY <1>1, <1>2, <1>3, <1>4, <1>5, <1>6, <1>7, <1>8, <1>9, <1>10, <1>11, <1>12, <1>13, <1>14
     DEF Next, PassStep, TaskStep

(* A pass begins with what the file says, and GC decides before anything   *)
(* else changes it.                                                        *)
LEMMA FreshStep ==
  ASSUME TypeOK, PassFresh, Next
  PROVE  PassFresh'
<1>a. ScalarsOK
  BY TypeParts
<1>1. CASE TriggerMaintenance \/ BeginPass \/ LeaveGarbage \/ RequestRebuild \/ CloseStores
  BY <1>1 DEF TriggerMaintenance, BeginPass, LeaveGarbage, RequestRebuild, CloseStores, PassFresh
<1>2. CASE PassStep
  BY <1>2 DEF PassStep, ListFails, RemoveOrphans, AfterRemoval, NothingRemoved, GcFails, GcOff,
              DrainCommunitiesPendingRebuild, FinishPass, SaveFails, EndLoop, CancelRebuilds, PassFresh
<1>3. CASE StopLoop \/ Restart
  BY <1>3 DEF StopLoop, Restart, CancelRebuilds, PassFresh
<1>4. ASSUME NEW t \in Tasks, TaskStep(t)
      PROVE  PassFresh'
  BY <1>4 DEF TaskStep, StartBuild, FinishBuild, FailBuild, EndCancelled, OnRebuildDone, PassFresh
<1> QED
  BY <1>1, <1>2, <1>3, <1>4 DEF Next

(* Without a schedule no trigger is wiped out. *)
LEMMA TriggerStep ==
  ASSUME TypeOK, TriggerHeld, Step
  PROVE  TriggerHeld'
<1> SUFFICES ASSUME ~settings.interval, Next, settings' = settings
             PROVE  (asked' => event') /\ (loop' \in PassSteps => event' /\ ~asked')
  BY DEF TriggerHeld, Step
<1>a. (asked => event) /\ (loop \in PassSteps => event /\ ~asked)
  BY DEF TriggerHeld
<1>1. CASE TriggerMaintenance \/ LeaveGarbage \/ RequestRebuild \/ CloseStores
  BY <1>a, <1>1 DEF TriggerMaintenance, LeaveGarbage, RequestRebuild, CloseStores, histories
<1>2. CASE BeginPass
  BY <1>a, <1>2 DEF BeginPass
<1>3. CASE ListFails \/ FinishPass
  <2>1. asked' = asked /\ loop' = "waiting" /\ ~asked
    BY <1>a, <1>3 DEF ListFails, FinishPass, histories, PassSteps
  <2> QED
    BY <2>1 DEF PassSteps
<1>4. CASE RemoveOrphans \/ AfterRemoval \/ NothingRemoved \/ GcFails \/ GcOff
           \/ DrainCommunitiesPendingRebuild \/ SaveFails \/ EndLoop
  BY <1>a, <1>4 DEF RemoveOrphans, AfterRemoval, NothingRemoved, GcFails, GcOff, CancelRebuilds,
       DrainCommunitiesPendingRebuild, SaveFails, EndLoop, histories, PassSteps
<1>5. CASE StopLoop
  BY <1>a, <1>5 DEF StopLoop, CancelRebuilds, PassSteps
<1>6. CASE Restart
  BY <1>6 DEF Restart, PassSteps
<1>7. ASSUME NEW t \in Tasks, TaskStep(t)
      PROVE  (asked' => event') /\ (loop' \in PassSteps => event' /\ ~asked')
  <2>1. UNCHANGED <<asked, event, loop>>
    BY <1>7 DEF TaskStep, StartBuild, FinishBuild, FailBuild, EndCancelled, OnRebuildDone, histories
  <2> QED
    BY <1>a, <2>1
<1> QED
  BY <1>1, <1>2, <1>3, <1>4, <1>5, <1>6, <1>7 DEF Next, PassStep

----------------------------------------------------------------------------
(* Theorems *)

(* Every step keeps the invariant. *)
LEMMA StepInv == IInv /\ [Step]_<<vars, settings>> => IInv'
<1> SUFFICES ASSUME IInv, [Step]_<<vars, settings>> PROVE IInv'
  OBVIOUS
<1>1. CASE Step
  <2>1. settings' \in Settings /\ TypeOK'
    BY <1>1, TypeStep DEF IInv, Step
  <2>2. Structure' /\ RebuildKeptUncrossed' /\ RebuildComing' /\ Reported' /\ PassFresh'
    BY <1>1, StructureStep, KeptStep, ComingStep, ReportedStep, FreshStep DEF IInv, Step
  <2>3. TriggerHeld'
    BY <1>1, TriggerStep DEF IInv
  <2> QED
    BY <2>1, <2>2, <2>3 DEF IInv
<1>2. CASE UNCHANGED <<vars, settings>>
  <2>1. UNCHANGED <<server, loop, event, entry, task, requested, health, flag>>
    BY <1>2 DEF vars
  <2>2. UNCHANGED <<garbage, stale, asked, owed, lost, crossed, used, settings>>
    BY <1>2 DEF vars
  <2>3. settings' \in Settings /\ TypeOK'
    BY <2>1, <2>2 DEF IInv, TypeOK, Bounds
  <2>4. Structure'
    BY <2>1, <2>2 DEF IInv, Structure, OnlyTracked, MarksFit, Stopped, Running
  <2>5. RebuildKeptUncrossed'
    BY <2>1, <2>2 DEF IInv, RebuildKeptUncrossed, RebuildKept, Tracked
  <2>6. RebuildComing'
    BY <2>1, <2>2 DEF IInv, RebuildComing, Coming, Running
  <2>7. Reported' /\ PassFresh' /\ TriggerHeld'
    BY <2>1, <2>2 DEF IInv, Reported, PassFresh, TriggerHeld
  <2> QED
    BY <2>3, <2>4, <2>5, <2>6, <2>7 DEF IInv
<1> QED
  BY <1>1, <1>2

(* The invariant holds in every state of the maintenance loop. *)
LEMMA Invariant == Spec => []IInv
<1>1. Init => IInv
  BY InitInv
<1>2. IInv /\ [Next /\ UNCHANGED settings]_<<vars, settings>> => IInv'
  BY StepInv DEF Step
<1> QED
  BY <1>1, <1>2, PTL DEF Spec

(* A rebuild that graph GC or the drain asked for is under way or to come, *)
(* and none outlives the loop, unless the drain tracked a rebuild over     *)
(* another (_spawn_rebuild_task, _on_rebuild_done, _cancel_rebuilds).      *)
THEOREM RebuildsAreTracked == Spec => []RebuildsTracked
<1>1. IInv => RebuildsTracked
  <2> SUFFICES ASSUME IInv PROVE RebuildsTracked
    OBVIOUS
  <2>1. ASSUME ~crossed, loop = "ended" PROVE \A t \in Tasks : task[t] \notin Live
    BY <2>1 DEF IInv, Structure, Stopped, Running, Live
  <2>2. RebuildsEndUncrossed
    BY <2>1 DEF RebuildsEndUncrossed, RebuildsEndWithLoop
  <2> QED
    BY <2>2 DEF RebuildsTracked, IInv
<1> QED
  BY <1>1, Invariant, PTL

(* Between passes, communities out of date are reported by                 *)
(* communities_invalidated, or GC will find the orphans, unless a build    *)
(* failed, was cut off, or was crossed (_run_collection_graph_gc).         *)
THEOREM FlagIsAccurate == Spec => []FlagAccurateUnlessLost
<1>1. IInv => FlagAccurateUnlessLost
  BY DEF IInv, Reported, FlagAccurateUnlessLost, FlagAccurate
<1> QED
  BY <1>1, Invariant, PTL

(* Where passes begin on triggers alone, the clear of the event at the end *)
(* of _trigger_loop's pass wipes out no trigger that no pass has served.   *)
THEOREM TriggersAreKept == Spec => []TriggerKept
<1>1. IInv => TriggerKept
  BY DEF IInv, TriggerHeld, TriggerKept
<1> QED
  BY <1>1, Invariant, PTL
=============================================================================
