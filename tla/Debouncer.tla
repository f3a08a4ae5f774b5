----------------------------- MODULE Debouncer -----------------------------
(***************************************************************************)
(* schedule_synonym_enrichment of jobs/maintenance_loop.py for one         *)
(* collection: every ingest that writes graph edges asks for a run of the  *)
(* enrichment; while one is in flight the request is a mark on its entry,  *)
(* and the done-callback of the run starts the next.                       *)
(* schedule_pagerank_recompute is the same code over _pagerank_state.      *)
(*                                                                         *)
(* A done-callback runs in a later iteration of the event loop than the    *)
(* end of its task: in between (the state "over") the entry still names    *)
(* the task, and an ingest may ask again.                                  *)
(***************************************************************************)
EXTENDS Integers, FiniteSets

CONSTANTS
    Tasks,      \* names of enrichment tasks, reused once their callback ran
    NoTask      \* no entry in _synonym_state

ASSUME TasksFit == NoTask \notin Tasks

VARIABLES
    task,       \* the state of each task
    entry,      \* the collection's entry of _synonym_state
    store,      \* the graph store: "open", or "closed" by the shutdown
    owed        \* history: a run was asked for, and none began since

vars == <<task, entry, store, owed>>

TaskStates == {"none", "created", "running", "over"}
Entries == [task : Tasks \cup {NoTask}, pending : BOOLEAN]
NoEntry == [task |-> NoTask, pending |-> FALSE]
Tracked == entry.task # NoTask

Init ==
    /\ task = [t \in Tasks |-> "none"]
    /\ entry = NoEntry /\ store = "open" /\ owed = FALSE

Mark == entry' = [entry EXCEPT !.pending = TRUE]

Spawn(tasks) ==
    \E new \in Tasks :
        /\ tasks[new] = "none"
        /\ task' = [tasks EXCEPT ![new] = "created"]
        /\ entry' = [task |-> new, pending |-> FALSE]

(* The request is dropped while a task is in flight. *)
ScheduleUnmarked(tasks) ==
    IF Tracked /\ tasks[entry.task] \in {"created", "running"}
      THEN entry' = entry /\ task' = tasks
      ELSE Spawn(tasks)

(* The body of schedule_synonym_enrichment, when the tasks' states are     *)
(* tasks: mark the task in flight, or create a task and replace the entry. *)
Schedule(tasks) ==
    IF Tracked /\ tasks[entry.task] \in {"created", "running"}
      THEN Mark /\ task' = tasks
      ELSE Spawn(tasks)

(* on_synonym_edges_written: the ingest of a document asks for a run. *)
ScheduleSynonymEnrichment ==
    /\ store = "open"
    /\ Schedule(task)
    /\ owed' = TRUE /\ UNCHANGED store

(* A task begins its run, and reads the graph as it is now. *)
StartRun(t) ==
    /\ task[t] = "created"
    /\ task' = [task EXCEPT ![t] = "running"]
    /\ owed' = FALSE /\ UNCHANGED <<entry, store>>

(* A run ends, with its edges written or with an error. *)
EndRun(t) ==
    /\ task[t] = "running"
    /\ task' = [task EXCEPT ![t] = "over"]
    /\ UNCHANGED <<entry, store, owed>>

(* The mark is cleared, and the next run is left to the next request. *)
OnEnrichmentDoneUnscheduled(t) ==
    /\ task[t] = "over"
    /\ task' = [task EXCEPT ![t] = "none"]
    /\ entry' = NoEntry
    /\ UNCHANGED <<store, owed>>

(* _on_enrichment_done of task t acts on the entry it finds, t's or not:   *)
(* it clears the mark and schedules again, or deletes the entry.           *)
OnEnrichmentDone(t) ==
    /\ task[t] = "over"
    /\ LET after == [task EXCEPT ![t] = "none"]
       IN  IF entry.pending THEN Schedule(after)
                            ELSE task' = after /\ entry' = NoEntry
    /\ UNCHANGED <<store, owed>>

(* The shutdown disconnects the graph store; enrichment tasks are not among *)
(* the tasks it cancels.                                                    *)
Disconnect ==
    /\ store = "open" /\ store' = "closed"
    /\ UNCHANGED <<task, entry, owed>>

TaskStep(t) == StartRun(t) \/ EndRun(t) \/ OnEnrichmentDone(t)

Next == ScheduleSynonymEnrichment \/ Disconnect \/ \E t \in Tasks : TaskStep(t)

Spec == Init /\ [][Next]_vars

(* The event loop runs every task and callback that is ready. *)
FairSpec == Spec /\ \A t \in Tasks : WF_vars(TaskStep(t))

----------------------------------------------------------------------------
(* Properties *)

(* The tasks and the entry keep their types, and a mark needs an entry. *)
TypeOK ==
    /\ task \in [Tasks -> TaskStates]
    /\ entry \in Entries
    /\ entry.pending => Tracked
    /\ store \in {"open", "closed"}
    /\ owed \in BOOLEAN

(* No request for enrichment is lost, although callbacks act on entries    *)
(* that are not their task's: until a run begins, one is about to begin,   *)
(* or the mark is on an entry whose task's callback is still to come.      *)
NoRequestLost ==
    owed => \/ \E t \in Tasks : task[t] = "created"
            \/ entry.pending /\ task[entry.task] # "none"

(* Every request leads to a run that begins after it. *)
RequestServed == owed ~> ~owed
=============================================================================
