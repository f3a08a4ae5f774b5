--------------------------- MODULE DebouncerProofs ---------------------------
(***************************************************************************)
(* Proofs about Debouncer for any set of tasks: the types, and that no     *)
(* request for enrichment is lost.                                         *)
(***************************************************************************)
EXTENDS Debouncer, TLAPS

IInv == TypeOK /\ NoRequestLost

(* The initial state of the debouncer satisfies the invariant. *)
LEMMA InitInv == Init => IInv
<1> SUFFICES ASSUME Init PROVE IInv
  OBVIOUS
<1>1. task \in [Tasks -> TaskStates]
  BY DEF Init, TaskStates
<1>2. entry \in Entries /\ entry.pending = FALSE
  BY DEF Init, NoEntry, Entries
<1>3. owed = FALSE /\ store = "open"
  BY DEF Init
<1> QED
  BY <1>1, <1>2, <1>3 DEF IInv, TypeOK, NoRequestLost

(* What schedule_synonym_enrichment guarantees, from the route or from a   *)
(* callback: the entry and the tasks keep their types, and a task is       *)
(* created or the mark is on the entry of a task that is still there.      *)
LEMMA ScheduleKeeps ==
  ASSUME NEW tasks \in [Tasks -> TaskStates], TypeOK, Schedule(tasks)
  PROVE  /\ task' \in [Tasks -> TaskStates]
         /\ entry' \in Entries
         /\ entry'.pending => entry'.task # NoTask
         /\ \/ \E t \in Tasks : task'[t] = "created"
            \/ entry'.pending /\ task'[entry'.task] # "none"
<1>1. CASE Tracked /\ tasks[entry.task] \in {"created", "running"}
  BY <1>1 DEF Schedule, Mark, TypeOK, Entries, Tracked
<1>2. CASE ~(Tracked /\ tasks[entry.task] \in {"created", "running"})
  <2>1. Spawn(tasks)
    BY <1>2 DEF Schedule
  <2>2. PICK new \in Tasks :
          /\ task' = [tasks EXCEPT ![new] = "created"]
          /\ entry' = [task |-> new, pending |-> FALSE]
    BY <2>1 DEF Spawn
  <2>3. task' \in [Tasks -> TaskStates] /\ task'[new] = "created"
    BY <2>2 DEF TaskStates
  <2>4. entry' \in Entries /\ ~entry'.pending
    BY <2>2 DEF Entries
  <2> QED
    BY <2>3, <2>4
<1> QED
  BY <1>1, <1>2

(* Every step of the debouncer keeps the invariant. *)
LEMMA StepInv == IInv /\ [Next]_vars => IInv'
<1> SUFFICES ASSUME IInv, [Next]_vars PROVE IInv'
  OBVIOUS
<1> USE DEF IInv
<1>1. CASE ScheduleSynonymEnrichment
  <2>1. task \in [Tasks -> TaskStates] /\ Schedule(task) /\ owed' = TRUE /\ store' = store
    BY <1>1 DEF ScheduleSynonymEnrichment, TypeOK
  <2> QED
    BY <2>1, ScheduleKeeps DEF TypeOK, NoRequestLost, Tracked
<1>2. CASE Disconnect
  BY <1>2 DEF Disconnect, TypeOK, NoRequestLost, Tracked
<1>3. ASSUME NEW t \in Tasks, StartRun(t) PROVE IInv'
  BY <1>3 DEF StartRun, TypeOK, NoRequestLost, Tracked, TaskStates
<1>4. ASSUME NEW t \in Tasks, EndRun(t) PROVE IInv'
  BY <1>4 DEF EndRun, TypeOK, NoRequestLost, Tracked, TaskStates, Entries
<1>5. ASSUME NEW t \in Tasks, OnEnrichmentDone(t) PROVE IInv'
  <2> DEFINE after == [task EXCEPT ![t] = "none"]
  <2>1. after \in [Tasks -> TaskStates]
    BY DEF TypeOK, TaskStates
  <2>2. store' = store /\ owed' = owed
    BY <1>5 DEF OnEnrichmentDone
  <2>3. CASE entry.pending
    <3>1. Schedule(after)
      BY <1>5, <2>3 DEF OnEnrichmentDone
    <3> HIDE DEF after
    <3> QED
      BY <2>1, <2>2, <3>1, ScheduleKeeps DEF TypeOK, NoRequestLost, Tracked
  <2>4. CASE ~entry.pending
    <3>1. task' = after /\ entry' = NoEntry /\ task[t] = "over"
      BY <1>5, <2>4 DEF OnEnrichmentDone
    <3>2. NoRequestLost'
      BY <2>2, <2>4, <3>1 DEF NoRequestLost, TypeOK
    <3>3. TypeOK'
      BY <2>1, <2>2, <3>1 DEF TypeOK, NoEntry, Entries, Tracked
    <3> QED
      BY <3>2, <3>3
  <2> QED
    BY <2>3, <2>4
<1>6. CASE UNCHANGED vars
  BY <1>6 DEF vars, TypeOK, NoRequestLost, Tracked
<1> QED
  BY <1>1, <1>2, <1>3, <1>4, <1>5, <1>6 DEF Next, TaskStep

(* The invariant holds in every reachable state. *)
THEOREM Invariance == Spec => []IInv
  BY InitInv, StepInv, PTL DEF Spec

(* The tasks and the entry of _synonym_state keep their types. *)
THEOREM TypeCorrect == Spec => []TypeOK
<1>1. IInv => TypeOK
  BY DEF IInv
<1> QED
  BY <1>1, Invariance, PTL

(* A request that schedule_synonym_enrichment accepted is never lost,      *)
(* however many tasks are in flight and whichever entry a callback finds.  *)
THEOREM RequestsAreKept == Spec => []NoRequestLost
<1>1. IInv => NoRequestLost
  BY DEF IInv
<1> QED
  BY <1>1, Invariance, PTL
=============================================================================
