------------------------ MODULE DescriptionLifecycle ------------------------
(***************************************************************************)
(* description_lifecycle.py with the guarded write it ends in              *)
(* (description_writer.py, description_write.py, SearchStore's             *)
(* write_description): requests to describe a collection, the process-wide *)
(* generation slot and its queue, the run of a request, and the operators' *)
(* own changes of the same rows.                                           *)
(*                                                                         *)
(* A run reads its row and the row's version while it holds the slot,      *)
(* generates, lets the slot go, and writes under the collection lock if    *)
(* the row is still what it read.  The row is merged first and its version *)
(* moved after that: in between (the lock's state "merged") a reader sees  *)
(* the new row with the old version.                                       *)
(*                                                                         *)
(* Texts, vectors and counts are left out: last_described tells two texts  *)
(* apart, and the 20% rule of an ingest may say yes or no.                 *)
(***************************************************************************)
EXTENDS Integers, FiniteSets, FiniteSetsExt

CONSTANTS
    Collections,
    NoOne,              \* nobody holds the slot
    QueueLimits,        \* values of max_queued (MAX_QUEUED_GENERATIONS)
    RowReadAttempts,    \* ROW_READ_ATTEMPTS
    Asked,              \* the kinds of requests that are made
    FirstRows,          \* the rows of the collections when the server starts
    MaxAsking,          \* bound: requests that wait for their first row read
    MaxChanges          \* bound: landed changes of the rows' descriptions

ASSUME NoOneFits == NoOne \notin Collections
ASSUME LimitsFit == QueueLimits \subseteq Nat /\ RowReadAttempts \in Nat \ {0}
ASSUME BoundsFit == MaxAsking \in Nat /\ MaxChanges \in Nat

VARIABLES
    row,        \* the description fields of each meta row
    version,    \* SearchStore._description_versions
    lock,       \* who holds each collection's lock, and how far it is
    job,        \* the generation of each collection that is in flight
    slot,       \* _GenerationSlot._holder
    waiting,    \* _GenerationSlot._waiting: the places that are older than each place
    maxQueued,  \* _GenerationSlot._max_queued, set at the start
    asking,     \* requests whose first row read is under way
    failures,   \* _unstored_failures
    phase,      \* the shutdown: up, closed, draining, disconnected
    changes,    \* history: merges and deletes of each row's description
    failed      \* history: the row that the last failed run described

vars == <<row, version, lock, job, slot, waiting, maxQueued, asking, failures,
          phase, changes, failed>>

Kinds == {"describe", "ingest", "backfill"}
Sources == {"none", "generated", "manual"}
Stored == {"none", "ok", "failed"}

NoRow == [source |-> "missing", status |-> "none", described |-> 0]
Bare == [source |-> "none", status |-> "none", described |-> 0]
Rows == {NoRow} \cup [source : Sources, status : Stored, described : Nat]

ASSUME InputsFit == Asked \subseteq Kinds /\ FirstRows \subseteq Rows

Operations == {"set", "clear", "import", "delete"}
LockStates == {"free", "job", "merged"} \cup Operations

Drafting == {"spawned", "queued", "reading", "seen", "generating"}
Writing == {"writing_text", "writing_failed"}
Merged == {"merged_text", "merged_failed"}
Pcs == {"none", "landing", "recording"} \cup Drafting \cup Writing \cup Merged

(* version and expected are what the run read; base is the number of       *)
(* changes of the row it read, and excused says that the row and the       *)
(* version may belong to different writes, for a reason that _read_row     *)
(* gives.                                                                  *)
Idle == [pc |-> "none", kind |-> "describe", reads |-> 0, version |-> 0,
         expected |-> NoRow, base |-> 0, excused |-> FALSE]

NoFailure == [base |-> -1, excused |-> FALSE]

InFlight(c) == job[c].pc # "none"

NoPlaces == [c \in {} |-> {}]

Init ==
    /\ row \in [Collections -> FirstRows]
    /\ version = [c \in Collections |-> 0]
    /\ lock = [c \in Collections |-> "free"]
    /\ job = [c \in Collections |-> Idle]
    /\ slot = NoOne /\ waiting = NoPlaces /\ maxQueued \in QueueLimits /\ asking = {}
    /\ failures = [c \in Collections |-> -1]
    /\ phase = "up"
    /\ changes = [c \in Collections |-> 0]
    /\ failed = [c \in Collections |-> NoFailure]

MayChange == MapThenSumSet(LAMBDA c : changes[c], Collections) < MaxChanges

----------------------------------------------------------------------------
(* The slot and its queue *)

Rank == [describe |-> 0, ingest |-> 1, backfill |-> 2]

Places == DOMAIN waiting

(* The last arrival of a class goes first. *)
AheadLifo(x, y) ==
    \/ Rank[job[x].kind] < Rank[job[y].kind]
    \/ Rank[job[x].kind] = Rank[job[y].kind] /\ y \in waiting[x]

(* x goes before y: a smaller rank, or the same and an earlier arrival. *)
Ahead(x, y) ==
    \/ Rank[job[x].kind] < Rank[job[y].kind]
    \/ Rank[job[x].kind] = Rank[job[y].kind] /\ x \in waiting[y]

IsFull == slot # NoOne /\ Cardinality(Places) >= maxQueued

(* A place whose future can be granted: drain cancels the futures that the *)
(* tasks await, and a task that has not begun awaits none.                 *)
Grantable(c) == phase # "draining" \/ job[c].pc = "spawned"

Best(c) == Grantable(c) /\ \A d \in Places : Ahead(d, c) => ~Grantable(d)

(* The places that stay, in the order of their arrival. *)
Keep(places) == waiting' = [d \in places |-> waiting[d] \cap places]

PassOn ==
    IF \E c \in Places : Grantable(c)
      THEN \E c \in Places :
             Best(c) /\ slot' = c /\ Keep({d \in Places : d # c /\ ~Ahead(d, c)})
      ELSE slot' = NoOne /\ Keep({})

(* _GenerationSlot.release: pass the slot on, or leave the queue. *)
Release(c) ==
    IF slot = c THEN PassOn
                ELSE slot' = slot /\ Keep(Places \ {c})

----------------------------------------------------------------------------
(* Requests *)

(* _refusal, when the ingest rule says due. *)
Refused(kind, meta, due) ==
    \/ meta.source = "manual"
    \/ kind = "ingest" /\ ~due
    \/ kind = "backfill" /\ (meta.source # "none" \/ meta.status = "failed")

(* request_generation up to its row read: when the read fails, nothing     *)
(* comes of the request.  Its kind matters only after that.                *)
RequestGeneration(c) ==
    /\ phase = "up" /\ ~InFlight(c)
    /\ Cardinality(asking) < MaxAsking
    /\ asking' = asking \cup {[collection |-> c, seen |-> [row[c] EXCEPT !.described = 0]]}
    /\ UNCHANGED <<row, version, lock, job, slot, waiting, failures, phase, changes, failed>>

(* _admit, after is_full said no: reserve a place and create the task. *)
Admit(c, kind) ==
    /\ job' = [job EXCEPT ![c] = [Idle EXCEPT !.pc = "spawned", !.kind = kind]]
    /\ IF slot = NoOne THEN slot' = c /\ waiting' = waiting
                       ELSE /\ slot' = slot
                            /\ waiting' = [d \in Places \cup {c} |->
                                             IF d = c THEN Places ELSE waiting[d]]

(* The service is not checked again after the row read. *)
AnswerUnchecked(a) ==
    /\ asking' = asking \ {a}
    /\ \E kind \in Asked, due \in BOOLEAN :
         IF InFlight(a.collection) \/ a.seen = NoRow \/ Refused(kind, a.seen, due) \/ IsFull
           THEN UNCHANGED <<job, slot, waiting>>
           ELSE Admit(a.collection, kind)
    /\ UNCHANGED <<row, version, lock, failures, phase, changes, failed>>

(* The rest of request_generation: the service may have been closed and a  *)
(* twin accepted while the row was read.                                   *)
AnswerRequest(a) ==
    /\ asking' = asking \ {a}
    /\ \E kind \in Asked, due \in BOOLEAN :
         IF \/ phase # "up" \/ InFlight(a.collection)
            \/ a.seen = NoRow \/ Refused(kind, a.seen, due) \/ IsFull
           THEN UNCHANGED <<job, slot, waiting>>
           ELSE Admit(a.collection, kind)
    /\ UNCHANGED <<row, version, lock, failures, phase, changes, failed>>

----------------------------------------------------------------------------
(* The run of a request *)

At(c, pc) == phase # "draining" /\ job[c].pc = pc
Goto(c, pc) == job' = [job EXCEPT ![c].pc = pc]

(* _finish: no longer pending, no longer in the slot or the queue. *)
Finish(c) ==
    /\ job' = [job EXCEPT ![c] = Idle]
    /\ Release(c)

(* _remember_unstored_failure: entries that are out of date are dropped. *)
Remember(c) ==
    failures' = [d \in Collections |->
                    IF d = c THEN job[c].version
                    ELSE IF failures[d] = version[d] THEN failures[d] ELSE -1]

(* The run ends FAILED; the history keeps which row it was about. *)
FinishFailed(c) ==
    /\ Finish(c)
    /\ failed' = [failed EXCEPT ![c] = [base |-> job[c].base, excused |-> job[c].excused]]

(* The task's first step, up to the wait for its place. *)
Begin(c) ==
    /\ At(c, "spawned") /\ Goto(c, "queued")
    /\ UNCHANGED <<row, version, lock, slot, waiting, asking, failures, phase, changes, failed>>

(* _draft holds the slot: _read_row notes the version before it reads. *)
StartRead(c) ==
    /\ At(c, "queued") /\ slot = c
    /\ job' = [job EXCEPT ![c].pc = "reading", ![c].reads = 1, ![c].version = version[c],
                          ![c].base = changes[c],
                          ![c].excused = changes[c] # version[c]]
    /\ UNCHANGED <<row, version, lock, slot, waiting, asking, failures, phase, changes, failed>>

(* get_collection_meta takes its snapshot. *)
SeeRow(c) ==
    /\ At(c, "reading")
    /\ job' = [job EXCEPT ![c].pc = "seen", ![c].expected = row[c], ![c].base = changes[c],
                          ![c].excused = changes[c] # version[c]]
    /\ UNCHANGED <<row, version, lock, slot, waiting, asking, failures, phase, changes, failed>>

(* The read raises: the run ends FAILED and cannot record it. *)
ReadFails(c) ==
    /\ At(c, "reading")
    /\ Remember(c) /\ FinishFailed(c)
    /\ UNCHANGED <<row, version, lock, asking, phase, changes>>

(* The version moved during the read, and there is an attempt left. *)
ReadAgain(c) ==
    /\ At(c, "seen")
    /\ version[c] # job[c].version /\ job[c].reads < RowReadAttempts
    /\ job' = [job EXCEPT ![c].pc = "reading", ![c].reads = @ + 1, ![c].version = version[c],
                          ![c].base = changes[c],
                          ![c].excused = changes[c] # version[c]]
    /\ UNCHANGED <<row, version, lock, slot, waiting, asking, failures, phase, changes, failed>>

(* The version is read after the row. *)
TakeRowThenVersion(c) ==
    /\ At(c, "seen")
    /\ \E due \in BOOLEAN :
         IF job[c].expected = NoRow \/ Refused(job[c].kind, job[c].expected, due)
           THEN Finish(c)
           ELSE /\ job' = [job EXCEPT ![c].pc = "generating", ![c].reads = 0,
                                      ![c].version = version[c]]
                /\ UNCHANGED <<slot, waiting>>
    /\ UNCHANGED <<row, version, lock, asking, failures, phase, changes, failed>>

(* The row is taken as it is: generate, or settle without a generation. *)
TakeRow(c) ==
    /\ At(c, "seen")
    /\ version[c] = job[c].version \/ job[c].reads = RowReadAttempts
    /\ \E due \in BOOLEAN :
         IF job[c].expected = NoRow \/ Refused(job[c].kind, job[c].expected, due)
           THEN Finish(c)
           ELSE /\ job' = [job EXCEPT ![c].pc = "generating", ![c].reads = 0,
                                      ![c].excused = @ \/ version[c] # job[c].version]
                /\ UNCHANGED <<slot, waiting>>
    /\ UNCHANGED <<row, version, lock, asking, failures, phase, changes, failed>>

(* The generator answers with a text or a failure, and the slot is free. *)
EndGenerate(c) ==
    /\ At(c, "generating")
    /\ \E pc \in {"landing", "recording"} : Goto(c, pc)
    /\ Release(c)
    /\ UNCHANGED <<row, version, lock, asking, failures, phase, changes, failed>>

(* The guard compares the statuses, and leaves the manual source to the    *)
(* check before the generation.                                            *)
GuardByStatus(c) == row[c].status # job[c].expected.status

(* ExpectedState.refusal. *)
GuardRefuses(c) == row[c].source = "manual" \/ row[c] # job[c].expected

(* write_description gets the lock and reads the row: a missing row or a   *)
(* refusal settles the run, with the lock free again.                      *)
CheckGuard(c) ==
    /\ lock[c] = "free"
    /\ \/ At(c, "landing") \/ At(c, "recording")
    /\ IF row[c] = NoRow \/ GuardRefuses(c)
         THEN Finish(c) /\ lock' = lock
         ELSE /\ Goto(c, IF job[c].pc = "landing" THEN "writing_text" ELSE "writing_failed")
              /\ lock' = [lock EXCEPT ![c] = "job"]
              /\ UNCHANGED <<slot, waiting>>
    /\ UNCHANGED <<row, version, asking, failures, phase, changes, failed>>

(* apply finds the row gone before it embeds. *)
ApplyMissing(c) ==
    /\ At(c, "landing") /\ row[c] = NoRow
    /\ Finish(c)
    /\ UNCHANGED <<row, version, lock, asking, failures, phase, changes, failed>>

(* The lock stays taken, or the store raises before the merge: a text that *)
(* cannot be saved becomes a failure to record.                            *)
SaveFails(c) ==
    /\ At(c, "landing") \/ At(c, "writing_text")
    /\ Goto(c, "recording")
    /\ lock' = [lock EXCEPT ![c] = IF @ = "job" THEN "free" ELSE @]
    /\ UNCHANGED <<row, version, slot, waiting, asking, failures, phase, changes, failed>>

(* The same for the failure: it is remembered. *)
RecordFails(c) ==
    /\ At(c, "recording") \/ At(c, "writing_failed")
    /\ Remember(c) /\ FinishFailed(c)
    /\ lock' = [lock EXCEPT ![c] = IF @ = "job" THEN "free" ELSE @]
    /\ UNCHANGED <<row, version, asking, phase, changes>>

(* The merge lands: a text with its source, status and time, or a status. *)
Merge(c) ==
    /\ At(c, "writing_text") \/ At(c, "writing_failed")
    /\ MayChange
    /\ IF job[c].pc = "writing_text"
         THEN /\ row' = [row EXCEPT ![c] = [source |-> "generated", status |-> "ok",
                                            described |-> changes[c] + 1]]
              /\ Goto(c, "merged_text")
         ELSE /\ row' = [row EXCEPT ![c].status = "failed"]
              /\ Goto(c, "merged_failed")
    /\ lock' = [lock EXCEPT ![c] = "merged"]
    /\ changes' = [changes EXCEPT ![c] = @ + 1]
    /\ UNCHANGED <<version, slot, waiting, asking, failures, phase, failed>>

Recorded(c) == [base |-> changes[c], excused |-> FALSE]

(* on_merged moves the version, the lock is released and the run settles.  *)
Settle(c) ==
    /\ At(c, "merged_text") \/ At(c, "merged_failed")
    /\ version' = [version EXCEPT ![c] = @ + 1]
    /\ lock' = [lock EXCEPT ![c] = "free"]
    /\ Finish(c)
    /\ failed' = [failed EXCEPT ![c] = IF job[c].pc = "merged_failed" THEN Recorded(c) ELSE @]
    /\ UNCHANGED <<row, asking, failures, phase, changes>>

(* The removal of a legacy twin raises after the merge and the move of the *)
(* version: a text goes on to record a failure, a failure is remembered    *)
(* too.                                                                    *)
CleanupFails(c) ==
    /\ At(c, "merged_text") \/ At(c, "merged_failed")
    /\ version' = [version EXCEPT ![c] = @ + 1]
    /\ lock' = [lock EXCEPT ![c] = "free"]
    /\ IF job[c].pc = "merged_text"
         THEN Goto(c, "recording") /\ UNCHANGED <<slot, waiting, failures, failed>>
         ELSE /\ Remember(c) /\ Finish(c)
              /\ failed' = [failed EXCEPT ![c] = Recorded(c)]
    /\ UNCHANGED <<row, asking, phase, changes>>

JobStep(c) ==
    /\ \/ Begin(c) \/ StartRead(c) \/ SeeRow(c) \/ ReadFails(c) \/ ReadAgain(c) \/ TakeRow(c)
       \/ EndGenerate(c) \/ CheckGuard(c) \/ ApplyMissing(c) \/ SaveFails(c) \/ RecordFails(c)
       \/ Merge(c) \/ Settle(c) \/ CleanupFails(c)
    /\ UNCHANGED maxQueued

----------------------------------------------------------------------------
(* The operators' changes *)

(* A set, a clear, an import or a DELETE gets the collection lock. *)
TakeLock(c, operation) ==
    /\ phase # "disconnected" /\ lock[c] = "free"
    /\ row[c] # NoRow /\ MayChange
    /\ lock' = [lock EXCEPT ![c] = operation]
    /\ UNCHANGED <<row, version, job, slot, waiting, asking, failures, phase, changes, failed>>

(* Its row after the change; an archive says which source its text has. *)
Outcomes(c) ==
    LET Text(source) == [source |-> source, status |-> "ok", described |-> changes[c] + 1]
    IN  CASE lock[c] = "set" -> {Text("manual")}
          [] lock[c] = "clear" -> {Bare}
          [] lock[c] = "import" -> {Text("manual"), Text("generated")}
          [] lock[c] = "delete" -> {NoRow}

Change(c) ==
    /\ lock[c] \in Operations
    /\ phase # "disconnected" /\ MayChange
    /\ \E new \in Outcomes(c) : row' = [row EXCEPT ![c] = new]
    /\ lock' = [lock EXCEPT ![c] = "merged"]
    /\ changes' = [changes EXCEPT ![c] = @ + 1]
    /\ UNCHANGED <<version, job, slot, waiting, asking, failures, phase, failed>>

(* The version moves and the lock is released. *)
EndChange(c) ==
    /\ lock[c] = "merged" /\ job[c].pc \notin Merged
    /\ version' = [version EXCEPT ![c] = @ + 1]
    /\ lock' = [lock EXCEPT ![c] = "free"]
    /\ UNCHANGED <<row, job, slot, waiting, asking, failures, phase, changes, failed>>

(* The operation fails before its merge. *)
GiveUp(c) ==
    /\ lock[c] \in Operations
    /\ lock' = [lock EXCEPT ![c] = "free"]
    /\ UNCHANGED <<row, version, job, slot, waiting, asking, failures, phase, changes, failed>>

(* An ingest creates the row of a collection that was deleted. *)
CreateRow(c) ==
    /\ phase # "disconnected" /\ lock[c] = "free" /\ row[c] = NoRow
    /\ row' = [row EXCEPT ![c] = Bare]
    /\ UNCHANGED <<version, lock, job, slot, waiting, asking, failures, phase, changes, failed>>

----------------------------------------------------------------------------
(* The shutdown *)

Close ==
    /\ phase = "up" /\ phase' = "closed"
    /\ UNCHANGED <<row, version, lock, job, slot, waiting, asking, failures, changes, failed>>

(* drain cancels every task. *)
Drain ==
    /\ phase = "closed" /\ phase' = "draining"
    /\ UNCHANGED <<row, version, lock, job, slot, waiting, asking, failures, changes, failed>>

(* A cancelled run settles as shutting down, wherever it was: a merge that *)
(* landed may stay without its version.                                    *)
EndCancelled(c) ==
    /\ phase = "draining" /\ InFlight(c)
    /\ Finish(c)
    /\ lock' = [lock EXCEPT ![c] = IF job[c].pc \in Writing \cup Merged THEN "free" ELSE @]
    /\ \E moved \in IF job[c].pc \in Merged THEN {0, 1} ELSE {0} :
         version' = [version EXCEPT ![c] = @ + moved]
    /\ UNCHANGED <<row, maxQueued, asking, failures, phase, changes, failed>>

(* drain returned: the stores are disconnected. *)
Disconnect ==
    /\ phase = "draining" /\ \A c \in Collections : ~InFlight(c)
    /\ phase' = "disconnected"
    /\ UNCHANGED <<row, version, lock, job, slot, waiting, asking, failures, changes, failed>>

OperatorStep(c) == Change(c) \/ EndChange(c) \/ GiveUp(c)

Next ==
    /\ \/ \E c \in Collections :
            \/ RequestGeneration(c)
            \/ \E operation \in Operations : TakeLock(c, operation)
            \/ JobStep(c) \/ OperatorStep(c) \/ CreateRow(c) \/ EndCancelled(c)
       \/ \E a \in asking : AnswerRequest(a)
       \/ Close \/ Drain \/ Disconnect
    /\ UNCHANGED maxQueued

Spec == Init /\ [][Next]_vars

(* The event loop runs every ready task; a model call, a lock wait and a   *)
(* store call end, by their time limits at the latest.                     *)
Fairness == \A c \in Collections : WF_vars(JobStep(c)) /\ WF_vars(EndCancelled(c))

FairSpec == Spec /\ Fairness

----------------------------------------------------------------------------
(* What a reader sees: visible_description_status over overlay_status. *)
Visible(c) ==
    IF row[c].source = "manual" THEN row[c].status
    ELSE IF InFlight(c) THEN "pending"
    ELSE IF failures[c] # -1 /\ failures[c] = version[c] THEN "failed"
    ELSE row[c].status

----------------------------------------------------------------------------
(* Properties *)

(* The variables keep their types, and the version never runs ahead of the *)
(* changes that it counts.                                                 *)
TypeOK ==
    /\ row \in [Collections -> Rows]
    /\ version \in [Collections -> Nat] /\ changes \in [Collections -> Nat]
    /\ \A c \in Collections : version[c] <= changes[c]
    /\ lock \in [Collections -> LockStates]
    /\ job \in [Collections -> [pc : Pcs, kind : Kinds, reads : 0..RowReadAttempts, version : Nat,
                                expected : Rows, base : Nat, excused : BOOLEAN]]
    /\ slot \in Collections \cup {NoOne}
    /\ Places \subseteq Collections /\ waiting \in [Places -> SUBSET Places]
    /\ maxQueued \in QueueLimits
    /\ asking \subseteq [collection : Collections, seen : Rows]
    /\ failures \in [Collections -> Nat \cup {-1}]
    /\ failed \in [Collections -> [base : Nat \cup {-1}, excused : BOOLEAN]]
    /\ phase \in {"up", "closed", "draining", "disconnected"}

(* The slot belongs to one run, from its admission to the end of its model *)
(* call; every other run up to that point has one place in the queue,      *)
(* which is within its bound and empty while the slot is free, and of two  *)
(* places one is the older.                                                *)
SlotAndQueue ==
    /\ Cardinality(Places) <= maxQueued
    /\ slot = NoOne => Places = {}
    /\ slot # NoOne => job[slot].pc \in Drafting
    /\ \A c, d \in Places : c \in waiting[d] <=> c # d /\ d \notin waiting[c]
    /\ \A c \in Places : c # slot /\ job[c].pc \in {"spawned", "queued"}
    /\ \A c \in Collections :
         /\ job[c].pc \in {"reading", "seen", "generating"} => c = slot
         /\ job[c].pc \in {"spawned", "queued"} /\ phase # "draining" =>
                c = slot \/ c \in Places

(* A manual description is changed by an operator alone: no run writes a   *)
(* text or a status over it.                                               *)
ManualWins ==
    [][\A c \in Collections :
          row[c].source = "manual" /\ row'[c] # row[c] => lock[c] \in Operations]_vars

(* A remembered failure that readers still see is about the row as it is:  *)
(* its description was not changed since the run read it.  The moment      *)
(* between a merge and the move of the version is left out, as             *)
(* overlay_status says.                                                    *)
NoStaleFailure ==
    \A c \in Collections :
        failures[c] = version[c] /\ version[c] = changes[c] => failed[c].base = changes[c]

(* A run that failed reads as failed until its row changes, whether or not *)
(* the store could record it, with the two exceptions that _read_row       *)
(* names: a row read between a merge and the move of its version, and one  *)
(* that changed during every read.  (A manual row shows its own status.)   *)
FailureShown ==
    \A c \in Collections :
        /\ failed[c] = [base |-> changes[c], excused |-> FALSE] /\ version[c] = changes[c]
        /\ ~InFlight(c) /\ row[c].source \notin {"missing", "manual"}
        => Visible(c) = "failed"

(* A failed run is shown as long as its row is the one it described, and   *)
(* only as long.                                                           *)
FailureTrue == TypeOK /\ NoStaleFailure /\ FailureShown

(* After the stores are disconnected no run is in flight or half written:  *)
(* requests that were being answered at the shutdown start nothing, and    *)
(* the runs that drain cancelled let their locks go.                       *)
NothingAfterDisconnect ==
    phase = "disconnected" =>
        \A c \in Collections : ~InFlight(c) /\ lock[c] # "job"

(* The generation slot and its queue are never left wrong, neither while   *)
(* requests come nor once the stores are disconnected.                     *)
QueueSound == SlotAndQueue /\ NothingAfterDisconnect

(* A describe request that was accepted settles. *)
DescribeSettles ==
    \A c \in Collections :
        (InFlight(c) /\ job[c].kind = "describe") ~> ~InFlight(c)
=============================================================================
