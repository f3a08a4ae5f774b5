------------------------- MODULE JobLifecycleProofs -------------------------
(***************************************************************************)
(* Proofs about JobLifecycle for every set of jobs and collections, every  *)
(* scheduler limit and every number of failed writes.                      *)
(***************************************************************************)
EXTENDS JobLifecycle, TLAPS

(* A row after the age eviction.                                           *)
Ev(row) == IF Evictable(row) THEN NoRow ELSE row

Rows == Row \cup {NoRow}

(***************************************************************************)
(* What one step does to the row of a single job i.  A failed write is     *)
(* visible as faults' # faults.                                            *)
(***************************************************************************)

(* The step's own subject is another job: i's row is at most evicted, and  *)
(* the file holds what it held or what memory now holds.                   *)
Kept(i) ==
    /\ memory'[i] = Ev(memory[i])
    /\ file'[i] \in {file[i], Ev(memory[i])}
    /\ faults' = faults => file'[i] = memory'[i]

(* i's row becomes row; the file may hold the old row, the new one or a    *)
(* row in between.                                                         *)
Becomes(i, row, between) ==
    /\ memory'[i] = row
    /\ file'[i] \in {file[i], row} \cup between
    /\ faults' = faults => file'[i] = row

(* A persist that would have made i's row row was undone.                  *)
Undone(i, row) ==
    /\ memory'[i] = Ev(memory[i])
    /\ file'[i] \in {file[i], Ev(row), Ev(memory[i])}
    /\ faults' # faults

-----------------------------------------------------------------------------
LEMMA EvRow == \A row \in Rows : Ev(row) \in Rows
  BY DEF Ev, Rows

LEMMA NoRowFacts == NoRow.status = "ABSENT" /\ NoRow.kind = "none"
  BY DEF NoRow

LEMMA StampRow ==
  \A row \in Row, status \in Statuses :
      /\ Stamp(row, status) \in Row
      /\ Ev(Stamp(row, status)) = Stamp(row, status)
      /\ Stamp(row, status).status = status
      /\ Stamp(row, status).kind = row.kind
      /\ Stamp(row, status).coll = row.coll
      /\ Stamp(row, status).before_start = row.before_start
      /\ Stamp(row, status).old = FALSE
  BY DEF Stamp, Row, Ev, Evictable

LEMMA CostFacts ==
  \A o, r \in Outcomes :
      /\ Cost(o, r) \in Nat
      /\ o \in Failures => Cost(o, r) > 0
      /\ Cost(o, "ok") \in Nat
      /\ Cost(o, "ok") = 0 <=> o = "ok"
  BY DEF Cost, Outcomes, Failures

-----------------------------------------------------------------------------
(***************************************************************************)
(* The inductive invariant.                                                *)
(***************************************************************************)

(* Work in progress is recorded, and both copies of the row agree on what  *)
(* kind of work it is.                                                     *)
WorkRecorded(i) ==
    task[i] \in AtWork =>
        /\ Interrupted(memory[i])
        /\ Interrupted(file[i])
        /\ file[i].kind = memory[i].kind

(* Only the kinds that recovery fails as not started are ever PENDING.     *)
PendingKinds(i) ==
    /\ memory[i].status = "PENDING" => memory[i].kind \in NotStartedOnLoad
    /\ file[i].status = "PENDING" => file[i].kind \in NotStartedOnLoad

Unclaimed == {"PENDING", "CANCELLING"}

(* Which rows the not yet working tasks own.  A waiting retry's row can be *)
(* cancelled under it, and then be evicted.                                *)
OwnerFits(i) ==
    /\ task[i] \in {"creating", "ending"} =>
          memory[i].kind = "reindex" /\ memory[i].status \in Unclaimed
    /\ task[i] = "waiting" => memory[i].kind \in {"ingest", "none"}
    /\ task[i] = "spawned" =>
          \/ memory[i].kind \in {"ingest", "none"}
          \/ memory[i].kind = "reindex" /\ memory[i].status \in Unclaimed
    /\ task[i] = "dispatched" => memory[i].kind \in Bulk

Owned(i) ==
    phase = "up" =>
        /\ memory[i].status \in {"PENDING", "RUNNING", "CANCELLING"} =>
              task[i] # "none"
        /\ Interrupted(memory[i]) => task[i] \in AtWork

(* An ingest or sync row says it is at work only while it is, also during  *)
(* the shutdown.                                                           *)
FamilyOwned(i) ==
    /\ phase # "down"
    /\ memory[i].kind \in IngestFamily
    /\ Interrupted(memory[i])
    => task[i] \in AtWork

Agreed(i) == phase # "down" /\ faults = 0 => file[i] = memory[i]

Down(i) == phase = "down" => memory[i] = NoRow /\ task[i] = "none"

JobInv(i) ==
    /\ WorkRecorded(i)
    /\ PendingKinds(i)
    /\ OwnerFits(i)
    /\ Owned(i)
    /\ FamilyOwned(i)
    /\ Agreed(i)
    /\ Down(i)

(* What the file and the history know about the death of the last process. *)
DeathKnown ==
    /\ phase = "up" /\ died # {} /\ ~aborted => crashed
    /\ phase = "down" /\ died # {} /\ ~aborted => CrashedIngestOnLoad(file)
    /\ phase = "up" /\ faults = 0 /\ crashed => died # {}
    /\ phase = "down" /\ faults = 0 /\ CrashedIngestOnLoad(file) => died # {}

IInv == TypeOK /\ (\A i \in Jobs : JobInv(i)) /\ DeathKnown

-----------------------------------------------------------------------------
(***************************************************************************)
(* What the store operators do, row by row.                                *)
(***************************************************************************)
Stores == [mem : Tables, file : Tables]

LEMMA EvFacts ==
  \A row \in Rows :
      /\ Ev(row) \in Rows
      /\ Ev(Ev(row)) = Ev(row)
      /\ row.status \notin Terminal => Ev(row) = row
  BY DEF Ev, Rows, Evictable, NoRow, Terminal

LEMMA SaveFacts ==
  ASSUME NEW s \in Stores, NEW t \in Tables, NEW o \in Outcomes
  PROVE  /\ Save(s, t, o) \in Stores
         /\ \A i \in Jobs :
               /\ Save(s, t, o).mem[i] = Ev(t[i])
               /\ Save(s, t, o).file[i] \in {s.file[i], Ev(t[i])}
               /\ o = "ok" => Save(s, t, o).file[i] = Ev(t[i])
  <1>1. /\ Evict(t) \in Tables
        /\ \A i \in Jobs : Evict(t)[i] = Ev(t[i])
    BY EvRow DEF Evict, Ev, Tables, Rows
  <1>2. /\ Save(s, t, o).mem = Evict(t)
        /\ Save(s, t, o).file = IF o = "unwritten" THEN s.file ELSE Evict(t)
        /\ Save(s, t, o) = [mem |-> Save(s, t, o).mem,
                            file |-> Save(s, t, o).file]
    BY DEF Save
  <1>3. s.file \in Tables
    BY DEF Stores
  <1>4. Save(s, t, o) \in Stores
    BY <1>1, <1>2, <1>3 DEF Stores
  <1> QED BY <1>1, <1>2, <1>4

LEMMA UpdateFacts ==
  ASSUME NEW s \in Stores, NEW j \in Jobs, s.mem[j] \in Row,
         NEW status \in Statuses, NEW o \in Outcomes
  PROVE  /\ Update(s, j, status, o) \in Stores
         /\ Update(s, j, status, o).mem[j] = Stamp(s.mem[j], status)
         /\ Update(s, j, status, o).file[j] \in
               {s.file[j], Stamp(s.mem[j], status)}
         /\ o = "ok" => Update(s, j, status, o).file[j]
                          = Stamp(s.mem[j], status)
         /\ \A i \in Jobs \ {j} :
               /\ Update(s, j, status, o).mem[i] = Ev(s.mem[i])
               /\ Update(s, j, status, o).file[i] \in
                     {s.file[i], Ev(s.mem[i])}
               /\ o = "ok" => Update(s, j, status, o).file[i] = Ev(s.mem[i])
  <1> DEFINE t == [s.mem EXCEPT ![j] = Stamp(@, status)]
  <1>1. /\ t \in Tables
        /\ t[j] = Stamp(s.mem[j], status)
        /\ \A i \in Jobs \ {j} : t[i] = s.mem[i]
    BY StampRow DEF Stores, Tables
  <1>2. Ev(t[j]) = Stamp(s.mem[j], status)
    BY <1>1, StampRow
  <1>3. Update(s, j, status, o) = Save(s, t, o)
    BY DEF Update
  <1> HIDE DEF t
  <1> QED BY <1>1, <1>2, <1>3, SaveFacts

LEMMA StoreType == ASSUME TypeOK PROVE Store \in Stores
  BY DEF Store, Stores, TypeOK

(* One or two writes, the last of which may fail, that end in the store s. *)
LEMMA LeavesFacts ==
  ASSUME TypeOK, NEW s \in Stores, NEW cost \in Nat, Leaves(s, cost)
  PROVE  /\ memory' = s.mem /\ file' = s.file
         /\ memory' \in Tables /\ file' \in Tables
         /\ faults' \in 0 .. MaxFaults
         /\ faults' = faults <=> cost = 0
         /\ faults' >= faults
  BY BoundsAssumption DEF Leaves, Stores, TypeOK

(* What every store step guarantees besides its effect on the rows.        *)
StoreTyped ==
    /\ memory' \in Tables
    /\ file' \in Tables
    /\ faults' \in 0 .. MaxFaults
    /\ faults' >= faults

(***************************************************************************)
(* The effect of each form of write that the actions use.                  *)
(***************************************************************************)
LEMMA PersistEffect ==
  ASSUME TypeOK, NEW j \in Jobs, NEW status \in Statuses,
         memory[j] \in Row, Persist(j, status)
  PROVE  /\ StoreTyped
         /\ \A i \in Jobs \ {j} : Kept(i)
         /\ Becomes(j, Stamp(memory[j], status), {})
  <1>1. PICK o \in Outcomes :
           Leaves(Update(Store, j, status, o), Cost(o, "ok"))
    BY DEF Persist
  <1>2. Store \in Stores /\ Store.mem = memory /\ Store.file = file
    BY StoreType DEF Store
  <1> DEFINE s == Update(Store, j, status, o)
  <1>3. /\ s \in Stores
        /\ s.mem[j] = Stamp(memory[j], status)
        /\ s.file[j] \in {file[j], Stamp(memory[j], status)}
        /\ o = "ok" => s.file[j] = Stamp(memory[j], status)
        /\ \A i \in Jobs \ {j} :
              /\ s.mem[i] = Ev(memory[i])
              /\ s.file[i] \in {file[i], Ev(memory[i])}
              /\ o = "ok" => s.file[i] = Ev(memory[i])
    BY <1>2, UpdateFacts
  <1> HIDE DEF s
  <1>4. /\ StoreTyped
        /\ memory' = s.mem /\ file' = s.file
        /\ faults' = faults => o = "ok"
    BY <1>1, <1>3, CostFacts, LeavesFacts DEF StoreTyped, s
  <1> QED BY <1>3, <1>4 DEF Kept, Becomes

LEMMA CommitEffect ==
  ASSUME TypeOK, NEW t \in Tables, Commit(t)
  PROVE  /\ StoreTyped
         /\ faults' = faults
         /\ \A i \in Jobs : memory'[i] = Ev(t[i]) /\ file'[i] = Ev(t[i])
  <1>1. Store \in Stores
    BY StoreType
  <1>2. "ok" \in Outcomes
    BY DEF Outcomes
  <1>3. /\ Save(Store, t, "ok") \in Stores
        /\ \A i \in Jobs : /\ Save(Store, t, "ok").mem[i] = Ev(t[i])
                           /\ Save(Store, t, "ok").file[i] = Ev(t[i])
    BY <1>1, <1>2, SaveFacts
  <1> QED BY <1>3, LeavesFacts DEF Commit, StoreTyped

LEMMA RefuseEffect ==
  ASSUME TypeOK, NEW t \in Tables, Refuse(t)
  PROVE  /\ StoreTyped
         /\ faults' # faults
         /\ \A i \in Jobs : Undone(i, t[i])
  <1>1. PICK o \in Failures, r \in Outcomes :
           Leaves(RollBack(Store, t, o, r), Cost(o, r))
    BY DEF Refuse
  <1>2. o \in Outcomes /\ Cost(o, r) \in Nat /\ Cost(o, r) # 0
    BY CostFacts DEF Failures
  <1>3. Store \in Stores /\ Store.mem = memory /\ Store.file = file
    BY StoreType DEF Store
  <1>4. memory \in Tables
    BY DEF TypeOK
  <1> DEFINE s == Save(Store, t, o)
             u == Save(s, memory, r)
  <1>5. /\ s \in Stores
        /\ \A i \in Jobs : s.file[i] \in {file[i], Ev(t[i])}
    BY <1>2, <1>3, SaveFacts
  <1>6. RollBack(Store, t, o, r) = u
    BY <1>3 DEF RollBack
  <1> HIDE DEF s
  <1>7. /\ u \in Stores
        /\ \A i \in Jobs : /\ u.mem[i] = Ev(memory[i])
                           /\ u.file[i] \in {s.file[i], Ev(memory[i])}
    BY <1>4, <1>5, SaveFacts
  <1> HIDE DEF u
  <1>8. /\ StoreTyped
        /\ memory' = u.mem /\ file' = u.file
        /\ faults' # faults
    BY <1>1, <1>2, <1>6, <1>7, LeavesFacts DEF StoreTyped
  <1> QED BY <1>5, <1>7, <1>8 DEF Undone

LEMMA StampTwice ==
  \A row \in Row, a, b \in Statuses : Stamp(Stamp(row, a), b) = Stamp(row, b)
  BY DEF Stamp, Row

(* The terminal write fails and FAILED is written instead.                 *)
LEMMA LostOutcomeEffect ==
  ASSUME TypeOK, NEW j \in Jobs, NEW status \in Statuses, memory[j] \in Row,
         NEW o \in Failures, NEW u \in Outcomes,
         Leaves(Update(Update(Store, j, status, o), j, "FAILED", u),
                Cost(o, u))
  PROVE  /\ StoreTyped
         /\ \A i \in Jobs \ {j} : Kept(i)
         /\ Becomes(j, Stamp(memory[j], "FAILED"), {Stamp(memory[j], status)})
  <1>1. /\ o \in Outcomes /\ Cost(o, u) \in Nat /\ Cost(o, u) # 0
        /\ "FAILED" \in Statuses
    BY CostFacts DEF Failures, Statuses, Terminal
  <1>2. Store \in Stores /\ Store.mem = memory /\ Store.file = file
    BY StoreType DEF Store
  <1>3. \A i \in Jobs : memory[i] \in Rows
    BY DEF TypeOK, Tables, Rows
  <1> DEFINE s == Update(Store, j, status, o)
             v == Update(s, j, "FAILED", u)
  <1>4. /\ s \in Stores
        /\ s.mem[j] = Stamp(memory[j], status)
        /\ s.file[j] \in {file[j], Stamp(memory[j], status)}
        /\ \A i \in Jobs \ {j} : /\ s.mem[i] = Ev(memory[i])
                                 /\ s.file[i] \in {file[i], Ev(memory[i])}
    BY <1>1, <1>2, UpdateFacts
  <1>5. s.mem[j] \in Row
    BY <1>4, StampRow
  <1> HIDE DEF s
  <1>6. /\ v \in Stores
        /\ v.mem[j] = Stamp(s.mem[j], "FAILED")
        /\ v.file[j] \in {s.file[j], Stamp(s.mem[j], "FAILED")}
        /\ \A i \in Jobs \ {j} : /\ v.mem[i] = Ev(s.mem[i])
                                 /\ v.file[i] \in {s.file[i], Ev(s.mem[i])}
    BY <1>1, <1>4, <1>5, UpdateFacts
  <1>7. Stamp(s.mem[j], "FAILED") = Stamp(memory[j], "FAILED")
    BY <1>1, <1>4, StampTwice
  <1>8. \A i \in Jobs \ {j} : Ev(s.mem[i]) = Ev(memory[i])
    BY <1>3, <1>4, EvFacts
  <1>9. /\ StoreTyped
        /\ memory' = v.mem /\ file' = v.file
        /\ faults' # faults
    BY <1>1, <1>6, LeavesFacts DEF StoreTyped, s
  <1> HIDE DEF v
  <1> QED BY <1>4, <1>6, <1>7, <1>8, <1>9 DEF Kept, Becomes

(* A write of table t succeeds and job j is then written FAILED.           *)
LEMMA FailedAfterEffect ==
  ASSUME TypeOK, NEW j \in Jobs, NEW t \in Tables, t[j] \in Row,
         Ev(t[j]) = t[j], \A i \in Jobs \ {j} : t[i] = memory[i],
         NEW o \in Outcomes,
         Leaves(Update(Save(Store, t, "ok"), j, "FAILED", o), Cost(o, "ok"))
  PROVE  /\ StoreTyped
         /\ \A i \in Jobs \ {j} : Kept(i)
         /\ Becomes(j, Stamp(t[j], "FAILED"), {t[j]})
  <1>1. /\ "ok" \in Outcomes /\ Cost(o, "ok") \in Nat
        /\ Cost(o, "ok") = 0 => o = "ok"
        /\ "FAILED" \in Statuses
    BY CostFacts DEF Outcomes, Statuses, Terminal
  <1>2. Store \in Stores /\ Store.mem = memory /\ Store.file = file
    BY StoreType DEF Store
  <1>3. \A i \in Jobs : memory[i] \in Rows
    BY DEF TypeOK, Tables, Rows
  <1> DEFINE s == Save(Store, t, "ok")
             v == Update(s, j, "FAILED", o)
  <1>4. /\ s \in Stores
        /\ \A i \in Jobs : s.mem[i] = Ev(t[i]) /\ s.file[i] = Ev(t[i])
    BY <1>1, <1>2, SaveFacts
  <1>5. s.mem[j] = t[j] /\ s.mem[j] \in Row
    BY <1>4
  <1> HIDE DEF s
  <1>6. /\ v \in Stores
        /\ v.mem[j] = Stamp(t[j], "FAILED")
        /\ v.file[j] \in {t[j], Stamp(t[j], "FAILED")}
        /\ o = "ok" => v.file[j] = Stamp(t[j], "FAILED")
        /\ \A i \in Jobs \ {j} : /\ v.mem[i] = Ev(s.mem[i])
                                 /\ v.file[i] \in {s.file[i], Ev(s.mem[i])}
    BY <1>1, <1>4, <1>5, UpdateFacts
  <1>7. \A i \in Jobs \ {j} : /\ Ev(s.mem[i]) = Ev(memory[i])
                             /\ s.file[i] = Ev(memory[i])
    BY <1>3, <1>4, EvFacts
  <1>8. /\ StoreTyped
        /\ memory' = v.mem /\ file' = v.file
        /\ faults' = faults => o = "ok"
    BY <1>1, <1>6, LeavesFacts DEF StoreTyped, s
  <1> HIDE DEF v
  <1> QED BY <1>6, <1>7, <1>8 DEF Kept, Becomes

(* The claim of a PENDING job fails, is undone, and FAILED is written.     *)
LEMMA ClaimFailedEffect ==
  ASSUME TypeOK, NEW j \in Jobs, memory[j] \in Row,
         memory[j].status = "PENDING",
         NEW o \in Failures, NEW r \in Outcomes, NEW u \in Outcomes,
         Leaves(Update(RollBack(Store, With(j, "RUNNING"), o, r),
                       j, "FAILED", u), Cost(o, r) + Cost(u, "ok"))
  PROVE  /\ StoreTyped
         /\ \A i \in Jobs \ {j} : Kept(i)
         /\ Becomes(j, Stamp(memory[j], "FAILED"),
                    {Stamp(memory[j], "RUNNING"), memory[j]})
  <1>1. /\ o \in Outcomes
        /\ Cost(o, r) + Cost(u, "ok") \in Nat
        /\ Cost(o, r) + Cost(u, "ok") # 0
        /\ "FAILED" \in Statuses /\ "RUNNING" \in Statuses
    BY CostFacts DEF Failures, Statuses, Terminal
  <1>2. Store \in Stores /\ Store.mem = memory /\ Store.file = file
    BY StoreType DEF Store
  <1>3. /\ memory \in Tables
        /\ \A i \in Jobs : memory[i] \in Rows
        /\ Ev(memory[j]) = memory[j]
    BY EvFacts DEF TypeOK, Tables, Rows, Terminal
  <1> DEFINE t == With(j, "RUNNING")
             s == Save(Store, t, o)
             w == Save(s, memory, r)
             v == Update(w, j, "FAILED", u)
  <1>4. /\ t \in Tables
        /\ Ev(t[j]) = Stamp(memory[j], "RUNNING")
        /\ \A i \in Jobs \ {j} : t[i] = memory[i]
    BY <1>1, <1>3, StampRow DEF With, Tables
  <1> HIDE DEF t
  <1>5. /\ s \in Stores
        /\ \A i \in Jobs : s.file[i] \in {file[i], Ev(t[i])}
    BY <1>1, <1>2, <1>4, SaveFacts
  <1>6. RollBack(Store, t, o, r) = w
    BY <1>2 DEF RollBack
  <1> HIDE DEF s
  <1>7. /\ w \in Stores
        /\ \A i \in Jobs : /\ w.mem[i] = Ev(memory[i])
                           /\ w.file[i] \in {s.file[i], Ev(memory[i])}
    BY <1>3, <1>5, SaveFacts
  <1>8. w.mem[j] = memory[j] /\ w.mem[j] \in Row
    BY <1>3, <1>7
  <1> HIDE DEF w
  <1>9. /\ v \in Stores
        /\ v.mem[j] = Stamp(memory[j], "FAILED")
        /\ v.file[j] \in {w.file[j], Stamp(memory[j], "FAILED")}
        /\ \A i \in Jobs \ {j} : /\ v.mem[i] = Ev(w.mem[i])
                                 /\ v.file[i] \in {w.file[i], Ev(w.mem[i])}
    BY <1>1, <1>7, <1>8, UpdateFacts
  <1>10. \A i \in Jobs \ {j} :
            /\ Ev(w.mem[i]) = Ev(memory[i])
            /\ w.file[i] \in {file[i], Ev(memory[i])}
    BY <1>3, <1>4, <1>5, <1>7, EvFacts
  <1>11. /\ StoreTyped
         /\ memory' = v.mem /\ file' = v.file
         /\ faults' # faults
    BY <1>1, <1>6, <1>9, LeavesFacts DEF StoreTyped, t
  <1> HIDE DEF v
  <1>12. v.file[j] \in {file[j], Stamp(memory[j], "FAILED"),
                        Stamp(memory[j], "RUNNING"), memory[j]}
    BY <1>3, <1>4, <1>5, <1>7, <1>9
  <1> QED BY <1>9, <1>10, <1>11, <1>12 DEF Kept, Becomes

(* A persist of a table that differs from memory in job j only.            *)
LEMMA TouchEffect ==
  ASSUME TypeOK, NEW j \in Jobs, NEW t \in Tables,
         \A i \in Jobs \ {j} : t[i] = memory[i]
  PROVE  /\ Commit(t) => /\ StoreTyped
                         /\ \A i \in Jobs \ {j} : Kept(i)
                         /\ memory'[j] = Ev(t[j]) /\ file'[j] = Ev(t[j])
                         /\ faults' = faults
         /\ Refuse(t) => /\ StoreTyped
                         /\ \A i \in Jobs \ {j} : Kept(i)
                         /\ Undone(j, t[j])
  BY CommitEffect, RefuseEffect DEF Kept, Undone

LEMMA WithFacts ==
  ASSUME TypeOK, NEW j \in Jobs, memory[j] \in Row, NEW status \in Statuses
  PROVE  /\ With(j, status) \in Tables
         /\ With(j, status)[j] = Stamp(memory[j], status)
         /\ Ev(With(j, status)[j]) = Stamp(memory[j], status)
         /\ \A i \in Jobs \ {j} : With(j, status)[i] = memory[i]
  BY StampRow DEF With, TypeOK, Tables

-----------------------------------------------------------------------------
(***************************************************************************)
(* Preservation.  A job the step does not touch keeps its invariant.       *)
(***************************************************************************)
LEMMA KeptPreserves ==
  ASSUME TypeOK, NEW i \in Jobs, JobInv(i), Kept(i), task'[i] = task[i],
         phase' = phase, phase # "down", StoreTyped
  PROVE  JobInv(i)'
  <1>1. memory[i] \in Rows /\ file[i] \in Rows
    BY DEF TypeOK, Tables, Rows
  <1>2. /\ Ev(memory[i]) = memory[i] \/ Ev(memory[i]) = NoRow
        /\ memory[i].status \notin Terminal => Ev(memory[i]) = memory[i]
    BY <1>1, EvFacts DEF Ev
  <1>3. faults' = 0 => faults = 0 /\ faults' = faults
    BY DEF TypeOK, StoreTyped
  <1>4. WorkRecorded(i)'
    BY <1>2, NoRowFacts DEF JobInv, WorkRecorded, Kept, Interrupted, CrashStatuses,
                Terminal, CancelledBeforeStart
  <1>5. PendingKinds(i)'
    BY <1>2, NoRowFacts DEF JobInv, PendingKinds, Kept
  <1>6. OwnerFits(i)'
    BY <1>2, NoRowFacts DEF JobInv, OwnerFits, WorkRecorded, Kept, Unclaimed,
                Terminal, AtWork, Interrupted, CrashStatuses
  <1>7. Owned(i)'
    BY <1>2, NoRowFacts DEF JobInv, Owned, Kept, Interrupted, CrashStatuses,
                CancelledBeforeStart
  <1>8. FamilyOwned(i)'
    BY <1>2, NoRowFacts DEF JobInv, FamilyOwned, Kept, Interrupted, CrashStatuses,
                CancelledBeforeStart
  <1>9. Agreed(i)'
    BY <1>3 DEF Agreed, Kept
  <1>10. Down(i)'
    BY DEF Down
  <1> QED BY <1>4, <1>5, <1>6, <1>7, <1>8, <1>9, <1>10 DEF JobInv

(* A step of job j preserves the invariant if it preserves j's own part.   *)
LEMMA StepPreserves ==
  ASSUME IInv, NEW j \in Jobs, NEW x \in Tasks, UNCHANGED Process,
         phase # "down", StoreTyped, Owner(j, x),
         \A i \in Jobs \ {j} : Kept(i), JobInv(j)'
  PROVE  IInv'
  <1>1. TypeOK /\ TypeOK'
    BY DEF IInv, TypeOK, StoreTyped, Process, Owner
  <1>2. \A i \in Jobs \ {j} : task'[i] = task[i]
    BY <1>1 DEF Owner, TypeOK
  <1>3. \A i \in Jobs \ {j} : JobInv(i)'
    BY <1>1, <1>2, KeptPreserves DEF IInv, Process
  <1>4. DeathKnown'
    BY <1>1 DEF IInv, DeathKnown, Process, StoreTyped, TypeOK
  <1> QED BY <1>1, <1>3, <1>4 DEF IInv

(* A step that changes nothing but the owner of job j.                     *)
LEMMA HandOver ==
  ASSUME IInv, NEW j \in Jobs, NEW x \in Tasks, UNCHANGED Process,
         phase # "down", UNCHANGED <<memory, file, faults>>, Owner(j, x),
         JobInv(j)'
  PROVE  IInv'
  <1>1. TypeOK /\ TypeOK'
    BY DEF IInv, TypeOK, Process, Owner
  <1>2. \A i \in Jobs \ {j} : task'[i] = task[i]
    BY <1>1 DEF Owner, TypeOK
  <1>3. \A i \in Jobs \ {j} : JobInv(i)'
    BY <1>2 DEF IInv, JobInv, WorkRecorded, PendingKinds, OwnerFits, Owned,
                FamilyOwned, Agreed, Down, Process
  <1>4. DeathKnown'
    BY DEF IInv, DeathKnown, Process
  <1> QED BY <1>1, <1>3, <1>4 DEF IInv

LEMMA SameOwner ==
  ASSUME TypeOK, NEW j \in Jobs, UNCHANGED task
  PROVE  Owner(j, task[j]) /\ task[j] \in Tasks
  BY DEF TypeOK, Owner

LEMMA RowOf ==
  ASSUME TypeOK, NEW j \in Jobs, memory[j].status # "ABSENT"
  PROVE  memory[j] \in Row
  BY NoRowFacts DEF TypeOK, Tables

(* Every way a job ends: its row becomes terminal and nothing owns it.     *)
LEMMA EndPreserves ==
  ASSUME IInv, NEW j \in Jobs, UNCHANGED Process, phase # "down", StoreTyped,
         NEW row, row.status \in Terminal, NEW between,
         \A b \in between : b.status = "PENDING" =>
                               b.kind \in NotStartedOnLoad,
         Becomes(j, row, between), \A i \in Jobs \ {j} : Kept(i),
         Owner(j, "none")
  PROVE  IInv'
  <1>1. TypeOK /\ JobInv(j)
    BY DEF IInv
  <1>2. task'[j] = "none" /\ "none" \in Tasks
    BY <1>1 DEF TypeOK, Owner, Tasks
  <1>3. /\ memory'[j].status \in Terminal
        /\ file'[j].status = "PENDING" => file'[j].kind \in NotStartedOnLoad
    BY <1>1 DEF Becomes, JobInv, PendingKinds, Terminal
  <1>4. faults' = 0 => faults' = faults
    BY <1>1 DEF TypeOK, StoreTyped
  <1>5. PendingKinds(j)'
    BY <1>3 DEF PendingKinds, Terminal
  <1>6. WorkRecorded(j)' /\ OwnerFits(j)'
    BY <1>2 DEF WorkRecorded, OwnerFits, AtWork
  <1>7. Owned(j)' /\ FamilyOwned(j)'
    BY <1>3 DEF Owned, FamilyOwned, Interrupted, CrashStatuses, Terminal
  <1>8. Agreed(j)' /\ Down(j)'
    BY <1>4 DEF Agreed, Down, Becomes, Process
  <1>9. JobInv(j)'
    BY <1>5, <1>6, <1>7, <1>8 DEF JobInv
  <1> QED BY <1>2, <1>9, StepPreserves

(* A best-effort terminal write ends the job.                              *)
LEMMA PersistEnds ==
  ASSUME IInv, NEW j \in Jobs, UNCHANGED Process, phase # "down",
         memory[j] \in Row, NEW status \in Terminal, Persist(j, status),
         Owner(j, "none")
  PROVE  IInv'
  <1>1. TypeOK /\ status \in Statuses
    BY DEF IInv, Statuses
  <1>2. /\ StoreTyped
        /\ \A i \in Jobs \ {j} : Kept(i)
        /\ Becomes(j, Stamp(memory[j], status), {})
    BY <1>1, PersistEffect
  <1>3. Stamp(memory[j], status).status \in Terminal
    BY <1>1, StampRow
  <1> QED BY <1>2, <1>3, EndPreserves

(* A refused persist leaves a job as it was; only the file may show the    *)
(* row that was not saved.                                                 *)
LEMMA UndoneJob ==
  ASSUME TypeOK, NEW j \in Jobs, JobInv(j), phase' = phase, phase # "down",
         StoreTyped, NEW row, Undone(j, row), UNCHANGED task,
         Ev(row).status = "PENDING" => Ev(row).kind \in NotStartedOnLoad,
         task[j] \in AtWork => Interrupted(Ev(row))
                               /\ Ev(row).kind = memory[j].kind
  PROVE  JobInv(j)'
  <1>1. memory[j] \in Rows
    BY DEF TypeOK, Tables, Rows
  <1>2. task'[j] = task[j]
    OBVIOUS
  <1>3. /\ Ev(memory[j]) = memory[j] \/ Ev(memory[j]) = NoRow
        /\ memory[j].status \notin Terminal => Ev(memory[j]) = memory[j]
    BY <1>1, EvFacts DEF Ev
  <1>4. faults' # 0
    BY DEF TypeOK, StoreTyped, Undone
  <1>5. WorkRecorded(j)'
    BY <1>2, <1>3 DEF JobInv, WorkRecorded, Undone, Interrupted,
                CrashStatuses, Terminal, CancelledBeforeStart
  <1>6. PendingKinds(j)'
    BY <1>3, NoRowFacts DEF JobInv, PendingKinds, Undone
  <1>7. OwnerFits(j)'
    BY <1>2, <1>3, NoRowFacts DEF JobInv, OwnerFits, WorkRecorded,
                Undone, Unclaimed, Terminal, AtWork, Interrupted,
                CrashStatuses
  <1>8. Owned(j)' /\ FamilyOwned(j)'
    BY <1>2, <1>3, NoRowFacts DEF JobInv, Owned, FamilyOwned, Undone,
                Interrupted, CrashStatuses, CancelledBeforeStart
  <1>9. Agreed(j)' /\ Down(j)'
    BY <1>4 DEF Agreed, Down
  <1> QED BY <1>5, <1>6, <1>7, <1>8, <1>9 DEF JobInv

LEMMA UndonePreserves ==
  ASSUME IInv, NEW j \in Jobs, UNCHANGED Process, phase # "down", StoreTyped,
         NEW row, Undone(j, row), \A i \in Jobs \ {j} : Kept(i),
         UNCHANGED task,
         Ev(row).status = "PENDING" => Ev(row).kind \in NotStartedOnLoad,
         task[j] \in AtWork => Interrupted(Ev(row))
                               /\ Ev(row).kind = memory[j].kind
  PROVE  IInv'
  <1>1. TypeOK /\ JobInv(j) /\ phase' = phase
    BY DEF IInv, Process
  <1>2. Owner(j, task[j]) /\ task[j] \in Tasks
    BY <1>1, SameOwner
  <1>3. JobInv(j)'
    BY <1>1, UndoneJob
  <1> QED BY <1>2, <1>3, StepPreserves

(* The invariant of a job whose row is row in memory and in the file and   *)
(* whose owner is x.                                                       *)
Fits(row, x) ==
    /\ Interrupted(row) <=> x \in AtWork
    /\ row.status = "PENDING" => row.kind \in NotStartedOnLoad
    /\ row.status \in {"PENDING", "RUNNING", "CANCELLING"} => x # "none"
    /\ x \in {"creating", "ending"} =>
          row.kind = "reindex" /\ row.status \in Unclaimed
    /\ x = "waiting" => row.kind \in {"ingest", "none"}
    /\ x = "spawned" =>
          \/ row.kind \in {"ingest", "none"}
          \/ row.kind = "reindex" /\ row.status \in Unclaimed
    /\ x = "dispatched" => row.kind \in Bulk

LEMMA FitsJob ==
  ASSUME NEW j \in Jobs, NEW row, NEW x \in Tasks, Fits(row, x),
         memory'[j] = row, file'[j] = row, task'[j] = x, phase' # "down"
  PROVE  JobInv(j)'
  <1>1. WorkRecorded(j)' /\ PendingKinds(j)'
    BY DEF WorkRecorded, PendingKinds, Fits
  <1>2. OwnerFits(j)'
    BY DEF OwnerFits, Fits
  <1>3. Owned(j)' /\ FamilyOwned(j)' /\ Agreed(j)' /\ Down(j)'
    BY DEF Owned, FamilyOwned, Agreed, Down, Fits
  <1> QED BY <1>1, <1>2, <1>3 DEF JobInv

(* A successful persist of a table that differs from memory in job j.      *)
LEMMA CommitPreserves ==
  ASSUME IInv, NEW j \in Jobs, UNCHANGED Process, phase # "down",
         NEW t \in Tables, \A i \in Jobs \ {j} : t[i] = memory[i], Commit(t),
         NEW x \in Tasks, Owner(j, x), Ev(t[j]) = t[j], Fits(t[j], x)
  PROVE  IInv'
  <1>1. TypeOK /\ phase' # "down"
    BY DEF IInv, Process
  <1>2. /\ StoreTyped
        /\ \A i \in Jobs \ {j} : Kept(i)
        /\ memory'[j] = t[j] /\ file'[j] = t[j]
    BY <1>1, TouchEffect
  <1>3. task'[j] = x
    BY <1>1 DEF TypeOK, Owner
  <1>4. JobInv(j)'
    BY <1>1, <1>2, <1>3, FitsJob
  <1> QED BY <1>2, <1>4, StepPreserves

LEMMA NewRowFacts ==
  ASSUME NEW kind \in Kinds, NEW c \in Collections \cup {""}, TypeOK,
         NEW j \in Jobs
  PROVE  /\ NewRow(kind, CreatedStatus(kind), c) \in Row
         /\ Ev(NewRow(kind, CreatedStatus(kind), c))
               = NewRow(kind, CreatedStatus(kind), c)
         /\ Fits(NewRow(kind, CreatedStatus(kind), c), FirstOwner(kind))
         /\ kind = "ingest" =>
               Fits(NewRow(kind, CreatedStatus(kind), c), "waiting")
         /\ FirstOwner(kind) \in Tasks
         /\ CreateTable(j, kind, c) \in Tables
         /\ CreateTable(j, kind, c)[j]
               = NewRow(kind, CreatedStatus(kind), c)
         /\ \A i \in Jobs \ {j} : CreateTable(j, kind, c)[i] = memory[i]
  <1> DEFINE row == NewRow(kind, CreatedStatus(kind), c)
  <1>1. /\ CreatedStatus(kind) \in {"PENDING", "QUEUED", "RUNNING"}
        /\ CreatedStatus(kind) = "PENDING" <=> kind \in {"ingest", "reindex"}
        /\ CreatedStatus(kind) = "QUEUED" <=> kind \in {"export", "import"}
    BY DEF CreatedStatus, Kinds
  <1>2. /\ FirstOwner(kind) \in {"none", "creating", "spawned", "working"}
        /\ FirstOwner(kind) = "creating" <=> kind = "reindex"
        /\ FirstOwner(kind) = "spawned" <=> kind = "ingest"
        /\ FirstOwner(kind) = "none" <=> kind \in {"export", "import"}
    BY DEF FirstOwner, Kinds
  <1>3. /\ row \in Row
        /\ row.kind = kind /\ row.status = CreatedStatus(kind)
        /\ row.before_start = FALSE /\ row.old = FALSE
    BY <1>1 DEF NewRow, Row, Statuses
  <1> HIDE DEF row
  <1>4. Ev(row) = row
    BY <1>1, <1>3 DEF Ev, Evictable, Terminal
  <1>5. Fits(row, FirstOwner(kind))
    BY <1>1, <1>2, <1>3 DEF Fits, Interrupted, CrashStatuses, AtWork,
          CancelledBeforeStart, NotStartedOnLoad, Unclaimed
  <1>6. kind = "ingest" => Fits(row, "waiting")
    BY <1>1, <1>3 DEF Fits, Interrupted, CrashStatuses, AtWork,
          CancelledBeforeStart, NotStartedOnLoad, Unclaimed
  <1>7. /\ CreateTable(j, kind, c) \in Tables
        /\ CreateTable(j, kind, c)[j] = row
        /\ \A i \in Jobs \ {j} : CreateTable(j, kind, c)[i] = memory[i]
    BY <1>3 DEF CreateTable, TypeOK, Tables, row
  <1> QED BY <1>2, <1>3, <1>4, <1>5, <1>6, <1>7 DEF row, Tasks

LEMMA CreatePreserves ==
  ASSUME IInv, NEW j \in Jobs, NEW kind \in Kinds,
         NEW c \in Collections \cup {""}, Create(j, kind, c)
  PROVE  IInv'
  <1>1. /\ TypeOK /\ phase # "down" /\ UNCHANGED Process
        /\ task[j] = "none" /\ memory[j] = NoRow
    BY DEF IInv, Create, Unused
  <1> DEFINE t == CreateTable(j, kind, c)
             row == NewRow(kind, CreatedStatus(kind), c)
  <1>2. /\ row \in Row /\ Ev(row) = row /\ Fits(row, FirstOwner(kind))
        /\ FirstOwner(kind) \in Tasks
        /\ t \in Tables /\ t[j] = row
        /\ \A i \in Jobs \ {j} : t[i] = memory[i]
    BY <1>1, NewRowFacts
  <1> HIDE DEF t, row
  <1>3. CASE Commit(t) /\ Owner(j, FirstOwner(kind))
    BY <1>1, <1>2, <1>3, CommitPreserves
  <1>4. CASE Refuse(t) /\ UNCHANGED task
    <2>1. StoreTyped /\ (\A i \in Jobs \ {j} : Kept(i)) /\ Undone(j, row)
      BY <1>1, <1>2, <1>4, TouchEffect
    <2> QED BY <1>1, <1>2, <1>4, <2>1, UndonePreserves DEF Fits, AtWork
  <1> QED BY <1>3, <1>4 DEF Create, t

LEMMA RetryIngestPreserves ==
  ASSUME IInv, NEW j \in Jobs, NEW c \in Collections, RetryIngest(j, c)
  PROVE  IInv'
  <1>1. /\ TypeOK /\ phase # "down" /\ UNCHANGED Process
        /\ task[j] = "none" /\ memory[j] = NoRow /\ "ingest" \in Kinds
        /\ "waiting" \in Tasks /\ "FAILED" \in Statuses
    BY DEF IInv, RetryIngest, Unused, Kinds, Tasks, Statuses, Terminal
  <1> DEFINE t == CreateTable(j, "ingest", c)
             row == NewRow("ingest", CreatedStatus("ingest"), c)
  <1>2. /\ row \in Row /\ Ev(row) = row /\ Fits(row, "waiting")
        /\ t \in Tables /\ t[j] = row
        /\ \A i \in Jobs \ {j} : t[i] = memory[i]
    BY <1>1, NewRowFacts
  <1> HIDE DEF t, row
  <1>3. CASE Commit(t) /\ Owner(j, "waiting")
    BY <1>1, <1>2, <1>3, CommitPreserves
  <1>4. CASE Refuse(t) /\ UNCHANGED task
    <2>1. StoreTyped /\ (\A i \in Jobs \ {j} : Kept(i)) /\ Undone(j, row)
      BY <1>1, <1>2, <1>4, TouchEffect
    <2> QED BY <1>1, <1>2, <1>4, <2>1, UndonePreserves DEF Fits, AtWork
  <1>5. ASSUME NEW o \in Outcomes, UNCHANGED task,
               Leaves(Update(Save(Store, t, "ok"), j, "FAILED", o),
                      Cost(o, "ok"))
        PROVE  IInv'
    <2>1. /\ StoreTyped /\ \A i \in Jobs \ {j} : Kept(i)
          /\ Becomes(j, Stamp(row, "FAILED"), {row})
      BY <1>1, <1>2, <1>5, FailedAfterEffect
    <2>2. /\ Stamp(row, "FAILED").status \in Terminal
          /\ row.status = "PENDING" => row.kind \in NotStartedOnLoad
      BY <1>1, <1>2, StampRow DEF Fits, Terminal
    <2>3. Owner(j, "none")
      BY <1>1, <1>5, SameOwner
    <2> QED BY <1>1, <2>1, <2>2, <2>3, EndPreserves
  <1> QED BY <1>3, <1>4, <1>5 DEF RetryIngest, t

LEMMA RecordPointerPreserves ==
  ASSUME IInv, NEW j \in Jobs, RecordPointer(j)
  PROVE  IInv'
  <1>1. /\ TypeOK /\ JobInv(j) /\ phase # "down" /\ UNCHANGED Process
        /\ task[j] = "creating" /\ "spawned" \in Tasks /\ "FAILED" \in Terminal
    BY DEF IInv, RecordPointer, Tasks, Terminal
  <1>2. memory[j].kind = "reindex" /\ memory[j].status \in Unclaimed
    BY <1>1 DEF JobInv, OwnerFits
  <1>3. memory[j] \in Row
    BY <1>1, <1>2, RowOf DEF Unclaimed
  <1>4. CASE Owner(j, "spawned") /\ UNCHANGED <<memory, file, faults>>
    <2>1. task'[j] = "spawned"
      BY <1>1, <1>4 DEF TypeOK, Owner
    <2>2. JobInv(j)'
      BY <1>1, <1>2, <1>4, <2>1 DEF JobInv, WorkRecorded, PendingKinds,
            OwnerFits, Owned, FamilyOwned, Agreed, Down, AtWork, Process
    <2> QED BY <1>1, <1>4, <2>2, HandOver
  <1>5. CASE Persist(j, "FAILED") /\ Owner(j, "none")
    BY <1>1, <1>3, <1>5, PersistEnds
  <1> QED BY <1>4, <1>5 DEF RecordPointer

LEMMA GetLockPreserves ==
  ASSUME IInv, NEW j \in Jobs, GetLock(j)
  PROVE  IInv'
  <1>1. /\ TypeOK /\ JobInv(j) /\ phase # "down" /\ UNCHANGED Process
        /\ task[j] = "waiting" /\ "spawned" \in Tasks
        /\ Owner(j, "spawned") /\ UNCHANGED <<memory, file, faults>>
    BY DEF IInv, GetLock, Tasks
  <1>2. task'[j] = "spawned"
    BY <1>1 DEF TypeOK, Owner
  <1>3. JobInv(j)'
    BY <1>1, <1>2 DEF JobInv, WorkRecorded, PendingKinds,
          OwnerFits, Owned, FamilyOwned, Agreed, Down, AtWork, Process
  <1> QED BY <1>1, <1>3, HandOver

(* A task that gives up a job whose row is not, or no longer, its own.     *)
LEMMA LetGo ==
  ASSUME IInv, NEW j \in Jobs, UNCHANGED Process, phase # "down",
         UNCHANGED <<memory, file, faults>>, Owner(j, "none"),
         task[j] \notin AtWork,
         phase = "up" =>
            memory[j].status \notin {"PENDING", "RUNNING", "CANCELLING"}
  PROVE  IInv'
  <1>1. TypeOK /\ JobInv(j) /\ "none" \in Tasks
    BY DEF IInv, Tasks
  <1>2. task'[j] = "none"
    BY <1>1 DEF TypeOK, Owner
  <1>3. JobInv(j)'
    BY <1>1, <1>2 DEF JobInv, WorkRecorded, PendingKinds, OwnerFits, Owned,
          FamilyOwned, Agreed, Down, AtWork, Process, Interrupted,
          CrashStatuses
  <1> QED BY <1>1, <1>3, HandOver

(* The rows a claim, a cancel, an end or a resume writes.                  *)
LEMMA StampFits ==
  ASSUME NEW row \in Row
  PROVE  /\ Fits(Stamp(row, "RUNNING"), "working")
         /\ row.kind \in Bulk => Fits(Stamp(row, "RUNNING"), "dispatched")
         /\ Fits(Stamp(row, "QUEUED"), "none")
         /\ \A status \in Terminal : Fits(Stamp(row, status), "none")
  <1>1. /\ "RUNNING" \in Statuses /\ "QUEUED" \in Statuses
        /\ Terminal \subseteq Statuses
    BY DEF Statuses, Terminal
  <1> QED BY <1>1, StampRow DEF Fits, Interrupted, CrashStatuses,
        CancelledBeforeStart, AtWork, Terminal

LEMMA ClaimIngestPreserves ==
  ASSUME IInv, NEW j \in Jobs, ClaimIngest(j)
  PROVE  IInv'
  <1>1. /\ TypeOK /\ JobInv(j) /\ phase # "down" /\ UNCHANGED Process
        /\ task[j] = "spawned" /\ memory[j].kind \in {"ingest", "none"}
        /\ "working" \in Tasks /\ "FAILED" \in Terminal
        /\ "CANCELLED" \in Terminal /\ "RUNNING" \in Statuses
        /\ "FAILED" \in Statuses /\ task[j] \notin AtWork
    BY DEF IInv, ClaimIngest, Tasks, Terminal, Statuses, AtWork
  <1>2. memory[j].status # "ABSENT" => memory[j] \in Row
    BY <1>1, RowOf
  <1>3. CASE memory[j].status = "PENDING" /\ Commit(With(j, "RUNNING"))
             /\ Owner(j, "working")
    BY <1>1, <1>2, <1>3, StampFits, WithFacts, CommitPreserves
  <1>4. ASSUME memory[j].status = "PENDING", NEW o \in Failures,
               NEW r \in Outcomes, NEW u \in Outcomes, Owner(j, "none"),
               Leaves(Update(RollBack(Store, With(j, "RUNNING"), o, r),
                             j, "FAILED", u), Cost(o, r) + Cost(u, "ok"))
        PROVE  IInv'
    <2>1. /\ StoreTyped /\ \A i \in Jobs \ {j} : Kept(i)
          /\ Becomes(j, Stamp(memory[j], "FAILED"),
                     {Stamp(memory[j], "RUNNING"), memory[j]})
      BY <1>1, <1>2, <1>4, ClaimFailedEffect
    <2>2. /\ Stamp(memory[j], "FAILED").status \in Terminal
          /\ Stamp(memory[j], "RUNNING").status # "PENDING"
          /\ memory[j].kind \in NotStartedOnLoad
      BY <1>1, <1>2, <1>4, StampRow DEF JobInv, PendingKinds
    <2> QED BY <1>1, <1>4, <2>1, <2>2, EndPreserves
  <1>5. CASE memory[j].status = "CANCELLING" /\ Persist(j, "CANCELLED")
             /\ Owner(j, "none")
    BY <1>1, <1>2, <1>5, PersistEnds
  <1>6. CASE /\ memory[j].status \notin {"PENDING", "CANCELLING"}
             /\ Owner(j, "none") /\ UNCHANGED <<memory, file, faults>>
    <2>1. phase = "up" => memory[j].status # "RUNNING"
      BY <1>1 DEF JobInv, Owned, Interrupted, CrashStatuses,
            CancelledBeforeStart
    <2> QED BY <1>1, <1>6, <2>1, LetGo
  <1> QED BY <1>3, <1>4, <1>5, <1>6 DEF ClaimIngest

LEMMA ClaimReindexPreserves ==
  ASSUME IInv, NEW j \in Jobs, ClaimReindex(j)
  PROVE  IInv'
  <1>1. /\ TypeOK /\ JobInv(j) /\ phase # "down" /\ UNCHANGED Process
        /\ task[j] = "spawned" /\ memory[j].kind = "reindex"
        /\ "working" \in Tasks /\ "ending" \in Tasks
        /\ "RUNNING" \in Statuses
    BY DEF IInv, ClaimReindex, Tasks, Statuses
  <1>2. memory[j].status \in Unclaimed
    BY <1>1 DEF JobInv, OwnerFits
  <1>3. memory[j] \in Row
    BY <1>1, <1>2, RowOf DEF Unclaimed
  <1>4. CASE memory[j].status = "PENDING" /\ Commit(With(j, "RUNNING"))
             /\ Owner(j, "working")
    BY <1>1, <1>3, <1>4, StampFits, WithFacts, CommitPreserves
  <1>5. CASE memory[j].status = "PENDING" /\ Refuse(With(j, "RUNNING"))
             /\ Owner(j, "ending")
    <2>1. /\ StoreTyped /\ \A i \in Jobs \ {j} : Kept(i)
          /\ Undone(j, Stamp(memory[j], "RUNNING"))
      BY <1>1, <1>3, <1>5, WithFacts, TouchEffect
    <2>2. /\ Ev(memory[j]) = memory[j]
          /\ Ev(Stamp(memory[j], "RUNNING")).status = "RUNNING"
      BY <1>1, <1>3, <1>5, StampRow, EvFacts DEF Rows, Terminal
    <2>3. /\ memory'[j] = memory[j]
          /\ file'[j] = file[j] \/ file'[j] = memory[j]
             \/ file'[j].status = "RUNNING"
          /\ faults' # 0 /\ task'[j] = "ending"
      BY <1>1, <1>5, <2>1, <2>2 DEF Undone, StoreTyped, TypeOK, Owner
    <2>4. WorkRecorded(j)' /\ PendingKinds(j)' /\ OwnerFits(j)'
      BY <1>1, <1>2, <2>3 DEF JobInv, WorkRecorded, PendingKinds, OwnerFits,
            AtWork
    <2>5. Owned(j)' /\ FamilyOwned(j)' /\ Agreed(j)' /\ Down(j)'
      BY <1>1, <1>5, <2>3 DEF Owned, FamilyOwned, Agreed, Down, Process,
            Interrupted, CrashStatuses
    <2>6. JobInv(j)'
      BY <2>4, <2>5 DEF JobInv
    <2> QED BY <1>1, <1>5, <2>1, <2>6, StepPreserves
  <1>6. CASE Owner(j, "ending") /\ UNCHANGED <<memory, file, faults>>
    <2>1. task'[j] = "ending"
      BY <1>1, <1>6 DEF TypeOK, Owner
    <2>2. JobInv(j)'
      BY <1>1, <1>2, <1>6, <2>1 DEF JobInv, WorkRecorded, PendingKinds,
            OwnerFits, Owned, FamilyOwned, Agreed, Down, AtWork, Process
    <2> QED BY <1>1, <1>6, <2>2, HandOver
  <1> QED BY <1>4, <1>5, <1>6 DEF ClaimReindex

LEMMA EndReindexPreserves ==
  ASSUME IInv, NEW j \in Jobs, EndReindex(j)
  PROVE  IInv'
  <1>1. /\ TypeOK /\ JobInv(j) /\ phase # "down" /\ UNCHANGED Process
        /\ task[j] = "ending" /\ Owner(j, "none")
    BY DEF IInv, EndReindex
  <1>2. memory[j] \in Row
    BY <1>1, RowOf DEF JobInv, OwnerFits, Unclaimed
  <1>3. PICK status \in Terminal : Persist(j, status)
    BY DEF EndReindex, Terminal
  <1> QED BY <1>1, <1>2, <1>3, PersistEnds

LEMMA SchedulerClaimPreserves ==
  ASSUME IInv, NEW j \in Jobs, SchedulerClaim(j)
  PROVE  IInv'
  <1>1. /\ TypeOK /\ JobInv(j) /\ phase # "down" /\ UNCHANGED Process
        /\ memory[j].kind \in Bulk /\ memory[j].status = "QUEUED"
        /\ "dispatched" \in Tasks /\ "none" \in Tasks
        /\ "RUNNING" \in Statuses /\ "FAILED" \in Statuses
    BY DEF IInv, SchedulerClaim, Tasks, Statuses, Terminal
  <1>2. memory[j] \in Row
    BY <1>1, RowOf
  <1>3. task[j] = "none"
    BY <1>1 DEF JobInv, OwnerFits, WorkRecorded, Interrupted, CrashStatuses,
          AtWork, Unclaimed, Bulk, TypeOK, Tasks
  <1>4. CASE Commit(With(j, "RUNNING")) /\ Owner(j, "dispatched")
    BY <1>1, <1>2, <1>4, StampFits, WithFacts, CommitPreserves
  <1>5. CASE Refuse(With(j, "RUNNING")) /\ UNCHANGED task
    <2>1. /\ StoreTyped /\ \A i \in Jobs \ {j} : Kept(i)
          /\ Undone(j, Stamp(memory[j], "RUNNING"))
      BY <1>1, <1>2, <1>5, WithFacts, TouchEffect
    <2>2. Ev(Stamp(memory[j], "RUNNING")).status = "RUNNING"
      BY <1>1, <1>2, StampRow
    <2>3. task[j] \notin AtWork
      BY <1>3 DEF AtWork
    <2> QED BY <1>1, <1>5, <2>1, <2>2, <2>3, UndonePreserves
  <1>6. ASSUME NEW o \in Outcomes, UNCHANGED task,
               Leaves(Update(Save(Store, With(j, "RUNNING"), "ok"),
                             j, "FAILED", o), Cost(o, "ok"))
        PROVE  IInv'
    <2>1. /\ With(j, "RUNNING") \in Tables
          /\ With(j, "RUNNING")[j] = Stamp(memory[j], "RUNNING")
          /\ With(j, "RUNNING")[j] \in Row
          /\ Ev(With(j, "RUNNING")[j]) = With(j, "RUNNING")[j]
          /\ \A i \in Jobs \ {j} : With(j, "RUNNING")[i] = memory[i]
          /\ Stamp(memory[j], "RUNNING").status = "RUNNING"
      BY <1>1, <1>2, WithFacts, StampRow
    <2>2. /\ StoreTyped /\ \A i \in Jobs \ {j} : Kept(i)
          /\ Becomes(j, Stamp(With(j, "RUNNING")[j], "FAILED"),
                     {With(j, "RUNNING")[j]})
      BY <1>1, <1>6, <2>1, FailedAfterEffect
    <2>3. Stamp(With(j, "RUNNING")[j], "FAILED").status \in Terminal
      BY <1>1, <2>1, StampRow DEF Terminal
    <2>4. Owner(j, "none")
      BY <1>1, <1>3, <1>6, SameOwner
    <2> QED BY <1>1, <2>1, <2>2, <2>3, <2>4, EndPreserves
  <1> QED BY <1>4, <1>5, <1>6 DEF SchedulerClaim

(* A job at work has a row, and it is not terminal.                        *)
LEMMA AtWorkRow ==
  ASSUME TypeOK, NEW j \in Jobs, JobInv(j), Runs(j)
  PROVE  /\ memory[j] \in Row /\ Interrupted(memory[j])
         /\ memory[j].status \in {"RUNNING", "CANCELLING"}
         /\ task[j] \in AtWork /\ phase # "down"
  <1>1. task[j] \in AtWork /\ phase # "down"
    BY DEF Runs, AtWork
  <1>2. Interrupted(memory[j]) /\ memory[j].status \in {"RUNNING", "CANCELLING"}
    BY <1>1 DEF JobInv, WorkRecorded, Interrupted, CrashStatuses
  <1> QED BY <1>1, <1>2, RowOf

LEMMA SucceedPreserves ==
  ASSUME IInv, NEW j \in Jobs, Succeed(j)
  PROVE  IInv'
  <1>1. /\ TypeOK /\ JobInv(j) /\ UNCHANGED Process /\ Owner(j, "none")
        /\ Runs(j) /\ "none" \in Tasks /\ "FAILED" \in Terminal
        /\ Terminal \subseteq Statuses
    BY DEF IInv, Succeed, Tasks, Terminal, Statuses
  <1>2. memory[j] \in Row /\ phase # "down"
    BY <1>1, AtWorkRow
  <1>3. SuccessStatuses(memory[j]) \subseteq Terminal
    BY DEF SuccessStatuses, Terminal
  <1>4. PICK status \in Terminal :
          \/ Commit(With(j, status))
          \/ Persist(j, status)
          \/ \E o \in Failures, u \in Outcomes :
                Leaves(Update(Update(Store, j, status, o), j, "FAILED", u),
                       Cost(o, u))
    BY <1>3 DEF Succeed
  <1>5. CASE Commit(With(j, status))
    BY <1>1, <1>2, <1>5, StampFits, WithFacts, CommitPreserves
  <1>6. CASE Persist(j, status)
    BY <1>1, <1>2, <1>6, PersistEnds
  <1>7. ASSUME NEW o \in Failures, NEW u \in Outcomes,
               Leaves(Update(Update(Store, j, status, o), j, "FAILED", u),
                      Cost(o, u))
        PROVE  IInv'
    <2>1. /\ StoreTyped /\ \A i \in Jobs \ {j} : Kept(i)
          /\ Becomes(j, Stamp(memory[j], "FAILED"), {Stamp(memory[j], status)})
      BY <1>1, <1>2, <1>7, LostOutcomeEffect
    <2>2. /\ Stamp(memory[j], "FAILED").status \in Terminal
          /\ Stamp(memory[j], status).status # "PENDING"
      BY <1>1, <1>2, StampRow DEF Terminal
    <2> QED BY <1>1, <1>2, <2>1, <2>2, EndPreserves
  <1> QED BY <1>4, <1>5, <1>6, <1>7

LEMMA FailPreserves ==
  ASSUME IInv, NEW j \in Jobs, Fail(j)
  PROVE  IInv'
  <1>1. /\ TypeOK /\ JobInv(j) /\ UNCHANGED Process /\ Owner(j, "none")
        /\ Runs(j) /\ Persist(j, "FAILED") /\ "FAILED" \in Terminal
    BY DEF IInv, Fail, Terminal
  <1> QED BY <1>1, AtWorkRow, PersistEnds

LEMMA ProgressPreserves ==
  ASSUME IInv, NEW j \in Jobs, Progress(j)
  PROVE  IInv'
  <1>1. /\ TypeOK /\ JobInv(j) /\ UNCHANGED Process /\ Runs(j)
        /\ memory[j].kind \in Bulk /\ phase' = phase
        /\ "FAILED" \in Terminal /\ Terminal \subseteq Statuses
    BY DEF IInv, Progress, Process, Terminal, Statuses
  <1>2. /\ memory[j] \in Row /\ Interrupted(memory[j])
        /\ memory[j].status \in {"RUNNING", "CANCELLING"}
        /\ task[j] \in AtWork /\ phase # "down"
    BY <1>1, AtWorkRow
  <1> DEFINE row == Stamp(memory[j], memory[j].status)
  <1>3. memory[j].status \in Statuses
    BY <1>2 DEF Row
  <1>4. /\ row.status = memory[j].status /\ row.kind = memory[j].kind
        /\ Interrupted(row)
    BY <1>2, <1>3, StampRow DEF Interrupted, CancelledBeforeStart
  <1>5. Fits(row, task[j])
    BY <1>1, <1>2, <1>4 DEF Fits, AtWork
  <1> HIDE DEF row
  <1>6. CASE Commit(With(j, memory[j].status)) /\ UNCHANGED task
    BY <1>1, <1>2, <1>3, <1>5, <1>6, SameOwner, WithFacts, CommitPreserves
       DEF row
  <1>7. CASE Persist(j, memory[j].status) /\ UNCHANGED task
    <2>1. /\ StoreTyped /\ \A i \in Jobs \ {j} : Kept(i)
          /\ Becomes(j, row, {})
      BY <1>1, <1>2, <1>3, <1>7, PersistEffect DEF row
    <2>2. task'[j] = task[j] /\ Owner(j, task[j]) /\ task[j] \in Tasks
      BY <1>1, <1>7, SameOwner
    <2>3. faults' = 0 => faults' = faults
      BY <1>1, <2>1 DEF TypeOK, StoreTyped
    <2>4. WorkRecorded(j)' /\ PendingKinds(j)'
      BY <1>1, <1>2, <1>4, <2>1, <2>2 DEF JobInv, WorkRecorded, PendingKinds,
            Becomes
    <2>5. OwnerFits(j)'
      BY <1>5, <2>1, <2>2 DEF OwnerFits, Fits, Becomes
    <2>6. Owned(j)' /\ FamilyOwned(j)' /\ Agreed(j)' /\ Down(j)'
      BY <1>1, <1>2, <2>1, <2>2, <2>3 DEF Owned, FamilyOwned, Agreed, Down,
            Becomes, AtWork
    <2>7. JobInv(j)'
      BY <2>4, <2>5, <2>6 DEF JobInv
    <2> QED BY <1>1, <1>2, <2>1, <2>2, <2>7, StepPreserves
  <1>8. ASSUME NEW o \in Failures, NEW u \in Outcomes, Owner(j, "none"),
               Leaves(Update(Update(Store, j, memory[j].status, o),
                             j, "FAILED", u), Cost(o, u))
        PROVE  IInv'
    <2>1. /\ StoreTyped /\ \A i \in Jobs \ {j} : Kept(i)
          /\ Becomes(j, Stamp(memory[j], "FAILED"), {row})
      BY <1>1, <1>2, <1>3, <1>8, LostOutcomeEffect DEF row
    <2>2. /\ Stamp(memory[j], "FAILED").status \in Terminal
          /\ row.status # "PENDING"
      BY <1>1, <1>2, <1>4, StampRow DEF Terminal
    <2> QED BY <1>1, <1>2, <1>8, <2>1, <2>2, EndPreserves
  <1> QED BY <1>6, <1>7, <1>8 DEF Progress

LEMMA RequestCancelPreserves ==
  ASSUME IInv, NEW j \in Jobs, RequestCancel(j)
  PROVE  IInv'
  <1>1. /\ TypeOK /\ JobInv(j) /\ phase = "up" /\ UNCHANGED Process
        /\ UNCHANGED task /\ memory[j].status \in {"RUNNING", "PENDING"}
        /\ "CANCELLING" \in Statuses
    BY DEF IInv, RequestCancel, Statuses
  <1>2. memory[j] \in Row
    BY <1>1, RowOf
  <1> DEFINE row == [Stamp(memory[j], "CANCELLING") EXCEPT
                        !.before_start = (memory[j].status = "PENDING")]
  <1>3. /\ row \in Row
        /\ row.status = "CANCELLING" /\ row.kind = memory[j].kind
        /\ row.before_start = (memory[j].status = "PENDING")
    BY <1>1, <1>2 DEF Stamp, Row
  <1>4. /\ CancelTable(j) \in Tables
        /\ CancelTable(j)[j] = row
        /\ \A i \in Jobs \ {j} : CancelTable(j)[i] = memory[i]
    BY <1>1, <1>3 DEF CancelTable, TypeOK, Tables
  <1> HIDE DEF row
  <1>5. Ev(row) = row
    BY <1>3 DEF Ev, Evictable, Terminal
  <1>6. task[j] \in AtWork <=> memory[j].status = "RUNNING"
    BY <1>1 DEF JobInv, Owned, WorkRecorded, Interrupted, CrashStatuses,
          CancelledBeforeStart
  <1>7. task[j] # "none"
    BY <1>1 DEF JobInv, Owned
  <1>8. Interrupted(row) <=> task[j] \in AtWork
    BY <1>1, <1>3, <1>6 DEF Interrupted, CancelledBeforeStart, CrashStatuses
  <1>9. Fits(row, task[j])
    BY <1>1, <1>3, <1>7, <1>8 DEF Fits, JobInv, OwnerFits, Unclaimed
  <1>10. CASE Commit(CancelTable(j))
    BY <1>1, <1>4, <1>5, <1>9, <1>10, SameOwner, CommitPreserves
  <1>11. CASE Refuse(CancelTable(j))
    <2>1. /\ StoreTyped /\ \A i \in Jobs \ {j} : Kept(i)
          /\ Undone(j, row)
      BY <1>1, <1>4, <1>11, TouchEffect
    <2> QED BY <1>1, <1>3, <1>5, <1>8, <2>1, UndonePreserves
  <1> QED BY <1>10, <1>11 DEF RequestCancel

(* A compare-and-set of a job nobody works on, to a status that needs no   *)
(* owner, with whatever task waits for it left alone.                      *)
LEMMA CasPreserves ==
  ASSUME IInv, NEW j \in Jobs, phase = "up", UNCHANGED Process,
         UNCHANGED task, memory[j] \in Row, NEW status \in Statuses,
         status \notin {"PENDING", "RUNNING", "CANCELLING"},
         task[j] \in {"none", "waiting", "spawned"},
         task[j] = "none" \/ memory[j].kind = "ingest",
         Commit(With(j, status)) \/ Refuse(With(j, status))
  PROVE  IInv'
  <1>1. TypeOK /\ task[j] \notin AtWork
    BY DEF IInv, AtWork
  <1> DEFINE row == Stamp(memory[j], status)
  <1>2. /\ With(j, status) \in Tables /\ With(j, status)[j] = row
        /\ \A i \in Jobs \ {j} : With(j, status)[i] = memory[i]
        /\ Ev(row) = row /\ row.status = status /\ row.kind = memory[j].kind
    BY <1>1, WithFacts, StampRow
  <1> HIDE DEF row
  <1>3. Fits(row, task[j])
    BY <1>1, <1>2 DEF Fits, Interrupted, CrashStatuses
  <1>4. CASE Commit(With(j, status))
    BY <1>1, <1>2, <1>3, <1>4, SameOwner, CommitPreserves
  <1>5. CASE Refuse(With(j, status))
    <2>1. /\ StoreTyped /\ \A i \in Jobs \ {j} : Kept(i)
          /\ Undone(j, row)
      BY <1>1, <1>2, <1>5, TouchEffect
    <2> QED BY <1>1, <1>2, <2>1, UndonePreserves
  <1> QED BY <1>4, <1>5

LEMMA ResumePreserves ==
  ASSUME IInv, NEW j \in Jobs, Resume(j)
  PROVE  IInv'
  <1>1. /\ TypeOK /\ JobInv(j) /\ phase = "up" /\ UNCHANGED Process
        /\ UNCHANGED task /\ memory[j].kind \in Bulk
        /\ memory[j].status = "FAILED" /\ "QUEUED" \in Statuses
        /\ Commit(With(j, "QUEUED")) \/ Refuse(With(j, "QUEUED"))
    BY DEF IInv, Resume, Statuses
  <1>2. task[j] = "none"
    BY <1>1 DEF JobInv, OwnerFits, WorkRecorded, Interrupted, CrashStatuses,
          AtWork, Unclaimed, Bulk, TypeOK, Tasks
  <1> QED BY <1>1, <1>2, RowOf, CasPreserves

LEMMA ExpireRetryPreserves ==
  ASSUME IInv, NEW j \in Jobs, ExpireRetry(j)
  PROVE  IInv'
  <1>1. /\ TypeOK /\ JobInv(j) /\ phase = "up" /\ UNCHANGED Process
        /\ UNCHANGED task /\ memory[j].kind = "ingest"
        /\ memory[j].status = "FAILED" /\ "FAILED_EXPIRED" \in Statuses
        /\ \/ Commit(With(j, "FAILED_EXPIRED"))
           \/ Refuse(With(j, "FAILED_EXPIRED"))
    BY DEF IInv, ExpireRetry, Statuses, Terminal
  <1>2. task[j] \in {"none", "waiting", "spawned"}
    BY <1>1 DEF JobInv, OwnerFits, WorkRecorded, Interrupted, CrashStatuses,
          AtWork, Unclaimed, TypeOK, Tasks
  <1> QED BY <1>1, <1>2, RowOf, CasPreserves

LEMMA CancelIngestRetriesPreserves ==
  ASSUME IInv, NEW c \in Collections, CancelIngestRetries(c)
  PROVE  IInv'
  <1> DEFINE t == WithRetriesCancelled(memory, c)
             picked == RetryCandidates(memory, c)
  <1>1. /\ TypeOK /\ phase = "up" /\ phase' = phase /\ UNCHANGED Process
        /\ UNCHANGED task /\ "CANCELLED" \in Statuses
        /\ Commit(t) \/ Refuse(t)
    BY DEF IInv, CancelIngestRetries, Process, Statuses, Terminal
  <1>2. \A i \in picked : /\ memory[i].kind = "ingest" /\ i \in Jobs
                          /\ memory[i].status \in {"FAILED", "PENDING"}
                          /\ memory[i] \in Row
    BY <1>1, RowOf DEF RetryCandidates
  <1> HIDE DEF picked
  <1>3. /\ t \in Tables
        /\ \A i \in picked : t[i] = Stamp(memory[i], "CANCELLED")
        /\ \A i \in Jobs \ picked : t[i] = memory[i]
    <2>1. t = [i \in Jobs |-> IF i \in picked THEN Stamp(memory[i], "CANCELLED")
                                             ELSE memory[i]]
      BY DEF WithRetriesCancelled, picked
    <2>2. \A i \in picked : Stamp(memory[i], "CANCELLED") \in Row
      BY <1>1, <1>2, StampRow
    <2> HIDE DEF t
    <2>3. \A i \in Jobs : memory[i] \in Row \cup {NoRow}
      BY <1>1 DEF TypeOK, Tables
    <2> QED BY <1>2, <2>1, <2>2, <2>3 DEF Tables
  <1> HIDE DEF t
  <1>4. \A i \in picked :
           /\ Ev(t[i]) = t[i] /\ t[i].status = "CANCELLED"
           /\ t[i].kind = "ingest" /\ task[i] \in {"none", "waiting", "spawned"}
    <2> SUFFICES ASSUME NEW i \in picked
                 PROVE  /\ Ev(t[i]) = t[i] /\ t[i].status = "CANCELLED"
                        /\ t[i].kind = "ingest"
                        /\ task[i] \in {"none", "waiting", "spawned"}
      OBVIOUS
    <2>1. JobInv(i) /\ task[i] \in Tasks
      BY <1>1, <1>2 DEF IInv, TypeOK
    <2>2. task[i] \in {"none", "waiting", "spawned"}
      BY <1>2, <2>1 DEF JobInv, OwnerFits, WorkRecorded, Interrupted,
            CrashStatuses, AtWork, Unclaimed, Tasks, Bulk
    <2> QED BY <1>1, <1>2, <1>3, <2>2, StampRow
  <1>5. \A i \in picked : Fits(t[i], task[i])
    BY <1>4 DEF Fits, Interrupted, CrashStatuses, AtWork, Unclaimed
  <1>6. StoreTyped /\ (\A i \in Jobs \ picked : Kept(i))
    BY <1>1, <1>3, CommitEffect, RefuseEffect DEF Kept, Undone
  <1>7. ASSUME NEW i \in Jobs \ picked PROVE JobInv(i)'
    BY <1>1, <1>6, KeptPreserves DEF IInv
  <1>8. ASSUME NEW i \in picked PROVE JobInv(i)'
    <2>1. JobInv(i) /\ task[i] \in Tasks /\ i \in Jobs /\ task'[i] = task[i]
      BY <1>1, <1>2 DEF IInv, TypeOK
    <2>2. CASE Commit(t)
      <3>1. memory'[i] = t[i] /\ file'[i] = t[i]
        BY <1>1, <1>3, <1>4, <2>1, <2>2, CommitEffect
      <3> QED BY <1>1, <1>5, <2>1, <3>1, FitsJob
    <2>3. CASE Refuse(t)
      <3>1. Undone(i, t[i])
        BY <1>1, <1>3, <2>1, <2>3, RefuseEffect
      <3>2. Ev(t[i]).status # "PENDING" /\ task[i] \notin AtWork
        BY <1>4 DEF AtWork
      <3> QED BY <1>1, <1>6, <2>1, <3>1, <3>2, UndoneJob
    <2> QED BY <1>1, <2>2, <2>3
  <1>9. TypeOK'
    BY <1>1, <1>6 DEF TypeOK, StoreTyped, Process
  <1>10. DeathKnown'
    BY <1>1, <1>6 DEF IInv, DeathKnown, Process, StoreTyped, TypeOK
  <1> QED BY <1>7, <1>8, <1>9, <1>10 DEF IInv

LEMMA AgePreserves ==
  ASSUME IInv, NEW j \in Jobs, Age(j)
  PROVE  IInv'
  <1>1. /\ TypeOK /\ UNCHANGED <<task, faults>> /\ UNCHANGED Process
        /\ memory' = [memory EXCEPT ![j] = Aged(memory[j])]
        /\ file' = [file EXCEPT ![j] = Aged(file[j])]
    BY DEF IInv, Age
  <1>2. \A row \in Rows : /\ Aged(row) \in Rows
                          /\ Aged(row).status = row.status
                          /\ Aged(row).kind = row.kind
                          /\ Aged(row).before_start = row.before_start
                          /\ row = NoRow => Aged(row) = NoRow
    BY DEF Aged, Rows, Row
  <1>3. memory[j] \in Rows /\ file[j] \in Rows
    BY <1>1 DEF TypeOK, Tables, Rows
  <1>4. TypeOK'
    BY <1>1, <1>2, <1>3 DEF TypeOK, Tables, Rows, Process
  <1>5. \A i \in Jobs :
           /\ memory'[i].status = memory[i].status
           /\ memory'[i].kind = memory[i].kind
           /\ memory'[i].before_start = memory[i].before_start
           /\ memory[i] = NoRow => memory'[i] = NoRow
           /\ file'[i].status = file[i].status
           /\ file'[i].kind = file[i].kind
           /\ file'[i].before_start = file[i].before_start
           /\ file[i] = memory[i] => file'[i] = memory'[i]
    BY <1>1, <1>2, <1>3 DEF TypeOK, Tables
  <1>6. \A i \in Jobs : JobInv(i)'
    <2> SUFFICES ASSUME NEW i \in Jobs PROVE JobInv(i)'
      OBVIOUS
    <2>1. JobInv(i)
      BY DEF IInv
    <2> QED BY <1>1, <1>5, <2>1 DEF JobInv, WorkRecorded, PendingKinds,
          OwnerFits, Owned, FamilyOwned, Agreed, Down, Process, Interrupted,
          CancelledBeforeStart
  <1>7. CrashedIngestOnLoad(file)' <=> CrashedIngestOnLoad(file)
    BY <1>5 DEF CrashedIngestOnLoad, Interrupted, CancelledBeforeStart
  <1>8. DeathKnown'
    BY <1>1, <1>7 DEF IInv, DeathKnown, Process
  <1> QED BY <1>4, <1>6, <1>8 DEF IInv

LEMMA BeginShutdownPreserves ==
  ASSUME IInv, BeginShutdown
  PROVE  IInv'
  <1>1. \A i \in Jobs : JobInv(i)'
    BY DEF IInv, BeginShutdown, JobInv, WorkRecorded, PendingKinds, OwnerFits,
          Owned, FamilyOwned, Agreed, Down
  <1>2. TypeOK' /\ DeathKnown'
    BY DEF IInv, BeginShutdown, TypeOK, DeathKnown
  <1> QED BY <1>1, <1>2 DEF IInv

LEMMA StopTaskPreserves ==
  ASSUME IInv, NEW j \in Jobs, StopTask(j)
  PROVE  IInv'
  <1>1. /\ TypeOK /\ JobInv(j) /\ phase = "stopping" /\ UNCHANGED Process
        /\ Owner(j, "none") /\ "none" \in Tasks
        /\ task[j] \notin {"none", "dispatched"}
    BY DEF IInv, StopTask, Tasks
  <1>2. task'[j] = "none"
    BY <1>1 DEF TypeOK, Owner
  <1>3. PICK status \in StoppedStatuses(j) :
           IF status = memory[j].status THEN UNCHANGED <<memory, file, faults>>
                                        ELSE Persist(j, status)
    BY DEF StopTask
  <1>4. status = memory[j].status \/ status \in {"CANCELLED", "FAILED"}
    BY <1>3 DEF StoppedStatuses
  <1>5. CASE status = memory[j].status
    <2>1. memory[j].kind \in IngestFamily => ~Interrupted(memory[j])
      <3> SUFFICES ASSUME memory[j].kind \in IngestFamily,
                          Interrupted(memory[j])
                   PROVE  FALSE
        OBVIOUS
      <3>1. task[j] = "working"
        BY <1>1 DEF JobInv, FamilyOwned, AtWork
      <3>2. status = "CANCELLED"
        BY <1>3, <3>1 DEF StoppedStatuses, IngestFamily
      <3> QED BY <1>5, <3>2 DEF Interrupted, CrashStatuses
    <2>2. JobInv(j)'
      BY <1>1, <1>2, <1>3, <1>5, <2>1 DEF JobInv, WorkRecorded, PendingKinds,
            OwnerFits, Owned, FamilyOwned, Agreed, Down, AtWork, Process
    <2> QED BY <1>1, <1>3, <1>5, <2>2, HandOver
  <1>6. CASE status # memory[j].status
    <2>1. memory[j].kind # "none"
      BY <1>3, <1>6 DEF StoppedStatuses
    <2>2. memory[j] \in Row
      BY <1>1, <2>1, NoRowFacts DEF TypeOK, Tables
    <2>3. status \in Terminal
      BY <1>4, <1>6 DEF Terminal
    <2> QED BY <1>1, <1>3, <1>6, <2>2, <2>3, PersistEnds
  <1> QED BY <1>5, <1>6

(* The process is gone: only the file stays.                               *)
LEMMA GoneFacts ==
  ASSUME IInv, Gone, died' \subseteq Jobs
  PROVE  /\ TypeOK'
         /\ \A i \in Jobs : JobInv(i)'
         /\ CrashedIngestOnLoad(file)' <=> CrashedIngestOnLoad(file)
  <1>1. TypeOK'
    BY DEF IInv, Gone, TypeOK, EmptyTable, Tables, Tasks
  <1>2. \A i \in Jobs : memory'[i] = NoRow /\ task'[i] = "none"
    BY DEF Gone, EmptyTable
  <1>3. \A i \in Jobs : JobInv(i)'
    BY <1>2, NoRowFacts DEF IInv, Gone, JobInv, WorkRecorded, PendingKinds,
          OwnerFits, Owned, FamilyOwned, Agreed, Down, AtWork
  <1> QED BY <1>1, <1>3 DEF Gone, CrashedIngestOnLoad

LEMMA ExitPreserves ==
  ASSUME IInv, Exit
  PROVE  IInv'
  <1>1. TypeOK' /\ (\A i \in Jobs : JobInv(i)')
        /\ (CrashedIngestOnLoad(file)' <=> CrashedIngestOnLoad(file))
    BY GoneFacts DEF Exit
  <1>2. faults = 0 => ~CrashedIngestOnLoad(file)
    <2> SUFFICES ASSUME faults = 0, NEW j \in Jobs,
                        file[j].kind \in IngestFamily, Interrupted(file[j])
                 PROVE  FALSE
      BY DEF CrashedIngestOnLoad
    <2>1. JobInv(j) /\ phase # "down" /\ task[j] \in {"none", "dispatched"}
      BY DEF IInv, Exit
    <2>2. task[j] \in AtWork /\ memory[j].kind \in IngestFamily
      BY <2>1 DEF JobInv, Agreed, FamilyOwned
    <2> QED BY <2>1, <2>2 DEF JobInv, OwnerFits, AtWork, Bulk, IngestFamily
  <1>3. DeathKnown'
    BY <1>1, <1>2 DEF DeathKnown, Exit, Gone
  <1> QED BY <1>1, <1>3 DEF IInv

LEMMA KillPreserves ==
  ASSUME IInv, Kill
  PROVE  IInv'
  <1>1. TypeOK' /\ (\A i \in Jobs : JobInv(i)')
        /\ (CrashedIngestOnLoad(file)' <=> CrashedIngestOnLoad(file))
    BY GoneFacts DEF Kill
  <1>2. died' # {} => CrashedIngestOnLoad(file)
    BY DEF Kill, IInv, JobInv, WorkRecorded, CrashedIngestOnLoad
  <1>3. faults = 0 /\ CrashedIngestOnLoad(file) => died' # {}
    <2> SUFFICES ASSUME faults = 0, NEW j \in Jobs,
                        file[j].kind \in IngestFamily, Interrupted(file[j])
                 PROVE  j \in died'
      BY DEF CrashedIngestOnLoad
    <2>1. JobInv(j) /\ phase # "down"
      BY DEF IInv, Kill
    <2>2. task[j] \in AtWork /\ memory[j].kind \in IngestFamily
      BY <2>1 DEF JobInv, Agreed, FamilyOwned
    <2> QED BY <2>2 DEF Kill
  <1>4. DeathKnown'
    BY <1>1, <1>2, <1>3 DEF DeathKnown, Kill, Gone
  <1> QED BY <1>1, <1>4 DEF IInv

(* What recovery makes of a row that satisfies PendingKinds.               *)
LEMMA RecoveredFacts ==
  ASSUME NEW row \in Rows,
         row.status = "PENDING" => row.kind \in NotStartedOnLoad
  PROVE  /\ Recovered(row) \in Rows
         /\ Ev(Recovered(row)) \in Rows
         /\ Ev(Recovered(row)).status \notin
               {"PENDING", "RUNNING", "CANCELLING"}
  <1>1. CASE row \in Row
    <2>1. /\ Stamp(row, "CANCELLED") \in Row
          /\ Stamp(row, "CANCELLED").status = "CANCELLED"
          /\ Stamp(row, "FAILED") \in Row
          /\ Stamp(row, "FAILED").status = "FAILED"
      BY <1>1, StampRow DEF Statuses, Terminal
    <2>2. Recovered(row) \in Row
      BY <1>1, <2>1 DEF Recovered
    <2>3. Recovered(row).status \notin {"PENDING", "RUNNING", "CANCELLING"}
      BY <2>1 DEF Recovered, Interrupted, NeverStarted, CrashStatuses,
            CancelledBeforeStart
    <2> QED BY <2>2, <2>3, EvRow, NoRowFacts DEF Rows, Ev
  <1>2. CASE row = NoRow
    <2>1. Recovered(row) = row
      BY <1>2, NoRowFacts DEF Recovered, Interrupted, NeverStarted,
            CrashStatuses, CancelledBeforeStart
    <2> QED BY <1>2, <2>1, EvRow, NoRowFacts DEF Rows, Ev
  <1> QED BY <1>1, <1>2 DEF Rows

LEMMA BootPreserves ==
  ASSUME IInv, Boot
  PROVE  IInv'
  <1>1. /\ TypeOK /\ phase = "down" /\ UNCHANGED <<task, died>>
    BY DEF IInv, Boot
  <1>2. \A i \in Jobs : /\ file[i] \in Rows /\ memory[i] = NoRow
                        /\ task[i] = "none" /\ task'[i] = "none"
                        /\ file[i].status = "PENDING" =>
                              file[i].kind \in NotStartedOnLoad
    BY <1>1 DEF IInv, TypeOK, Tables, Rows, JobInv, Down, PendingKinds
  <1>3. \A i \in Jobs : /\ Load(file)[i] = Ev(Recovered(file[i]))
                        /\ Load(file)[i] \in Rows
                        /\ Load(file)[i].status \notin
                              {"PENDING", "RUNNING", "CANCELLING"}
    BY <1>2, RecoveredFacts DEF Load, Evict, Ev
  <1>4. Load(file) \in Tables
    <2>1. Load(file) = [i \in Jobs |-> Load(file)[i]]
      BY DEF Load, Evict
    <2> QED BY <1>3, <2>1 DEF Tables, Rows
  <1>5. ASSUME memory' = Load(file), file' = Load(file), phase' = "up",
               faults' = faults, crashed' = CrashedIngestOnLoad(file),
               aborted' = aborted
        PROVE  IInv'
    <2>1. \A i \in Jobs : JobInv(i)'
      BY <1>2, <1>3, <1>5 DEF JobInv, WorkRecorded, PendingKinds, OwnerFits,
            Owned, FamilyOwned, Agreed, Down, AtWork, Interrupted,
            CrashStatuses
    <2>2. crashed' \in BOOLEAN
      BY <1>5 DEF CrashedIngestOnLoad
    <2>3. TypeOK'
      BY <1>1, <1>4, <1>5, <2>2 DEF TypeOK
    <2>4. DeathKnown'
      BY <1>1, <1>5 DEF IInv, DeathKnown
    <2> QED BY <2>1, <2>3, <2>4 DEF IInv
  <1>6. ASSUME NEW o \in Failures, UNCHANGED <<phase, crashed>>,
               Leaves([mem |-> EmptyTable,
                       file |-> Save(Store, Load(file), o).file], 1),
               aborted' = (aborted \/ o = "unconfirmed")
        PROVE  IInv'
    <2>1. Store \in Stores /\ o \in Outcomes /\ Store.file = file
      BY <1>1, StoreType DEF Failures, Store
    <2> DEFINE s == [mem |-> EmptyTable, file |-> Save(Store, Load(file), o).file]
    <2>2. EmptyTable \in Tables /\ (\A i \in Jobs : EmptyTable[i] = NoRow)
      BY DEF EmptyTable, Tables
    <2>3. /\ Save(Store, Load(file), o) \in Stores
          /\ \A i \in Jobs : Save(Store, Load(file), o).file[i]
                                \in {file[i], Ev(Load(file)[i])}
      BY <1>4, <2>1, SaveFacts
    <2>4. s \in Stores /\ s.mem = EmptyTable
          /\ s.file = Save(Store, Load(file), o).file
      BY <2>2, <2>3 DEF Stores
    <2> HIDE DEF s
    <2>5. /\ memory' = EmptyTable /\ memory' \in Tables /\ file' \in Tables
          /\ file' = Save(Store, Load(file), o).file
          /\ faults' \in 0 .. MaxFaults /\ faults' # 0
      BY <1>1, <1>6, <2>4, LeavesFacts DEF s, TypeOK, Leaves
    <2>6. \A i \in Jobs : file'[i].status = "PENDING" =>
                              file'[i].kind \in NotStartedOnLoad
      BY <1>2, <1>3, <2>3, <2>5, NoRowFacts DEF Ev
    <2>7. \A i \in Jobs : JobInv(i)'
      BY <1>1, <1>2, <1>6, <2>2, <2>5, <2>6, NoRowFacts DEF JobInv,
            WorkRecorded, PendingKinds, OwnerFits, Owned, FamilyOwned, Agreed,
            Down, AtWork
    <2>8. TypeOK'
      BY <1>1, <1>6, <2>5 DEF TypeOK
    <2>9. ~aborted' => file' = file
      BY <1>6, <2>1, <2>5 DEF Save, Failures, Outcomes
    <2>10. DeathKnown'
      BY <1>1, <1>6, <2>5, <2>9 DEF IInv, DeathKnown, CrashedIngestOnLoad
    <2> QED BY <2>7, <2>8, <2>10 DEF IInv
  <1>7. CASE Load(file) = file
    BY <1>1, <1>5, <1>7 DEF Boot, Leaves, TypeOK
  <1>8. CASE Load(file) # file
    BY <1>1, <1>5, <1>6, <1>8 DEF Boot, Leaves, TypeOK
  <1> QED BY <1>7, <1>8

-----------------------------------------------------------------------------
(* The named steps, in terms of the operators they share.                  *)
LEMMA TaskSteps ==
  ASSUME NEW j \in Jobs, TaskStep(j)
  PROVE  \/ RecordPointer(j) \/ GetLock(j) \/ ClaimIngest(j)
         \/ ClaimReindex(j) \/ EndReindex(j) \/ SchedulerClaim(j)
         \/ Succeed(j) \/ Fail(j) \/ Progress(j)
  BY DEF TaskStep, TaskEnds, Ends, IngestTask, ReindexTask, ExportTask,
         ImportTask, MigrationTask, ReindexMetadataTask,
         CommunityRebuildTask, SyncTask, DescribeTask

LEMMA Requests ==
  ASSUME NEW j \in Jobs, Request(j)
  PROVE  \/ \E kind \in Kinds, c \in Collections \cup {""} : Create(j, kind, c)
         \/ \E c \in Collections : RetryIngest(j, c)
         \/ RequestCancel(j) \/ Resume(j) \/ ExpireRetry(j)
  BY DEF Request, Post, PostIngest, PostReindex, PostExport, PostImport,
         PostMigrate, PostReindexMetadata, PostRebuildCommunities,
         PostDescribe, StartSync, Kinds

-----------------------------------------------------------------------------
(***************************************************************************)
(* The theorems.                                                           *)
(***************************************************************************)
LEMMA Initially == Init => IInv
  <1> SUFFICES ASSUME Init PROVE IInv
    OBVIOUS
  <1>1. \A i \in Jobs : memory[i] = NoRow /\ file[i] = NoRow /\ task[i] = "none"
    BY DEF Init, EmptyTable
  <1>2. TypeOK
    <2>1. EmptyTable \in Tables
      BY DEF EmptyTable, Tables
    <2>2. faults \in 0 .. MaxFaults
      BY BoundsAssumption DEF Init
    <2>3. task \in [Jobs -> Tasks] /\ phase \in {"up", "stopping", "down"}
      BY DEF Init, Tasks
    <2> QED BY <2>1, <2>2, <2>3 DEF Init, TypeOK
  <1>3. \A i \in Jobs : JobInv(i)
    BY <1>1, NoRowFacts DEF Init, JobInv, WorkRecorded, PendingKinds,
          OwnerFits, Owned, FamilyOwned, Agreed, Down, AtWork, Interrupted,
          CrashStatuses
  <1>4. DeathKnown
    BY DEF Init, DeathKnown
  <1> QED BY <1>2, <1>3, <1>4 DEF IInv

LEMMA Stutters == IInv /\ UNCHANGED vars => IInv'
  <1> SUFFICES ASSUME IInv, UNCHANGED vars PROVE IInv'
    OBVIOUS
  <1>1. TypeOK' /\ DeathKnown'
    BY DEF IInv, vars, TypeOK, DeathKnown, CrashedIngestOnLoad
  <1>2. \A i \in Jobs : JobInv(i)'
    BY DEF IInv, vars, JobInv, WorkRecorded, PendingKinds, OwnerFits, Owned,
          FamilyOwned, Agreed, Down
  <1> QED BY <1>1, <1>2 DEF IInv

LEMMA Preserves == IInv /\ [Next]_vars => IInv'
  <1> SUFFICES ASSUME IInv, [Next]_vars PROVE IInv'
    OBVIOUS
  <1>1. ASSUME NEW j \in Jobs, TaskStep(j) PROVE IInv'
    BY <1>1, RecordPointerPreserves, GetLockPreserves, ClaimIngestPreserves,
       ClaimReindexPreserves, EndReindexPreserves, SchedulerClaimPreserves,
       SucceedPreserves, FailPreserves, ProgressPreserves, TaskSteps
  <1>2. ASSUME NEW j \in Jobs, Request(j) PROVE IInv'
    BY <1>2, CreatePreserves, RetryIngestPreserves, RequestCancelPreserves,
       ResumePreserves, ExpireRetryPreserves, Requests
  <1>3. ASSUME NEW j \in Jobs, Age(j) \/ StopTask(j) PROVE IInv'
    BY <1>3, AgePreserves, StopTaskPreserves
  <1>4. ASSUME NEW c \in Collections, CancelIngestRetries(c) PROVE IInv'
    BY <1>4, CancelIngestRetriesPreserves
  <1>5. CASE BeginShutdown
    BY <1>5, BeginShutdownPreserves
  <1>6. CASE Exit \/ Kill \/ Boot
    BY <1>6, ExitPreserves, KillPreserves, BootPreserves
  <1>7. CASE UNCHANGED vars
    BY <1>7, Stutters
  <1> QED BY <1>1, <1>2, <1>3, <1>4, <1>5, <1>6, <1>7 DEF Next

(* The inductive invariant holds in every reachable state.                 *)
THEOREM Invariance == Spec => []IInv
  BY Initially, Preserves, PTL DEF Spec

(* The state variables keep their types: in particular the store never     *)
(* holds a row of an unknown kind or status, whatever writes fail.         *)
THEOREM TypeCorrect == Spec => []TypeOK
  <1>1. IInv => TypeOK
    BY DEF IInv
  <1> QED BY Invariance, <1>1, PTL

(* Work in progress is always recorded as running, in memory and on disk.  *)
THEOREM WorkIsRecorded == Spec => []RunningIsRecorded
  <1>1. IInv => RunningIsRecorded
    BY DEF IInv, JobInv, WorkRecorded, RunningIsRecorded
  <1> QED BY Invariance, <1>1, PTL

(* No job of a running server is left without a task that ends it.         *)
THEOREM NoJobAbandoned == Spec => []EveryJobOwned
  <1>1. IInv => EveryJobOwned
    BY DEF IInv, JobInv, Owned, EveryJobOwned
  <1> QED BY Invariance, <1>1, PTL

(* A process that died during an ingest or sync arms the crash-loop guard  *)
(* of the next one.                                                        *)
THEOREM CrashIsNoticed == Spec => []GuardArmed
  <1>1. IInv => GuardArmed
    BY DEF IInv, DeathKnown, GuardArmed
  <1> QED BY Invariance, <1>1, PTL

(* Without failed writes the guard is armed only by such a death.          *)
THEOREM OnlyCrashesAlarm == Spec => []NoFalseAlarm
  <1>1. IInv => NoFalseAlarm
    BY DEF IInv, DeathKnown, NoFalseAlarm
  <1> QED BY Invariance, <1>1, PTL

(* Both directions: the guard is armed by a death at work and by nothing   *)
(* else.                                                                   *)
THEOREM GuardIsExact == Spec => []GuardExact
  <1>1. GuardArmed /\ NoFalseAlarm => GuardExact
    BY DEF GuardExact
  <1> QED BY CrashIsNoticed, OnlyCrashesAlarm, <1>1, PTL

-----------------------------------------------------------------------------
(***************************************************************************)
(* Final statuses.                                                         *)
(***************************************************************************)
Settled(i) ==
    memory[i].status \in Terminal /\ phase' # "down" =>
        memory'[i].status \in
            {memory[i].status, "ABSENT"} \cup MovesOn(memory[i])

(* The step writes no row but j's, except that it may evict old ones.      *)
OnlyTouches(j) ==
    \A i \in Jobs \ {j} : memory'[i] \in {memory[i], Ev(memory[i])}

LEMMA KeepingSettles ==
  ASSUME TypeOK, NEW i \in Jobs, memory'[i] \in {memory[i], Ev(memory[i])}
  PROVE  Settled(i)
  BY NoRowFacts DEF Settled, Ev

LEMMA TouchingSettles ==
  ASSUME TypeOK, NEW j \in Jobs, OnlyTouches(j), Settled(j)
  PROVE  \A i \in Jobs : Settled(i)
  BY KeepingSettles DEF OnlyTouches

LEMMA RefusalKeeps ==
  ASSUME TypeOK, NEW t \in Tables, Refuse(t)
  PROVE  \A i \in Jobs : memory'[i] = Ev(memory[i])
  BY RefuseEffect DEF Undone

(* Every form of write of job j touches no other job.                      *)
LEMMA WritesTouch ==
  ASSUME TypeOK, NEW j \in Jobs, memory[j] \in Row, NEW status \in Statuses
  PROVE  /\ Persist(j, status) => OnlyTouches(j)
         /\ Commit(With(j, status)) =>
               OnlyTouches(j) /\ memory'[j] = Stamp(memory[j], status)
         /\ Refuse(With(j, status)) =>
               OnlyTouches(j) /\ memory'[j] = Ev(memory[j])
         /\ \A o \in Failures, u \in Outcomes :
               Leaves(Update(Update(Store, j, status, o), j, "FAILED", u),
                      Cost(o, u)) => OnlyTouches(j)
         /\ \A o \in Outcomes :
               Leaves(Update(Save(Store, With(j, status), "ok"), j, "FAILED", o),
                      Cost(o, "ok")) => OnlyTouches(j)
  <1>1. /\ With(j, status) \in Tables /\ With(j, status)[j] \in Row
        /\ Ev(With(j, status)[j]) = With(j, status)[j]
        /\ With(j, status)[j] = Stamp(memory[j], status)
        /\ \A i \in Jobs \ {j} : With(j, status)[i] = memory[i]
    BY WithFacts, StampRow
  <1>2. Persist(j, status) => OnlyTouches(j)
    BY PersistEffect DEF OnlyTouches, Kept
  <1>3. Commit(With(j, status)) =>
           OnlyTouches(j) /\ memory'[j] = Stamp(memory[j], status)
    BY <1>1, TouchEffect DEF OnlyTouches, Kept
  <1>4. Refuse(With(j, status)) =>
           OnlyTouches(j) /\ memory'[j] = Ev(memory[j])
    BY <1>1, RefusalKeeps DEF OnlyTouches
  <1>5. ASSUME NEW o \in Failures, NEW u \in Outcomes,
               Leaves(Update(Update(Store, j, status, o), j, "FAILED", u),
                      Cost(o, u))
        PROVE  OnlyTouches(j)
    BY <1>5, LostOutcomeEffect DEF OnlyTouches, Kept
  <1>6. ASSUME NEW o \in Outcomes,
               Leaves(Update(Save(Store, With(j, status), "ok"), j, "FAILED", o),
                      Cost(o, "ok"))
        PROVE  OnlyTouches(j)
    BY <1>1, <1>6, FailedAfterEffect DEF OnlyTouches, Kept
  <1> QED BY <1>2, <1>3, <1>4, <1>5, <1>6

(* A step on a job that is not terminal, or that leaves memory alone.      *)
LEMMA LiveSettles ==
  ASSUME TypeOK, NEW j \in Jobs,
         \/ UNCHANGED memory
         \/ OnlyTouches(j) /\ memory[j].status \notin Terminal
  PROVE  \A i \in Jobs : Settled(i)
  BY KeepingSettles, TouchingSettles DEF Settled

LEMMA TaskStepSettles ==
  ASSUME IInv, NEW j \in Jobs, TaskStep(j)
  PROVE  \A i \in Jobs : Settled(i)
  <1>1. /\ TypeOK /\ JobInv(j) /\ "FAILED" \in Statuses
        /\ "RUNNING" \in Statuses /\ "CANCELLED" \in Statuses
        /\ \A status \in Unclaimed \cup {"QUEUED", "RUNNING"} :
              status \notin Terminal /\ status # "ABSENT"
    BY DEF IInv, Statuses, Terminal, Unclaimed
  <1>2. CASE RecordPointer(j)
    <2>1. CASE UNCHANGED memory
      BY <1>1, <2>1, LiveSettles
    <2>2. CASE Persist(j, "FAILED")
      <3>1. memory[j].status \in Unclaimed
        BY <1>1, <1>2 DEF RecordPointer, JobInv, OwnerFits
      <3> QED BY <1>1, <2>2, <3>1, RowOf, WritesTouch, LiveSettles
    <2> QED BY <1>2, <2>1, <2>2 DEF RecordPointer
  <1>3. CASE GetLock(j)
    BY <1>1, <1>3, LiveSettles DEF GetLock
  <1>4. CASE ClaimIngest(j)
    <2>1. CASE UNCHANGED memory
      BY <1>1, <2>1, LiveSettles
    <2>2. CASE memory[j].status \in Unclaimed
      <3>1. memory[j] \in Row /\ memory[j].status \notin Terminal
        BY <1>1, <2>2, RowOf
      <3>2. CASE Commit(With(j, "RUNNING")) \/ Persist(j, "CANCELLED")
        BY <1>1, <3>1, <3>2, WritesTouch, LiveSettles
      <3>3. ASSUME memory[j].status = "PENDING", NEW o \in Failures,
                   NEW r \in Outcomes, NEW u \in Outcomes,
                   Leaves(Update(RollBack(Store, With(j, "RUNNING"), o, r),
                                 j, "FAILED", u), Cost(o, r) + Cost(u, "ok"))
            PROVE  OnlyTouches(j)
        BY <1>1, <3>1, <3>3, ClaimFailedEffect DEF OnlyTouches, Kept
      <3> QED BY <1>1, <1>4, <2>1, <3>1, <3>2, <3>3, LiveSettles
              DEF ClaimIngest
    <2> QED BY <1>4, <2>1, <2>2 DEF ClaimIngest, Unclaimed
  <1>5. CASE ClaimReindex(j)
    <2>1. memory[j].status \in Unclaimed
      BY <1>1, <1>5 DEF ClaimReindex, JobInv, OwnerFits
    <2>2. memory[j] \in Row /\ memory[j].status \notin Terminal
      BY <1>1, <2>1, RowOf
    <2> QED BY <1>1, <1>5, <2>2, WritesTouch, LiveSettles DEF ClaimReindex
  <1>6. CASE EndReindex(j)
    <2>1. memory[j].status \in Unclaimed
      BY <1>1, <1>6 DEF EndReindex, JobInv, OwnerFits
    <2>2. memory[j] \in Row /\ memory[j].status \notin Terminal
      BY <1>1, <2>1, RowOf
    <2>3. PICK status \in Statuses : Persist(j, status)
      BY <1>1, <1>6 DEF EndReindex
    <2> QED BY <1>1, <2>2, <2>3, WritesTouch, LiveSettles
  <1>7. CASE SchedulerClaim(j)
    <2>1. memory[j] \in Row /\ memory[j].status \notin Terminal
      BY <1>1, <1>7, RowOf DEF SchedulerClaim
    <2>2. OnlyTouches(j)
      BY <1>1, <1>7, <2>1, WritesTouch DEF SchedulerClaim
    <2> QED BY <1>1, <2>1, <2>2, LiveSettles
  <1>8. CASE Succeed(j) \/ Fail(j) \/ Progress(j)
    <2>1. Runs(j)
      BY <1>8 DEF Succeed, Fail, Progress
    <2>2. memory[j] \in Row /\ memory[j].status \in {"RUNNING", "CANCELLING"}
      BY <1>1, <2>1, AtWorkRow
    <2>3. memory[j].status \in Statuses /\ memory[j].status \notin Terminal
      BY <1>1, <2>2 DEF Unclaimed, Row
    <2>4. SuccessStatuses(memory[j]) \subseteq Statuses
      BY DEF SuccessStatuses, Statuses, Terminal
    <2>5. CASE Succeed(j)
      <3>1. PICK status \in Statuses :
              \/ Commit(With(j, status))
              \/ Persist(j, status)
              \/ \E o \in Failures, u \in Outcomes :
                    Leaves(Update(Update(Store, j, status, o), j, "FAILED", u),
                           Cost(o, u))
        BY <2>4, <2>5 DEF Succeed
      <3>2. OnlyTouches(j)
        BY <1>1, <2>2, <3>1, WritesTouch
      <3> QED BY <1>1, <2>3, <3>2, LiveSettles
    <2>6. CASE Fail(j) \/ Progress(j)
      <3>1. OnlyTouches(j)
        BY <1>1, <2>2, <2>3, <2>6, WritesTouch DEF Fail, Progress
      <3> QED BY <1>1, <2>3, <3>1, LiveSettles
    <2> QED BY <1>8, <2>5, <2>6
  <1> QED BY <1>2, <1>3, <1>4, <1>5, <1>6, <1>7, <1>8, TaskSteps

LEMMA RequestSettles ==
  ASSUME IInv, NEW j \in Jobs, Request(j)
  PROVE  \A i \in Jobs : Settled(i)
  <1>1. TypeOK /\ JobInv(j) /\ {"QUEUED", "FAILED", "FAILED_EXPIRED"}
                                  \subseteq Statuses
    BY DEF IInv, Statuses, Terminal
  <1>2. "ABSENT" \notin Terminal
    BY DEF Terminal
  <1>3. ASSUME NEW kind \in Kinds, NEW c \in Collections \cup {""},
               Create(j, kind, c)
        PROVE  \A i \in Jobs : Settled(i)
    <2>1. /\ CreateTable(j, kind, c) \in Tables
          /\ \A i \in Jobs \ {j} : CreateTable(j, kind, c)[i] = memory[i]
      BY <1>1, NewRowFacts
    <2>2. OnlyTouches(j)
      BY <1>1, <1>3, <2>1, TouchEffect DEF Create, OnlyTouches, Kept
    <2>3. memory[j].status \notin Terminal
      BY <1>2, <1>3, NoRowFacts DEF Create, Unused
    <2> QED BY <1>1, <2>2, <2>3, LiveSettles
  <1>4. ASSUME NEW c \in Collections, RetryIngest(j, c)
        PROVE  \A i \in Jobs : Settled(i)
    <2>1. "ingest" \in Kinds
      BY DEF Kinds
    <2>2. /\ CreateTable(j, "ingest", c) \in Tables
          /\ CreateTable(j, "ingest", c)[j] \in Row
          /\ Ev(CreateTable(j, "ingest", c)[j]) = CreateTable(j, "ingest", c)[j]
          /\ \A i \in Jobs \ {j} : CreateTable(j, "ingest", c)[i] = memory[i]
      BY <1>1, <2>1, NewRowFacts
    <2>3. ASSUME NEW o \in Outcomes,
                 Leaves(Update(Save(Store, CreateTable(j, "ingest", c), "ok"),
                               j, "FAILED", o), Cost(o, "ok"))
          PROVE  OnlyTouches(j)
      BY <1>1, <2>2, <2>3, FailedAfterEffect DEF OnlyTouches, Kept
    <2>4. ASSUME \/ Commit(CreateTable(j, "ingest", c))
                 \/ Refuse(CreateTable(j, "ingest", c))
          PROVE  OnlyTouches(j)
      BY <1>1, <2>2, <2>4, TouchEffect DEF OnlyTouches, Kept
    <2>5. OnlyTouches(j)
      BY <1>4, <2>3, <2>4 DEF RetryIngest
    <2>6. memory[j].status \notin Terminal
      BY <1>2, <1>4, NoRowFacts DEF RetryIngest, Unused
    <2> QED BY <1>1, <2>5, <2>6, LiveSettles
  <1>5. CASE RequestCancel(j)
    <2>1. memory[j].status \in {"RUNNING", "PENDING"} /\ memory[j] \in Row
      BY <1>1, <1>5, RowOf DEF RequestCancel
    <2>2. [Stamp(memory[j], "CANCELLING") EXCEPT
              !.before_start = (memory[j].status = "PENDING")] \in Row
      BY <2>1 DEF Stamp, Row, Statuses
    <2>3. /\ CancelTable(j) \in Tables
          /\ \A i \in Jobs \ {j} : CancelTable(j)[i] = memory[i]
      BY <1>1, <2>2 DEF CancelTable, TypeOK, Tables
    <2>4. OnlyTouches(j)
      BY <1>1, <1>5, <2>3, TouchEffect DEF RequestCancel, OnlyTouches, Kept
    <2> QED BY <1>1, <2>1, <2>4, LiveSettles DEF Terminal
  <1>6. CASE Resume(j)
    <2>1. /\ memory[j].status = "FAILED" /\ memory[j].kind \in Bulk
          /\ memory[j] \in Row
      BY <1>1, <1>6, RowOf DEF Resume
    <2>2. /\ OnlyTouches(j)
          /\ memory'[j] \in {Stamp(memory[j], "QUEUED"), Ev(memory[j])}
      BY <1>1, <1>6, <2>1, WritesTouch DEF Resume
    <2>3. Stamp(memory[j], "QUEUED").status \in MovesOn(memory[j])
      BY <1>1, <2>1, StampRow DEF MovesOn
    <2>4. Settled(j)
      BY <1>1, <2>2, <2>3, KeepingSettles DEF Settled
    <2> QED BY <1>1, <2>2, <2>4, TouchingSettles
  <1>7. CASE ExpireRetry(j)
    <2>1. /\ memory[j].status = "FAILED" /\ memory[j].kind = "ingest"
          /\ memory[j] \in Row
      BY <1>1, <1>7, RowOf DEF ExpireRetry
    <2>2. /\ OnlyTouches(j)
          /\ memory'[j] \in {Stamp(memory[j], "FAILED_EXPIRED"),
                              Ev(memory[j])}
      BY <1>1, <1>7, <2>1, WritesTouch DEF ExpireRetry
    <2>3. Stamp(memory[j], "FAILED_EXPIRED").status \in MovesOn(memory[j])
      BY <1>1, <2>1, StampRow DEF MovesOn, Bulk
    <2>4. Settled(j)
      BY <1>1, <2>2, <2>3, KeepingSettles DEF Settled
    <2> QED BY <1>1, <2>2, <2>4, TouchingSettles
  <1> QED BY <1>3, <1>4, <1>5, <1>6, <1>7, Requests

LEMMA StopTaskSettles ==
  ASSUME IInv, NEW j \in Jobs, StopTask(j)
  PROVE  \A i \in Jobs : Settled(i)
  <1>1. /\ TypeOK /\ JobInv(j) /\ task[j] \notin {"none", "dispatched"}
    BY DEF IInv, StopTask
  <1>2. PICK status \in StoppedStatuses(j) :
           IF status = memory[j].status THEN UNCHANGED <<memory, file, faults>>
                                        ELSE Persist(j, status)
    BY DEF StopTask
  <1>3. CASE status = memory[j].status
    BY <1>1, <1>2, <1>3, LiveSettles
  <1>4. CASE status # memory[j].status
    <2>1. status \in Statuses
      BY <1>2, <1>4 DEF StoppedStatuses, Statuses, Terminal
    <2>2. task[j] = "working" \/ memory[j].status = "CANCELLING"
      BY <1>1, <1>2, <1>4 DEF StoppedStatuses, JobInv, OwnerFits, TypeOK, Tasks
    <2>3. memory[j].status \in {"RUNNING", "CANCELLING"}
      BY <1>1, <2>2 DEF JobInv, WorkRecorded, AtWork, Interrupted,
            CrashStatuses
    <2>4. OnlyTouches(j)
      BY <1>1, <1>2, <1>4, <2>1, <2>3, RowOf, WritesTouch
    <2> QED BY <1>1, <2>3, <2>4, LiveSettles DEF Terminal
  <1> QED BY <1>3, <1>4

LEMMA CancelIngestRetriesSettles ==
  ASSUME IInv, NEW c \in Collections, CancelIngestRetries(c)
  PROVE  \A i \in Jobs : Settled(i)
  <1> DEFINE t == WithRetriesCancelled(memory, c)
             picked == RetryCandidates(memory, c)
  <1>1. /\ TypeOK /\ "CANCELLED" \in Statuses
        /\ Commit(t) \/ Refuse(t)
    BY DEF IInv, CancelIngestRetries, Statuses, Terminal
  <1>2. \A i \in picked : /\ memory[i].kind = "ingest" /\ i \in Jobs
                          /\ memory[i].status \in {"FAILED", "PENDING"}
                          /\ memory[i] \in Row
    BY <1>1, RowOf DEF RetryCandidates
  <1>3. t = [i \in Jobs |-> IF i \in picked THEN Stamp(memory[i], "CANCELLED")
                                           ELSE memory[i]]
    BY DEF WithRetriesCancelled
  <1> HIDE DEF picked, t
  <1>4. \A i \in picked : /\ Stamp(memory[i], "CANCELLED") \in Row
                          /\ Ev(Stamp(memory[i], "CANCELLED")).status
                                = "CANCELLED"
    BY <1>1, <1>2, StampRow
  <1>5. t \in Tables
    <2>1. \A i \in Jobs : memory[i] \in Row \cup {NoRow}
      BY <1>1 DEF TypeOK, Tables
    <2> QED BY <1>3, <1>4, <2>1 DEF Tables
  <1>6. ASSUME NEW i \in Jobs PROVE Settled(i)
    <2>1. CASE memory'[i] = Ev(memory[i])
      BY <1>1, <2>1, KeepingSettles
    <2>2. CASE i \in picked /\ memory'[i] = Ev(Stamp(memory[i], "CANCELLED"))
      BY <1>2, <1>4, <2>2 DEF Settled, MovesOn, Terminal, Bulk
    <2>3. memory'[i] = Ev(memory[i]) \/ memory'[i] = Ev(t[i])
      BY <1>1, <1>5, CommitEffect, RefusalKeeps
    <2> QED BY <1>3, <2>1, <2>2, <2>3
  <1> QED BY <1>6

LEMMA StepSettles ==
  ASSUME IInv, Next
  PROVE  \A i \in Jobs : Settled(i)
  <1>1. TypeOK
    BY DEF IInv
  <1>2. ASSUME NEW j \in Jobs, TaskStep(j) \/ Request(j) \/ StopTask(j)
        PROVE  \A i \in Jobs : Settled(i)
    BY <1>2, TaskStepSettles, RequestSettles, StopTaskSettles
  <1>3. ASSUME NEW j \in Jobs, Age(j) PROVE \A i \in Jobs : Settled(i)
    <2>1. /\ memory[j] \in Rows
          /\ memory' = [memory EXCEPT ![j] = Aged(memory[j])]
      BY <1>1, <1>3 DEF TypeOK, Tables, Rows, Age
    <2>2. Aged(memory[j]).status = memory[j].status
      BY <2>1 DEF Aged, Rows, Row
    <2>3. \A i \in Jobs : memory'[i].status = memory[i].status
      BY <1>1, <2>1, <2>2 DEF TypeOK, Tables
    <2> QED BY <2>3 DEF Settled
  <1>4. ASSUME NEW c \in Collections, CancelIngestRetries(c)
        PROVE  \A i \in Jobs : Settled(i)
    BY <1>4, CancelIngestRetriesSettles
  <1>5. CASE BeginShutdown
    BY <1>5 DEF BeginShutdown, Settled
  <1>6. CASE Exit \/ Kill
    BY <1>6 DEF Exit, Kill, Gone, Settled
  <1>7. CASE Boot
    <2>1. \A i \in Jobs : memory[i].status \notin Terminal
      BY <1>7, NoRowFacts DEF Boot, IInv, JobInv, Down, Terminal
    <2> QED BY <2>1 DEF Settled
  <1> QED BY <1>2, <1>3, <1>4, <1>5, <1>6, <1>7 DEF Next

(* No step of a living process changes a final status.                     *)
THEOREM FinalStatusHolds == Spec => FinalStatus
  <1>1. IInv /\ [Next]_vars =>
           [\A i \in Jobs : Settled(i)]_vars
    BY StepSettles
  <1>2. [\A i \in Jobs : Settled(i)]_vars =>
        [\A j \in Jobs :
           memory[j].status \in Terminal /\ phase' # "down" =>
              memory'[j].status \in
                {memory[j].status, "ABSENT"} \cup MovesOn(memory[j])]_vars
    BY DEF Settled
  <1> QED BY Invariance, <1>1, <1>2, PTL DEF Spec, FinalStatus
=============================================================================
