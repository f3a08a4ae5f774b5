--------------------- MODULE CollectionLifecycleProofs ---------------------
(***************************************************************************)
(* Proofs about CollectionLifecycle for every number of coroutines, every  *)
(* set of tenants and every choice of the operations they start.           *)
(***************************************************************************)
EXTENDS MCCollection, TLAPS

(* The lock and the program counters agree on who is in a critical         *)
(* section, so at most one actor is.                                       *)
LockHeld == \A a \in Actors : lock = a <=> act[a].pc \in Locked

(* The steps that reach the pipeline without the lock belong to operations *)
(* that a drop does not wait for, or whose jobs it sees.                   *)
OpFits ==
    \A a \in Actors :
        /\ At(a, "unlocked") => act[a].op = "foreign"
        /\ At(a, "import_start") => act[a].op = "import"
        /\ At(a, "prune") => act[a].op = "prune"
        /\ At(a, "settle") => act[a].op = "erase"

(* A batch about to store its rows owns the collection, and one that has   *)
(* just claimed it finds no rows: its claim may be taken back.             *)
ClaimHolds ==
    \A a \in Actors :
        At(a, "rows") /\ ~disowned =>
            /\ meta = Ns(a)
            /\ act[a].row => rows = {}

(* A DELETE about to remove the row has removed the rows.                  *)
DropEmpties == \A a \in Actors : At(a, "unmeta") => rows = {}

IInv ==
    /\ TypeOK
    /\ LockHeld
    /\ OpFits
    /\ DropExcludesWriters
    /\ ClaimHolds
    /\ DropEmpties
    /\ RowsOwned


-----------------------------------------------------------------------------
(***************************************************************************)
(* What a step does to the records: the one of its actor moves, and a      *)
(* DELETE ends pending ingests.                                            *)
(***************************************************************************)
Records == [Actors -> Acts]

(* A cancelled pending ingest's task ends, the other actors stay.          *)
Others(a) ==
    \A b \in Actors \ {a} :
        act'[b] = act[b] \/ (Pending(b) /\ act'[b] = Idle)

Moves(a, o, p) ==
    /\ act' \in Records
    /\ act'[a].op = o
    /\ act'[a].pc = p
    /\ Others(a)

(* Works and Writes are LockedJob and WriterAtWork of a record.            *)
Works(o, p) ==
    \/ o \in {"ingest", "retry"} /\ p \in Working
    \/ o \in {"reindex", "metadata"} /\ p \in Working \cup Recording

Writes(o, p) == o \in {"mcp", "sync"} /\ p \in Working

(* What the invariants ask of a step that leaves actor a in operation o at *)
(* p: the lock goes with p, a drop begins when nobody writes, nobody       *)
(* starts to write under another actor's lock.                             *)
Allowed(a, o, p) ==
    /\ lock' = a <=> p \in Locked
    /\ \/ lock' = lock
       \/ lock = "none" /\ lock' = a
       \/ lock = a /\ lock' = "none"
    /\ p \in Dropping => At(a, "drop") \/ ~Busy(a)
    /\ p \in Overwriting => At(a, "overwrite") \/ ~OtherJob(a)
    /\ lock \notin {"none", a} =>
          /\ Works(o, p) => Works(act[a].op, act[a].pc)
          /\ Writes(o, p) => Writes(act[a].op, act[a].pc)
    /\ p = "unlocked" => o = "foreign"
    /\ p = "import_start" => o = "import"
    /\ p = "prune" => o = "prune"
    /\ p = "settle" => o = "erase"

Good(a) == \E o \in Ops, p \in Pcs : Moves(a, o, p) /\ Allowed(a, o, p)

LEMMA IdleRecord == Idle \in Acts /\ Idle.op = "none" /\ Idle.pc = "idle"
  BY DefaultAssumption DEF Idle, Acts, Ops, Pcs

LEMMA GotoGood ==
  ASSUME NEW a \in Actors, act \in Records, NEW p \in Pcs,
         Allowed(a, act[a].op, p), Goto(a, p)
  PROVE  Good(a)
<1>1. Moves(a, act[a].op, p)
  BY DEF Records, Moves, Others, Goto, Acts
<1>2. act[a].op \in Ops
  BY DEF Records, Acts
<1> QED
  BY <1>1, <1>2 DEF Good

LEMMA GotoWithGood ==
  ASSUME NEW a \in Actors, act \in Records, NEW p \in Pcs,
         Allowed(a, act[a].op, p), NEW row \in BOOLEAN, GotoWith(a, p, row)
  PROVE  Good(a)
<1>1. Moves(a, act[a].op, p)
  BY DEF Records, Moves, Others, GotoWith, Acts
<1>2. act[a].op \in Ops
  BY DEF Records, Acts
<1> QED
  BY <1>1, <1>2 DEF Good

LEMMA EndGood ==
  ASSUME NEW a \in Actors, act \in Records, Allowed(a, "none", "idle"), End(a)
  PROVE  Good(a)
<1>1. Moves(a, "none", "idle")
  BY IdleRecord DEF Records, Moves, Others, End
<1>2. "none" \in Ops /\ "idle" \in Pcs
  BY DEF Ops, Pcs
<1> QED
  BY <1>1, <1>2 DEF Good

LEMMA BeginGood ==
  ASSUME NEW a \in Actors, act \in Records, NEW o \in Ops, NEW p \in Pcs,
         NEW n \in Namespaces, NEW row \in BOOLEAN, NEW listed \in Nat,
         At(a, "idle") => Allowed(a, o, p),
         BeginWith(a, o, n, p, row, listed)
  PROVE  Good(a)
<1>1. Moves(a, o, p) /\ At(a, "idle")
  BY DEF Records, Moves, Others, BeginWith, Acts
<1> QED
  BY <1>1 DEF Good

LEMMA CancelGood ==
  ASSUME NEW a \in Actors, act \in Records, NEW x \in Acts,
         Allowed(a, x.op, x.pc), CancelIngestRetries(a, x)
  PROVE  Good(a)
<1>1. ASSUME act' = [b \in Actors |-> IF b = a THEN x
                                      ELSE IF Pending(b) THEN Idle ELSE act[b]]
      PROVE  Moves(a, x.op, x.pc)
  BY <1>1, IdleRecord DEF Records, Moves, Others
<1>2. ASSUME act' = [act EXCEPT ![a] = x]
      PROVE  Moves(a, x.op, x.pc)
  BY <1>2 DEF Records, Moves, Others
<1>3. Moves(a, x.op, x.pc)
  BY <1>1, <1>2 DEF CancelIngestRetries
<1>4. x.op \in Ops /\ x.pc \in Pcs
  BY DEF Acts
<1> QED
  BY <1>3, <1>4 DEF Good

(* The program counters, one by one.                                       *)
LEMMA PcFacts ==
  /\ "delete_wait" \in Pcs /\ "stub_wait" \in Pcs /\ "add_wait" \in Pcs
  /\ "post_wait" \in Pcs /\ "retry_wait" \in Pcs /\ "missing_wait" \in Pcs
  /\ "batch_wait" \in Pcs /\ "erase_wait" \in Pcs /\ "recompute_wait" \in Pcs
  /\ "create_wait" \in Pcs /\ "rewrite_wait" \in Pcs /\ "patch_wait" \in Pcs
  /\ "overwrite_wait" \in Pcs /\ "register_wait" \in Pcs /\ "syncdrop_wait" \in Pcs
  /\ "idle" \in Pcs /\ "append" \in Pcs /\ "undo" \in Pcs
  /\ "unlocked" \in Pcs /\ "dispatch" \in Pcs /\ "run" \in Pcs
  /\ "ensure" \in Pcs /\ "import_start" \in Pcs /\ "prune" \in Pcs
  /\ "settle" \in Pcs /\ "drop" \in Pcs /\ "unmeta" \in Pcs
  /\ "adding" \in Pcs /\ "undo_locked" \in Pcs /\ "spawned" \in Pcs
  /\ "rows" \in Pcs /\ "count" \in Pcs /\ "rewrite" \in Pcs
  /\ "patch" \in Pcs /\ "overwrite" \in Pcs /\ "overwrite_meta" \in Pcs
  /\ "syncdrop" \in Pcs
  BY DEF Pcs, Waiting, Locked

LEMMA LockFacts ==
  /\ "drop" \in Locked /\ "unmeta" \in Locked /\ "adding" \in Locked
  /\ "undo_locked" \in Locked /\ "spawned" \in Locked /\ "rows" \in Locked
  /\ "count" \in Locked /\ "rewrite" \in Locked /\ "patch" \in Locked
  /\ "overwrite" \in Locked /\ "overwrite_meta" \in Locked /\ "syncdrop" \in Locked
  /\ "delete_wait" \notin Locked /\ "stub_wait" \notin Locked
  /\ "add_wait" \notin Locked /\ "post_wait" \notin Locked
  /\ "retry_wait" \notin Locked /\ "missing_wait" \notin Locked
  /\ "batch_wait" \notin Locked /\ "erase_wait" \notin Locked
  /\ "recompute_wait" \notin Locked /\ "create_wait" \notin Locked
  /\ "rewrite_wait" \notin Locked /\ "patch_wait" \notin Locked
  /\ "overwrite_wait" \notin Locked /\ "register_wait" \notin Locked
  /\ "syncdrop_wait" \notin Locked /\ "idle" \notin Locked
  /\ "append" \notin Locked /\ "undo" \notin Locked
  /\ "unlocked" \notin Locked /\ "dispatch" \notin Locked
  /\ "run" \notin Locked /\ "ensure" \notin Locked
  /\ "import_start" \notin Locked /\ "prune" \notin Locked
  /\ "settle" \notin Locked
  BY DEF Waiting, Locked

LEMMA OpFacts ==
  /\ "none" \in Ops /\ "delete" \in Ops /\ "add" \in Ops /\ "ingest" \in Ops
  /\ "foreign" \in Ops /\ "retry" \in Ops /\ "reindex" \in Ops /\ "metadata" \in Ops
  /\ "import" \in Ops /\ "mcp" \in Ops /\ "sync" \in Ops /\ "syncdrop" \in Ops
  /\ "patch" \in Ops /\ "rewrite" \in Ops /\ "erase" \in Ops /\ "prune" \in Ops
  BY DEF Ops


LEMMA GoodStep ==
  ASSUME NEW a \in Actors, TypeOK, OpFits,
         lock = a <=> act[a].pc \in Locked, Step(a)
  PROVE  Good(a)
<1>0. /\ a # "none"
      /\ act \in Records
      /\ config \in Nat
      /\ meta # "none" => meta \in Namespaces
  BY NoneAssumption DEF TypeOK, Records
<1> USE <1>0 DEF Allowed, At, Free, Holding, Take, Release, Dropping, Overwriting,
                 Works, Writes, Working, Recording
<1>1. ASSUME NEW n \in Namespaces, RemoveCollection(a, n) PROVE Good(a)
  BY <1>1, BeginGood, PcFacts, LockFacts, OpFacts DEF RemoveCollection
<1>2. ASSUME NEW n \in Namespaces, AddCollection(a, n) PROVE Good(a)
  BY <1>2, BeginGood, PcFacts, LockFacts, OpFacts DEF AddCollection, Begin
<1>3. ASSUME NEW n \in Namespaces, PostIngest(a, n) PROVE Good(a)
  BY <1>3, BeginGood, PcFacts, LockFacts, OpFacts DEF PostIngest, Begin
<1>4. ASSUME NEW n \in Namespaces, RetryIngest(a, n) PROVE Good(a)
  BY <1>4, BeginGood, PcFacts, LockFacts, OpFacts DEF RetryIngest, Begin
<1>5. ASSUME NEW n \in Namespaces, PostMigrate(a, n) PROVE Good(a)
  BY <1>5, BeginGood, PcFacts, LockFacts, OpFacts DEF PostMigrate, Begin
<1>6. ASSUME NEW n \in Namespaces, PatchCollection(a, n) PROVE Good(a)
  BY <1>6, BeginGood, PcFacts, LockFacts, OpFacts DEF PatchCollection, Begin
<1>7. ASSUME NEW n \in Namespaces, DeleteDocument(a, n) PROVE Good(a)
  BY <1>7, BeginGood, PcFacts, LockFacts, OpFacts DEF DeleteDocument, Begin
<1>8. ASSUME NEW n \in Namespaces, StartImport(a, n) PROVE Good(a)
  BY <1>8, BeginGood, PcFacts, LockFacts, OpFacts DEF StartImport, Begin
<1>9. ASSUME NEW n \in Namespaces, McpIngest(a, n) PROVE Good(a)
  BY <1>9, BeginGood, PcFacts, LockFacts, OpFacts DEF McpIngest, Begin
<1>10. ASSUME NEW n \in Namespaces, NEW o \in Ops, PostCollectionJob(a, o, n)
      PROVE Good(a)
  BY <1>10, BeginGood, PcFacts, LockFacts, OpFacts DEF PostCollectionJob, Begin
<1>11. CASE CheckDelete(a)
  <2>1. At(a, "delete_wait") /\ lock = "none"
    BY <1>11 DEF CheckDelete, Free
  <2>2. CASE End(a) /\ lock' = lock
    BY <2>1, <2>2, EndGood, PcFacts, LockFacts, OpFacts
  <2>3. CASE CancelIngestRetries(a, Idle) /\ lock' = lock
    BY <2>1, <2>3, CancelGood, IdleRecord, LockFacts
  <2>4. CASE /\ ~Busy(a)
             /\ Take(a)
             /\ config - config' \in Nat
             /\ act' = [act EXCEPT ![a].pc = "drop",
                                   ![a].listed = config - config']
    <3>1. Moves(a, act[a].op, "drop")
      BY <2>4, PcFacts DEF Records, Moves, Others, Acts
    <3>2. act[a].op \in Ops /\ "drop" \in Pcs
      BY PcFacts DEF Records, Acts
    <3>3. Allowed(a, act[a].op, "drop")
      BY <2>1, <2>4, LockFacts
    <3> QED
      BY <3>1, <3>2, <3>3 DEF Good
  <2>5. SaveConfig(Unconfigured(a)) => config - config' \in Nat
    BY DEF SaveConfig, Unconfigured
  <2> QED
    BY <1>11, <2>2, <2>3, <2>4, <2>5 DEF CheckDelete
<1>12. CASE DropTable(a)
  <2>1. Holding(a, "drop")
    BY <1>12 DEF DropTable
  <2>2. CASE /\ CancelIngestRetries(a, [act[a] EXCEPT !.pc = "unmeta"])
             /\ lock' = lock
    <3> DEFINE x == [act[a] EXCEPT !.pc = "unmeta"]
    <3>1. x \in Acts /\ x.pc = "unmeta" /\ x.op = act[a].op
      BY PcFacts DEF Records, Acts
    <3>2. Allowed(a, x.op, "unmeta")
      BY <2>1, <2>2, <3>1, LockFacts
    <3> HIDE DEF x
    <3> QED
      BY <2>2, <3>1, <3>2, CancelGood DEF x
  <2>3. CASE End(a) /\ Release
    BY <2>1, <2>3, EndGood, LockFacts
  <2> QED
    BY <1>12, <2>2, <2>3 DEF DropTable
<1>13. CASE DropMeta(a)
  BY <1>13, EndGood, PcFacts, LockFacts, OpFacts DEF DropMeta
<1>14. CASE AppendConfig(a)
  BY <1>14, GotoGood, EndGood, PcFacts, LockFacts, OpFacts DEF AppendConfig
<1>15. CASE WriteStub(a)
  BY <1>15, GotoGood, EndGood, PcFacts, LockFacts, OpFacts DEF WriteStub
<1>16. CASE GetAddLock(a)
  BY <1>16, GotoGood, PcFacts, LockFacts, OpFacts DEF GetAddLock
<1>17. CASE CreateAddJob(a)
  <2>1. Holding(a, "adding") /\ lock' = lock
    BY <1>17 DEF CreateAddJob
  <2>2. CASE act' = [act EXCEPT ![a].op = "ingest", ![a].pc = "spawned"]
    <3>1. Moves(a, "ingest", "spawned")
      BY <2>2, PcFacts, OpFacts DEF Records, Moves, Others, Acts
    <3>2. Allowed(a, "ingest", "spawned")
      BY <2>1, LockFacts
    <3> QED
      BY <3>1, <3>2, PcFacts, OpFacts DEF Good
  <2>3. CASE Goto(a, "undo_locked")
    BY <2>1, <2>3, GotoGood, PcFacts, LockFacts
  <2> QED
    BY <1>17, <2>2, <2>3 DEF CreateAddJob
<1>18. CASE UndoAdd(a)
  BY <1>18, EndGood, PcFacts, LockFacts, OpFacts DEF UndoAdd
<1>19. CASE CreateIngestJob(a)
  BY <1>19, GotoGood, EndGood, PcFacts, LockFacts, OpFacts DEF CreateIngestJob
<1>20. CASE GetRetryLock(a)
  BY <1>20, GotoGood, PcFacts, LockFacts, OpFacts DEF GetRetryLock
<1>21. CASE ClaimIngest(a)
  <2>1. At(a, "unlocked") => act[a].op = "foreign"
    BY DEF OpFits
  <2> QED
    BY <1>21, <2>1, GotoGood, EndGood, PcFacts, LockFacts DEF ClaimIngest
<1>22. CASE DispatchIngest(a)
  BY <1>22, GotoGood, EndGood, PcFacts, LockFacts, OpFacts DEF DispatchIngest
<1>23. CASE WriteMissingStub(a)
  BY <1>23, EndGood, PcFacts, LockFacts, OpFacts DEF WriteMissingStub
<1>24. CASE EndOfIngest(a)
  BY <1>24, EndGood, PcFacts, LockFacts, OpFacts DEF EndOfIngest
<1>25. CASE EnsureCollection(a)
  BY <1>25, GotoGood, PcFacts, LockFacts, OpFacts DEF EnsureCollection, Runs
<1>26. CASE CreateTable(a)
  BY <1>26, GotoGood, PcFacts, LockFacts, OpFacts DEF CreateTable
<1>27. CASE StartErase(a)
  BY <1>27, GotoGood, PcFacts, LockFacts, OpFacts DEF StartErase, Runs
<1>28. CASE EraseDocument(a)
  BY <1>28, GotoGood, PcFacts, LockFacts, OpFacts DEF EraseDocument
<1>29. CASE StartBatch(a)
  BY <1>29, GotoGood, PcFacts, LockFacts, OpFacts DEF StartBatch, Runs
<1>30. CASE ClaimCollection(a)
  BY <1>30, GotoGood, GotoWithGood, PcFacts, LockFacts, OpFacts DEF ClaimCollection
<1>31. CASE AddRows(a)
  BY <1>31, GotoGood, GotoWithGood, PcFacts, LockFacts, OpFacts DEF AddRows
<1>32. CASE CountRows(a)
  BY <1>32, GotoWithGood, PcFacts, LockFacts, OpFacts DEF CountRows
<1>33. CASE FinalizeAfterRemoval(a)
  BY <1>33, GotoGood, PcFacts, LockFacts, OpFacts DEF FinalizeAfterRemoval, Runs
<1>34. CASE ScanVectors(a)
  <2>1. act[a].pc \in {"run", "settle"}
    BY <1>34 DEF ScanVectors, Runs
  <2>2. GotoWith(a, "recompute_wait", meta = Ns(a)) /\ lock' = lock
    BY <1>34 DEF ScanVectors
  <2>3. (meta = Ns(a)) \in BOOLEAN
    OBVIOUS
  <2>4. Allowed(a, act[a].op, "recompute_wait")
    BY <2>1, <2>2, LockFacts DEF OpFits
  <2> QED
    BY <2>2, <2>3, <2>4, GotoWithGood, PcFacts
<1>35. CASE RecomputeCollectionMeta(a)
  BY <1>35, GotoWithGood, PcFacts, LockFacts, OpFacts DEF RecomputeCollectionMeta
<1>36. CASE EndOfRun(a)
  BY <1>36, EndGood, PcFacts, LockFacts, OpFacts DEF EndOfRun, Runs
<1>37. CASE CreateCollectionJob(a)
  BY <1>37, GotoGood, EndGood, PcFacts, LockFacts, OpFacts DEF CreateCollectionJob
<1>38. CASE EndOfReindex(a)
  BY <1>38, GotoGood, PcFacts, LockFacts, OpFacts DEF EndOfReindex, Runs
<1>39. CASE BeginRewrite(a)
  BY <1>39, GotoGood, EndGood, PcFacts, LockFacts, OpFacts DEF BeginRewrite
<1>40. CASE EndRewrite(a)
  BY <1>40, GotoGood, EndGood, PcFacts, LockFacts, OpFacts DEF EndRewrite
<1>41. CASE LockedCollectionMeta(a)
  BY <1>41, GotoGood, EndGood, PcFacts, LockFacts, OpFacts DEF LockedCollectionMeta
<1>42. CASE UpdateCollectionMeta(a)
  BY <1>42, EndGood, PcFacts, LockFacts, OpFacts DEF UpdateCollectionMeta
<1>43. CASE StartPruning(a)
  BY <1>43, BeginGood, PcFacts, LockFacts, OpFacts DEF StartPruning, Begin
<1>44. CASE PruneExpiredChunks(a)
  <2>1. At(a, "prune") => act[a].op = "prune"
    BY DEF OpFits
  <2> QED
    BY <1>44, <2>1, GotoGood, EndGood, PcFacts, LockFacts DEF PruneExpiredChunks
<1>45. CASE EnsureAbsent(a)
  <2>1. At(a, "import_start") => act[a].op = "import"
    BY DEF OpFits
  <2> QED
    BY <1>45, <2>1, GotoGood, EndGood, PcFacts, LockFacts DEF EnsureAbsent
<1>46. CASE CheckOverwrite(a)
  BY <1>46, GotoGood, GotoWithGood, EndGood, PcFacts, LockFacts, OpFacts DEF CheckOverwrite
<1>47. CASE OverwriteTable(a)
  BY <1>47, GotoGood, EndGood, PcFacts, LockFacts, OpFacts DEF OverwriteTable
<1>48. CASE OverwriteMeta(a)
  BY <1>48, GotoWithGood, EndGood, PcFacts, LockFacts, OpFacts DEF OverwriteMeta
<1>49. CASE StartSync(a)
  <2>1. RecordedOwner \in Namespaces
    BY DefaultAssumption DEF RecordedOwner
  <2> QED
    BY <1>49, <2>1, BeginGood, PcFacts, LockFacts, OpFacts DEF StartSync, Begin
<1>50. CASE RegisterWriter(a)
  BY <1>50, GotoGood, EndGood, PcFacts, LockFacts, OpFacts DEF RegisterWriter
<1>51. CASE StartSyncDrop(a)
  <2>1. RecordedOwner \in Namespaces
    BY DefaultAssumption DEF RecordedOwner
  <2> QED
    BY <1>51, <2>1, BeginGood, PcFacts, LockFacts, OpFacts DEF StartSyncDrop, Begin
<1>52. CASE DropIfIdle(a)
  BY <1>52, GotoGood, EndGood, PcFacts, LockFacts, OpFacts DEF DropIfIdle
<1>53. CASE SyncDropTable(a)
  BY <1>53, EndGood, PcFacts, LockFacts, OpFacts DEF SyncDropTable
<1>54. CASE TimeOut(a)
  <2>1. act[a].pc \notin Locked /\ lock # a /\ lock' = lock
    BY <1>54 DEF TimeOut, Waiting, Locked
  <2>2. CASE End(a)
    BY <2>1, <2>2, EndGood, LockFacts
  <2>3. CASE Goto(a, "undo")
    BY <2>1, <2>3, GotoGood, PcFacts, LockFacts
  <2>4. CASE /\ act[a].pc \in {"batch_wait", "erase_wait", "recompute_wait"}
             /\ GotoWith(a, "run", FALSE)
    BY <2>1, <2>4, GotoWithGood, PcFacts, LockFacts
  <2> QED
    BY <1>54, <2>2, <2>3, <2>4 DEF TimeOut
<1> QED
  BY <1>1, <1>2, <1>3, <1>4, <1>5, <1>6, <1>7, <1>8, <1>9, <1>10, <1>11,
     <1>12, <1>13, <1>14, <1>15, <1>16, <1>17, <1>18, <1>19, <1>20, <1>21,
     <1>22, <1>23, <1>24, <1>25, <1>26, <1>27, <1>28, <1>29, <1>30, <1>31,
     <1>32, <1>33, <1>34, <1>35, <1>36, <1>37, <1>38, <1>39, <1>40, <1>41,
     <1>42, <1>43, <1>44, <1>45, <1>46, <1>47, <1>48, <1>49, <1>50, <1>51,
     <1>52, <1>53, <1>54
  DEF Step

(***************************************************************************)
(* Such a step keeps the mutual exclusion.                                 *)
(***************************************************************************)
LEMMA WorksIsLockedJob ==
  ASSUME NEW b \in Actors
  PROVE  /\ LockedJob(b) <=> Works(act[b].op, act[b].pc)
         /\ WriterAtWork(b) <=> Writes(act[b].op, act[b].pc)
         /\ LockedJob(b)' <=> Works(act'[b].op, act'[b].pc)
         /\ WriterAtWork(b)' <=> Writes(act'[b].op, act'[b].pc)
         /\ LockedJob(b) => JobAtWork(b)
  BY DEF LockedJob, JobAtWork, WriterAtWork, Works, Writes, IngestOps

LEMMA IdleRests ==
  /\ ~Works("none", "idle") /\ ~Writes("none", "idle")
  /\ "idle" \notin Locked /\ "idle" \notin Dropping /\ "idle" \notin Overwriting
  /\ \A p \in Dropping \cup Overwriting : p \in Locked
  BY DEF Works, Writes, Working, Recording, Locked, Dropping, Overwriting

LEMMA ExclusionStep ==
  ASSUME NEW a \in Actors, act \in Records, LockHeld, OpFits, DropExcludesWriters,
         Good(a)
  PROVE  act' \in Records /\ LockHeld' /\ OpFits' /\ DropExcludesWriters'
<1>1. PICK o \in Ops, p \in Pcs : Moves(a, o, p) /\ Allowed(a, o, p)
  BY DEF Good
<1>2. a # "none" /\ "none" \notin Actors
  BY NoneAssumption
<1>3. act' \in Records /\ act'[a].op = o /\ act'[a].pc = p
  BY <1>1 DEF Moves
<1>4. \A b \in Actors \ {a} :
         \/ act'[b].op = act[b].op /\ act'[b].pc = act[b].pc
         \/ /\ act'[b].op = "none" /\ act'[b].pc = "idle"
            /\ act[b].pc \in {"retry_wait", "unlocked"}
  BY <1>1, IdleRecord DEF Moves, Others, Pending
<1>5. lock' = a <=> p \in Locked
  BY <1>1 DEF Allowed
<1>6. lock' = lock \/ (lock = "none" /\ lock' = a) \/ (lock = a /\ lock' = "none")
  BY <1>1 DEF Allowed
<1>7. LockHeld'
  <2>1. SUFFICES ASSUME NEW b \in Actors
                 PROVE  lock' = b <=> act'[b].pc \in Locked
    BY DEF LockHeld
  <2>2. CASE b = a
    BY <1>3, <1>5, <2>2
  <2>3. CASE b # a
    <3>1. lock' = b <=> lock = b
      BY <1>2, <1>6, <2>3
    <3>2. act'[b].pc \in Locked <=> act[b].pc \in Locked
      BY <1>4, <2>3, LockFacts
    <3> QED
      BY <3>1, <3>2 DEF LockHeld
  <2> QED
    BY <2>2, <2>3
<1>8. OpFits'
  <2>1. SUFFICES ASSUME NEW b \in Actors
                 PROVE  /\ act'[b].pc = "unlocked" => act'[b].op = "foreign"
                        /\ act'[b].pc = "import_start" => act'[b].op = "import"
                        /\ act'[b].pc = "prune" => act'[b].op = "prune"
                        /\ act'[b].pc = "settle" => act'[b].op = "erase"
    BY DEF OpFits, At
  <2>2. CASE b = a
    BY <1>1, <1>3, <2>2 DEF Allowed
  <2>3. CASE b # a
    BY <1>4, <2>3 DEF OpFits, At
  <2> QED
    BY <2>2, <2>3
<1>9. DropExcludesWriters'
  <2>1. SUFFICES ASSUME NEW b \in Actors, NEW c \in Actors \ {b}
                 PROVE  /\ act'[b].pc \in Dropping =>
                              ~WriterAtWork(c)' /\ ~LockedJob(c)'
                        /\ act'[b].pc \in Overwriting => ~LockedJob(c)'
    BY DEF DropExcludesWriters
  <2>2. ASSUME c # a
        PROVE  /\ LockedJob(c)' => LockedJob(c)
               /\ WriterAtWork(c)' => WriterAtWork(c)
    BY <1>4, <2>2, WorksIsLockedJob, IdleRests
  <2>3. CASE b = a
    <3>1. act'[b].pc \in Dropping => At(a, "drop") \/ ~Busy(a)
      BY <1>1, <1>3, <2>3 DEF Allowed
    <3>2. act'[b].pc \in Overwriting => At(a, "overwrite") \/ ~OtherJob(a)
      BY <1>1, <1>3, <2>3 DEF Allowed
    <3>3. At(a, "drop") => ~WriterAtWork(c) /\ ~LockedJob(c)
      BY <2>3 DEF DropExcludesWriters, At, Dropping
    <3>4. At(a, "overwrite") => ~LockedJob(c)
      BY <2>3 DEF DropExcludesWriters, At, Overwriting
    <3>5. /\ ~Busy(a) => ~WriterAtWork(c) /\ ~LockedJob(c)
          /\ ~OtherJob(a) => ~LockedJob(c)
      BY <2>3, WorksIsLockedJob DEF Busy, OtherJob
    <3> QED
      BY <2>2, <2>3, <3>1, <3>2, <3>3, <3>4, <3>5
  <2>4. CASE b # a
    <3>1. ASSUME act'[b].pc \in Dropping \cup Overwriting
          PROVE  act[b].pc = act'[b].pc /\ lock = b
      BY <1>4, <2>4, <3>1, IdleRests DEF LockHeld
    <3>2. CASE c = a
      <4>1. ASSUME lock = b
            PROVE  /\ LockedJob(c)' => LockedJob(c)
                   /\ WriterAtWork(c)' => WriterAtWork(c)
        BY <1>1, <1>2, <1>3, <2>4, <3>2, <4>1, WorksIsLockedJob DEF Allowed
      <4> QED
        BY <3>1, <4>1 DEF DropExcludesWriters
    <3>3. CASE c # a
      BY <2>2, <3>1, <3>3 DEF DropExcludesWriters
    <3> QED
      BY <3>2, <3>3
  <2> QED
    BY <2>3, <2>4
<1> QED
  BY <1>3, <1>7, <1>8, <1>9

(***************************************************************************)
(* What a step does to the rows and their owner.                           *)
(***************************************************************************)
RowPcs == {"rows", "unmeta"}

(* The rows stay or go, or nobody else relies on them.                     *)
Calm(a) ==
    /\ act'[a].pc \notin RowPcs
    /\ \/ /\ rows' \in {rows, {}}
          /\ meta' = meta
          /\ disowned' = disowned
       \/ lock \in {"none", a} /\ RowsOwned'

(* A batch has just claimed the collection, or found its own row.          *)
Claims(a) ==
    /\ lock = "none"
    /\ Access(act[a].ns)
    /\ meta' = act[a].ns
    /\ rows' = rows
    /\ disowned' = disowned
    /\ act'[a].pc = "rows"
    /\ act'[a].ns = act[a].ns
    /\ act'[a].row = (meta = "none")

(* A DELETE has just dropped the table.                                    *)
Empties(a) ==
    /\ lock = a
    /\ rows' = {}
    /\ act'[a].pc = "unmeta"

(* The roll-back of an add has removed a row.                              *)
Undoes(a) ==
    /\ act'[a].pc \notin RowPcs
    /\ rows' = rows
    /\ meta' = Unlisted(act[a].ns)
    /\ disowned' = (disowned \/ (meta = act[a].ns /\ RowsAtStake))

Kept(a) == Calm(a) \/ Claims(a) \/ Empties(a) \/ Undoes(a)

LEMMA Lands ==
  ASSUME NEW a \in Actors, act \in Records
  PROVE  /\ \A p : Goto(a, p) => act'[a].pc = p
         /\ \A p, row : GotoWith(a, p, row) => act'[a].pc = p
         /\ End(a) => act'[a].pc = "idle"
         /\ \A o, n, p, row, listed :
               BeginWith(a, o, n, p, row, listed) => act'[a].pc = p
  BY IdleRecord DEF Records, Acts, Goto, GotoWith, End, BeginWith

LEMMA CancelLands ==
  ASSUME NEW a \in Actors, act \in Records, NEW x, CancelIngestRetries(a, x)
  PROVE  act'[a] = x
  BY DEF Records, CancelIngestRetries

(* Writing a row for a collection that has none owns no rows.              *)
LEMMA UpsertOwned ==
  ASSUME NEW n, rows \subseteq Namespaces, RowsOwned,
         rows' = rows, disowned' = disowned, meta' \in {meta, Upserted(n)}
  PROVE  RowsOwned'
  BY NoneAssumption DEF RowsOwned, Upserted

LEMMA DataStep ==
  ASSUME NEW a \in Actors, TypeOK, ClaimHolds, DropEmpties, RowsOwned, Step(a)
  PROVE  Kept(a)
<1>0. act \in Records /\ meta \in Namespaces \cup {"none"} /\ rows \subseteq Namespaces
  BY DEF TypeOK, Records
<1> USE <1>0 DEF Kept, Calm, Claims, Empties, Undoes, RowPcs, Free, Holding, data, history
<1>1. ASSUME NEW n \in Namespaces, RemoveCollection(a, n) PROVE Kept(a)
  BY <1>1, Lands DEF RemoveCollection
<1>2. ASSUME NEW n \in Namespaces, AddCollection(a, n) PROVE Kept(a)
  BY <1>2, Lands DEF AddCollection, Begin
<1>3. ASSUME NEW n \in Namespaces, PostIngest(a, n) PROVE Kept(a)
  BY <1>3, Lands DEF PostIngest, Begin
<1>4. ASSUME NEW n \in Namespaces, RetryIngest(a, n) PROVE Kept(a)
  BY <1>4, Lands DEF RetryIngest, Begin
<1>5. ASSUME NEW n \in Namespaces, PostMigrate(a, n) PROVE Kept(a)
  BY <1>5, Lands DEF PostMigrate, Begin
<1>6. ASSUME NEW n \in Namespaces, PatchCollection(a, n) PROVE Kept(a)
  BY <1>6, Lands DEF PatchCollection, Begin
<1>7. ASSUME NEW n \in Namespaces, DeleteDocument(a, n) PROVE Kept(a)
  BY <1>7, Lands DEF DeleteDocument, Begin
<1>8. ASSUME NEW n \in Namespaces, StartImport(a, n) PROVE Kept(a)
  BY <1>8, Lands DEF StartImport, Begin
<1>9. ASSUME NEW n \in Namespaces, McpIngest(a, n) PROVE Kept(a)
  BY <1>9, Lands DEF McpIngest, Begin
<1>10. ASSUME NEW n \in Namespaces, NEW o \in Ops, PostCollectionJob(a, o, n)
       PROVE  Kept(a)
  BY <1>10, Lands DEF PostCollectionJob, Begin
<1>11. CASE CheckDelete(a)
  <2>1. \A l : act' = [act EXCEPT ![a].pc = "drop", ![a].listed = l]
                => act'[a].pc = "drop"
    BY DEF Records, Acts
  <2>2. act'[a].pc \in {"idle", "drop"}
    BY <1>11, <2>1, Lands, CancelLands, IdleRecord DEF CheckDelete
  <2> QED
    BY <1>11, <2>2 DEF CheckDelete
<1>12. CASE DropTable(a)
  <2>1. CASE /\ rows' = {}
             /\ CancelIngestRetries(a, [act[a] EXCEPT !.pc = "unmeta"])
    <3>1. act'[a].pc = "unmeta"
      BY <2>1, CancelLands DEF Records, Acts
    <3> QED
      BY <1>12, <2>1, <3>1 DEF DropTable
  <2>2. CASE End(a) /\ rows' = rows
    BY <1>12, <2>2, Lands DEF DropTable
  <2> QED
    BY <1>12, <2>1, <2>2 DEF DropTable
<1>13. CASE DropMeta(a)
  <2>1. rows = {} /\ rows' = {} /\ act'[a].pc = "idle" /\ lock = a
    BY <1>13, Lands DEF DropMeta, DropEmpties
  <2> QED
    BY <2>1 DEF RowsOwned
<1>14. CASE AppendConfig(a)
  BY <1>14, Lands DEF AppendConfig
<1>15. CASE WriteStub(a)
  <2>1. act'[a].pc \in {"idle", "add_wait", "adding"} /\ lock = "none"
    BY <1>15, Lands DEF WriteStub
  <2>2. meta' \in {meta, Upserted(act[a].ns)}
    BY <1>15 DEF WriteStub, Upserted, Ns
  <2>3. rows' = rows /\ disowned' = disowned
    BY <1>15 DEF WriteStub
  <2> QED
    BY <2>1, <2>2, <2>3, UpsertOwned
<1>16. CASE GetAddLock(a)
  BY <1>16, Lands DEF GetAddLock
<1>17. CASE CreateAddJob(a)
  <2>1. act'[a].pc \in {"spawned", "undo_locked"}
    BY <1>17, Lands DEF CreateAddJob, Records, Acts
  <2> QED
    BY <1>17, <2>1 DEF CreateAddJob
<1>18. CASE UndoAdd(a)
  <2>1. act'[a].pc = "idle" /\ rows' = rows
    BY <1>18, Lands DEF UndoAdd
  <2>2. CASE meta' = meta /\ disowned' = disowned
    BY <2>1, <2>2
  <2>3. CASE /\ meta' = Unlisted(Ns(a))
             /\ disowned' = (disowned \/ (meta = Ns(a) /\ RowsAtStake))
    BY <2>1, <2>3 DEF Ns
  <2> QED
    BY <1>18, <2>2, <2>3 DEF UndoAdd
<1>19. CASE CreateIngestJob(a)
  BY <1>19, Lands DEF CreateIngestJob
<1>20. CASE GetRetryLock(a)
  BY <1>20, Lands DEF GetRetryLock
<1>21. CASE ClaimIngest(a)
  BY <1>21, Lands DEF ClaimIngest
<1>22. CASE DispatchIngest(a)
  BY <1>22, Lands DEF DispatchIngest
<1>23. CASE WriteMissingStub(a)
  BY <1>23, Lands, UpsertOwned DEF WriteMissingStub
<1>24. CASE EndOfIngest(a)
  BY <1>24, Lands DEF EndOfIngest
<1>25. CASE EnsureCollection(a)
  BY <1>25, Lands DEF EnsureCollection, Runs
<1>26. CASE CreateTable(a)
  BY <1>26, Lands DEF CreateTable
<1>27. CASE StartErase(a)
  BY <1>27, Lands DEF StartErase, Runs
<1>28. CASE EraseDocument(a)
  BY <1>28, Lands DEF EraseDocument
<1>29. CASE StartBatch(a)
  BY <1>29, Lands DEF StartBatch, Runs
<1>30. CASE ClaimCollection(a)
  <2>1. CASE /\ Access(Ns(a))
             /\ meta' = Ns(a)
             /\ GotoWith(a, "rows", meta = "none")
    <3>1. /\ act'[a].pc = "rows"
          /\ act'[a].ns = act[a].ns
          /\ act'[a].row = (meta = "none")
      BY <2>1 DEF GotoWith, Records, Acts
    <3>2. lock = "none" /\ rows' = rows /\ disowned' = disowned
      BY <1>30 DEF ClaimCollection
    <3> QED
      BY <2>1, <3>1, <3>2 DEF Ns
  <2>2. CASE Goto(a, "run") /\ meta' = meta
    BY <1>30, <2>2, Lands DEF ClaimCollection
  <2> QED
    BY <1>30, <2>1, <2>2 DEF ClaimCollection
<1>31. CASE AddRows(a)
  <2>1. lock = a /\ act[a].pc = "rows" /\ disowned' = disowned
    BY <1>31 DEF AddRows, At
  <2>2. ~disowned => meta = act[a].ns /\ (act[a].row => rows = {})
    BY <2>1 DEF ClaimHolds, At, Ns
  <2>3. CASE rows' = rows \cup {Ns(a)} /\ Goto(a, "count") /\ meta' = meta
    <3>1. act'[a].pc = "count"
      BY <2>3, Lands
    <3>2. RowsOwned'
      BY <2>1, <2>2, <2>3 DEF RowsOwned, Ns
    <3> QED
      BY <2>1, <3>1, <3>2
  <2>4. CASE /\ meta' \in {meta} \cup (IF act[a].row THEN {Unlisted(Ns(a))} ELSE {})
             /\ GotoWith(a, "run", FALSE)
             /\ rows' = rows
    <3>1. act'[a].pc = "run"
      BY <2>4, Lands
    <3>2. RowsOwned'
      BY <2>1, <2>2, <2>4 DEF RowsOwned
    <3> QED
      BY <2>1, <3>1, <3>2
  <2> QED
    BY <1>31, <2>3, <2>4 DEF AddRows
<1>32. CASE CountRows(a)
  BY <1>32, Lands, UpsertOwned DEF CountRows
<1>33. CASE FinalizeAfterRemoval(a)
  BY <1>33, Lands DEF FinalizeAfterRemoval, Runs
<1>34. CASE ScanVectors(a)
  BY <1>34, Lands DEF ScanVectors, Runs
<1>35. CASE RecomputeCollectionMeta(a)
  BY <1>35, Lands, UpsertOwned DEF RecomputeCollectionMeta
<1>36. CASE EndOfRun(a)
  BY <1>36, Lands DEF EndOfRun, Runs
<1>37. CASE CreateCollectionJob(a)
  BY <1>37, Lands DEF CreateCollectionJob
<1>38. CASE EndOfReindex(a)
  BY <1>38, Lands DEF EndOfReindex, Runs
<1>39. CASE BeginRewrite(a)
  BY <1>39, Lands DEF BeginRewrite
<1>40. CASE EndRewrite(a)
  BY <1>40, Lands DEF EndRewrite
<1>41. CASE LockedCollectionMeta(a)
  BY <1>41, Lands DEF LockedCollectionMeta
<1>42. CASE UpdateCollectionMeta(a)
  BY <1>42, Lands, UpsertOwned DEF UpdateCollectionMeta
<1>43. CASE StartPruning(a)
  BY <1>43, Lands DEF StartPruning, Begin
<1>44. CASE PruneExpiredChunks(a)
  BY <1>44, Lands DEF PruneExpiredChunks
<1>45. CASE EnsureAbsent(a)
  BY <1>45, Lands DEF EnsureAbsent
<1>46. CASE CheckOverwrite(a)
  BY <1>46, Lands DEF CheckOverwrite
<1>47. CASE OverwriteTable(a)
  BY <1>47, Lands DEF OverwriteTable
<1>48. CASE OverwriteMeta(a)
  <2>1. lock = a /\ act'[a].pc \in {"idle", "run"} /\ rows' = rows
    BY <1>48, Lands DEF OverwriteMeta
  <2>2. CASE meta' = meta /\ disowned' = disowned
    BY <2>1, <2>2
  <2>3. CASE disowned' = (disowned \/ (meta' # meta /\ rows # {}))
    <3>1. RowsOwned'
      BY <2>1, <2>3 DEF RowsOwned
    <3> QED
      BY <2>1, <3>1
  <2> QED
    BY <1>48, <2>2, <2>3 DEF OverwriteMeta
<1>49. CASE StartSync(a)
  BY <1>49, Lands DEF StartSync, Begin
<1>50. CASE RegisterWriter(a)
  BY <1>50, Lands DEF RegisterWriter
<1>51. CASE StartSyncDrop(a)
  BY <1>51, Lands DEF StartSyncDrop, Begin
<1>52. CASE DropIfIdle(a)
  BY <1>52, Lands DEF DropIfIdle
<1>53. CASE SyncDropTable(a)
  BY <1>53, Lands DEF SyncDropTable
<1>54. CASE TimeOut(a)
  BY <1>54, Lands DEF TimeOut
<1> QED
  BY <1>1, <1>2, <1>3, <1>4, <1>5, <1>6, <1>7, <1>8, <1>9, <1>10, <1>11,
    <1>12, <1>13, <1>14, <1>15, <1>16, <1>17, <1>18, <1>19, <1>20, <1>21,
    <1>22, <1>23, <1>24, <1>25, <1>26, <1>27, <1>28, <1>29, <1>30, <1>31,
    <1>32, <1>33, <1>34, <1>35, <1>36, <1>37, <1>38, <1>39, <1>40, <1>41,
    <1>42, <1>43, <1>44, <1>45, <1>46, <1>47, <1>48, <1>49, <1>50, <1>51,
    <1>52, <1>53, <1>54
  DEF Step

(***************************************************************************)
(* Such a step keeps the rows owned.                                       *)
(***************************************************************************)
LEMMA RowsStep ==
  ASSUME NEW a \in Actors, TypeOK, LockHeld, ClaimHolds, DropEmpties, RowsOwned,
         Others(a), Kept(a)
  PROVE  ClaimHolds' /\ DropEmpties' /\ RowsOwned'
<1>0. rows \subseteq Namespaces /\ meta \in Namespaces \cup {"none"}
  BY DEF TypeOK
<1>1. \A b \in Actors \ {a} : act'[b].pc \in RowPcs => act'[b] = act[b]
  BY IdleRecord DEF Others, RowPcs
<1>2. \A b \in Actors : act[b].pc \in RowPcs => lock = b
  BY LockFacts DEF LockHeld, RowPcs
<1>3. ASSUME lock \in {"none", a}
      PROVE  \A b \in Actors \ {a} : act'[b].pc \notin RowPcs
  BY <1>1, <1>2, <1>3, NoneAssumption
<1>4. CASE Calm(a)
  <2>0. act'[a].pc \notin RowPcs
    BY <1>4 DEF Calm
  <2>1. CASE rows' \in {rows, {}} /\ meta' = meta /\ disowned' = disowned
    <3>1. RowsOwned'
      BY <2>1 DEF RowsOwned
    <3>2. DropEmpties'
      BY <1>1, <2>0, <2>1 DEF DropEmpties, At, RowPcs
    <3>3. ClaimHolds'
      BY <1>1, <2>0, <2>1 DEF ClaimHolds, At, Ns, RowPcs
    <3> QED
      BY <3>1, <3>2, <3>3
  <2>2. CASE lock \in {"none", a} /\ RowsOwned'
    <3>1. \A b \in Actors : act'[b].pc \notin RowPcs
      BY <1>3, <2>0, <2>2
    <3> QED
      BY <2>2, <3>1 DEF DropEmpties, ClaimHolds, At, RowPcs
  <2> QED
    BY <1>4, <2>1, <2>2 DEF Calm
<1>5. CASE Claims(a)
  <2>1. \A b \in Actors \ {a} : act'[b].pc \notin RowPcs
    BY <1>3, <1>5 DEF Claims
  <2>2. ~disowned /\ rows # {} => meta = act[a].ns
    BY <1>0, <1>5, NoneAssumption DEF Claims, Access, RowsOwned
  <2>3. RowsOwned'
    BY <1>5, <2>2 DEF Claims, RowsOwned
  <2>4. DropEmpties'
    BY <1>5, <2>1 DEF Claims, DropEmpties, At, RowPcs
  <2>5. ~disowned /\ meta = "none" => rows = {}
    BY <1>0, NoneAssumption DEF RowsOwned
  <2>6. ClaimHolds'
    BY <1>5, <2>1, <2>5 DEF Claims, ClaimHolds, At, Ns, RowPcs
  <2> QED
    BY <2>3, <2>4, <2>6
<1>6. CASE Empties(a)
  <2>1. \A b \in Actors \ {a} : act'[b].pc \notin RowPcs
    BY <1>3, <1>6 DEF Empties
  <2> QED
    BY <1>6, <2>1 DEF Empties, RowsOwned, DropEmpties, ClaimHolds, At, RowPcs
<1>7. CASE Undoes(a)
  <2>1. rows' = rows /\ act'[a].pc \notin RowPcs
    BY <1>7 DEF Undoes
  <2>2. DropEmpties'
    BY <1>1, <2>1 DEF DropEmpties, At, RowPcs
  <2>3. ~disowned' => ~disowned /\ (meta # act[a].ns \/ ~RowsAtStake)
    BY <1>7 DEF Undoes
  <2>4. meta # act[a].ns => meta' = meta
    BY <1>7 DEF Undoes, Unlisted
  <2>5. ASSUME ~disowned', ~RowsAtStake
        PROVE  ClaimHolds' /\ RowsOwned'
    BY <1>1, <2>1, <2>5 DEF RowsAtStake, ClaimHolds, RowsOwned, At, RowPcs
  <2>6. ASSUME ~disowned', meta # act[a].ns
        PROVE  ClaimHolds' /\ RowsOwned'
    BY <1>1, <2>1, <2>3, <2>4, <2>6 DEF ClaimHolds, RowsOwned, At, Ns, RowPcs
  <2>7. ASSUME disowned'
        PROVE  ClaimHolds' /\ RowsOwned'
    BY <2>7 DEF ClaimHolds, RowsOwned
  <2> QED
    BY <2>2, <2>3, <2>5, <2>6, <2>7
<1> QED
  BY <1>4, <1>5, <1>6, <1>7 DEF Kept

(***************************************************************************)
(* The types of the other variables.                                       *)
(***************************************************************************)
Typed ==
    /\ table' \in BOOLEAN
    /\ rows' \subseteq Namespaces
    /\ meta' \in Namespaces \cup {"none"}
    /\ config' \in Nat
    /\ saved' \in Nat
    /\ failed' \subseteq Namespaces
    /\ gone' \in BOOLEAN
    /\ disowned' \in BOOLEAN

LEMMA TypeStep ==
  ASSUME NEW a \in Actors, TypeOK, Step(a)
  PROVE  Typed
<1>0. /\ table \in BOOLEAN
      /\ rows \subseteq Namespaces
      /\ meta \in Namespaces \cup {"none"}
      /\ config \in Nat
      /\ saved \in Nat
      /\ failed \subseteq Namespaces
      /\ gone \in BOOLEAN
      /\ disowned \in BOOLEAN
      /\ Ns(a) \in Namespaces
      /\ act[a].listed \in Nat
  BY DEF TypeOK, Acts, Ns
<1>rb. RollBackEntry => config' \in Nat /\ saved' \in Nat
  BY <1>0 DEF RollBackEntry, SaveBestEffort
<1> USE <1>0 DEF Typed, data, conf, history
<1>1. ASSUME NEW n \in Namespaces, RemoveCollection(a, n) PROVE Typed
  BY <1>1 DEF RemoveCollection
<1>2. ASSUME NEW n \in Namespaces, AddCollection(a, n) PROVE Typed
  BY <1>2 DEF AddCollection
<1>3. ASSUME NEW n \in Namespaces, PostIngest(a, n) PROVE Typed
  BY <1>3 DEF PostIngest
<1>4. ASSUME NEW n \in Namespaces, RetryIngest(a, n) PROVE Typed
  BY <1>4 DEF RetryIngest
<1>5. ASSUME NEW n \in Namespaces, PostMigrate(a, n) PROVE Typed
  BY <1>5 DEF PostMigrate
<1>6. ASSUME NEW n \in Namespaces, PatchCollection(a, n) PROVE Typed
  BY <1>6 DEF PatchCollection
<1>7. ASSUME NEW n \in Namespaces, DeleteDocument(a, n) PROVE Typed
  BY <1>7 DEF DeleteDocument
<1>8. ASSUME NEW n \in Namespaces, StartImport(a, n) PROVE Typed
  BY <1>8 DEF StartImport
<1>9. ASSUME NEW n \in Namespaces, McpIngest(a, n) PROVE Typed
  BY <1>9 DEF McpIngest
<1>10. ASSUME NEW n \in Namespaces, NEW o \in Ops, PostCollectionJob(a, o, n)
       PROVE  Typed
  BY <1>10 DEF PostCollectionJob
<1>11. CASE CheckDelete(a)
  <2>1. SaveConfig(Unconfigured(a)) => config' \in Nat /\ saved' \in Nat
    BY DEF SaveConfig, Unconfigured
  <2>2. Deleted(a) => gone' \in BOOLEAN
    BY DEF Deleted
  <2>3. CancelIngestRetries(a, Idle) => failed' \subseteq Namespaces
    BY DEF CancelIngestRetries
  <2> QED
    BY <1>11, <2>1, <2>2, <2>3 DEF CheckDelete
<1>12. CASE DropTable(a)
  BY <1>12 DEF DropTable, SaveBestEffort, CancelIngestRetries
<1>13. CASE DropMeta(a)
  BY <1>13 DEF DropMeta, Deleted, Unlisted
<1>14. CASE AppendConfig(a)
  <2>1. SaveConfig(config + 1) => config' \in Nat /\ saved' \in Nat
    BY DEF SaveConfig
  <2> QED
    BY <1>14, <2>1 DEF AppendConfig
<1>15. CASE WriteStub(a)
  BY <1>15, <1>rb DEF WriteStub
<1>16. CASE GetAddLock(a)
  BY <1>16 DEF GetAddLock
<1>17. CASE CreateAddJob(a)
  BY <1>17, <1>rb DEF CreateAddJob
<1>18. CASE UndoAdd(a)
  BY <1>18 DEF UndoAdd, Unlisted
<1>19. CASE CreateIngestJob(a)
  BY <1>19 DEF CreateIngestJob
<1>20. CASE GetRetryLock(a)
  BY <1>20 DEF GetRetryLock
<1>21. CASE ClaimIngest(a)
  BY <1>21 DEF ClaimIngest
<1>22. CASE DispatchIngest(a)
  BY <1>22 DEF DispatchIngest
<1>23. CASE WriteMissingStub(a)
  BY <1>23 DEF WriteMissingStub, Upserted
<1>24. CASE EndOfIngest(a)
  BY <1>24 DEF EndOfIngest
<1>25. CASE EnsureCollection(a)
  BY <1>25 DEF EnsureCollection
<1>26. CASE CreateTable(a)
  BY <1>26 DEF CreateTable
<1>27. CASE StartErase(a)
  BY <1>27 DEF StartErase
<1>28. CASE EraseDocument(a)
  BY <1>28 DEF EraseDocument
<1>29. CASE StartBatch(a)
  BY <1>29 DEF StartBatch
<1>30. CASE ClaimCollection(a)
  BY <1>30 DEF ClaimCollection
<1>31. CASE AddRows(a)
  BY <1>31 DEF AddRows, Unlisted
<1>32. CASE CountRows(a)
  BY <1>32 DEF CountRows, Upserted
<1>33. CASE FinalizeAfterRemoval(a)
  BY <1>33 DEF FinalizeAfterRemoval
<1>34. CASE ScanVectors(a)
  BY <1>34 DEF ScanVectors
<1>35. CASE RecomputeCollectionMeta(a)
  BY <1>35 DEF RecomputeCollectionMeta, Upserted
<1>36. CASE EndOfRun(a)
  BY <1>36 DEF EndOfRun
<1>37. CASE CreateCollectionJob(a)
  BY <1>37 DEF CreateCollectionJob
<1>38. CASE EndOfReindex(a)
  BY <1>38 DEF EndOfReindex
<1>39. CASE BeginRewrite(a)
  BY <1>39 DEF BeginRewrite
<1>40. CASE EndRewrite(a)
  BY <1>40 DEF EndRewrite
<1>41. CASE LockedCollectionMeta(a)
  BY <1>41 DEF LockedCollectionMeta
<1>42. CASE UpdateCollectionMeta(a)
  BY <1>42 DEF UpdateCollectionMeta, Upserted
<1>43. CASE StartPruning(a)
  BY <1>43 DEF StartPruning
<1>44. CASE PruneExpiredChunks(a)
  BY <1>44 DEF PruneExpiredChunks
<1>45. CASE EnsureAbsent(a)
  BY <1>45 DEF EnsureAbsent
<1>46. CASE CheckOverwrite(a)
  BY <1>46 DEF CheckOverwrite
<1>47. CASE OverwriteTable(a)
  BY <1>47 DEF OverwriteTable
<1>48. CASE OverwriteMeta(a)
  BY <1>48 DEF OverwriteMeta, Unlisted
<1>49. CASE StartSync(a)
  BY <1>49 DEF StartSync
<1>50. CASE RegisterWriter(a)
  BY <1>50 DEF RegisterWriter
<1>51. CASE StartSyncDrop(a)
  BY <1>51 DEF StartSyncDrop
<1>52. CASE DropIfIdle(a)
  BY <1>52 DEF DropIfIdle
<1>53. CASE SyncDropTable(a)
  BY <1>53 DEF SyncDropTable
<1>54. CASE TimeOut(a)
  <2>1. config' \in Nat /\ saved' \in Nat
    BY <1>54, <1>rb DEF TimeOut
  <2>2. failed' \subseteq Namespaces
    BY <1>54 DEF TimeOut
  <2> QED
    BY <1>54, <2>1, <2>2 DEF TimeOut
<1> QED
  BY <1>1, <1>2, <1>3, <1>4, <1>5, <1>6, <1>7, <1>8, <1>9, <1>10, <1>11,
    <1>12, <1>13, <1>14, <1>15, <1>16, <1>17, <1>18, <1>19, <1>20, <1>21,
    <1>22, <1>23, <1>24, <1>25, <1>26, <1>27, <1>28, <1>29, <1>30, <1>31,
    <1>32, <1>33, <1>34, <1>35, <1>36, <1>37, <1>38, <1>39, <1>40, <1>41,
    <1>42, <1>43, <1>44, <1>45, <1>46, <1>47, <1>48, <1>49, <1>50, <1>51,
    <1>52, <1>53, <1>54
  DEF Step

-----------------------------------------------------------------------------
(***************************************************************************)
(* The inductive invariant and the theorems.                               *)
(***************************************************************************)
LEMMA Inductive ==
  ASSUME IInv, [Next]_vars
  PROVE  IInv'
<1> USE DEF IInv
<1>1. ASSUME NEW a \in Actors, Step(a)
      PROVE  IInv'
  <2>1. act \in Records /\ lock \in Actors \cup {"none"}
    BY DEF TypeOK, Records
  <2>2. Good(a)
    BY <1>1, GoodStep DEF LockHeld
  <2>3. act' \in Records /\ LockHeld' /\ OpFits' /\ DropExcludesWriters'
    BY <2>1, <2>2, ExclusionStep
  <2>4. Others(a) /\ lock' \in Actors \cup {"none"}
    BY <2>1, <2>2 DEF Good, Moves, Allowed
  <2>5. Kept(a)
    BY <1>1, DataStep
  <2>6. ClaimHolds' /\ DropEmpties' /\ RowsOwned'
    BY <2>4, <2>5, RowsStep
  <2>7. Typed
    BY <1>1, TypeStep
  <2>8. TypeOK'
    BY <2>3, <2>4, <2>7 DEF TypeOK, Typed, Records
  <2> QED
    BY <2>3, <2>6, <2>8
<1>2. CASE Crash
  <2>1. /\ act' = [a \in Actors |-> Idle]
        /\ lock' = "none"
        /\ \A a \in Actors : act'[a].op = "none" /\ act'[a].pc = "idle"
    BY <1>2, IdleRecord DEF Crash
  <2>2. TypeOK'
    BY <1>2, <2>1, IdleRecord DEF Crash, TypeOK, data, history, Ns, Acts
  <2>3. LockHeld' /\ OpFits' /\ ClaimHolds' /\ DropEmpties'
    BY <2>1, IdleRests, NoneAssumption
       DEF LockHeld, OpFits, ClaimHolds, DropEmpties, At
  <2>4. DropExcludesWriters'
    BY <2>1, IdleRests DEF DropExcludesWriters
  <2>5. RowsOwned'
    BY <1>2 DEF Crash, RowsOwned, data, history
  <2> QED
    BY <2>2, <2>3, <2>4, <2>5
<1>3. CASE UNCHANGED vars
  BY <1>3 DEF vars, TypeOK, LockHeld, OpFits, DropExcludesWriters, ClaimHolds,
              DropEmpties, RowsOwned, LockedJob, JobAtWork, WriterAtWork, At, Ns
<1> QED
  BY <1>1, <1>2, <1>3 DEF Next

LEMMA Initial == Init => IInv
<1> SUFFICES ASSUME Init PROVE IInv
  OBVIOUS
<1>1. \A a \in Actors : act[a].op = "none" /\ act[a].pc = "idle"
  BY IdleRecord DEF Init
<1>2. TypeOK
  BY IdleRecord DEF Init, TypeOK
<1>3. LockHeld /\ OpFits /\ ClaimHolds /\ DropEmpties
  BY <1>1, IdleRests, NoneAssumption
     DEF Init, LockHeld, OpFits, ClaimHolds, DropEmpties, At
<1>4. DropExcludesWriters
  BY <1>1, IdleRests DEF DropExcludesWriters
<1>5. RowsOwned
  BY DEF Init, RowsOwned
<1> QED
  BY <1>2, <1>3, <1>4, <1>5 DEF IInv

(* The inductive invariant holds in every reachable state, for every       *)
(* number of coroutines and tenants and every set of operations started.   *)
THEOREM Invariance == Spec => []IInv
  BY Initial, Inductive, PTL DEF Spec

(* Every variable keeps its type: the lock has at most one holder, and a   *)
(* config entry count never becomes negative when a roll-back finds its    *)
(* entry gone (_rollback_config_entry).                                    *)
THEOREM TypeCorrect == Spec => []TypeOK
  BY Invariance, PTL DEF IInv

(* The check of jobs and writers under the collection lock is enough: no   *)
(* DELETE, sync drop or import overwrite is between its check and its      *)
(* release while a job created or claimed under the lock is at work, nor a *)
(* DELETE or a sync drop beside a registered writer.                       *)
THEOREM DropsExcludeWriters == Spec => []DropExcludesWriters
  BY Invariance, PTL DEF IInv

(* Rows in the table carry the namespace of the meta row, whatever fails   *)
(* and wherever the process dies, unless the roll-back of an add or an     *)
(* overwrite after a failed drop removed the row (ingest_chunks claims the *)
(* collection before its rows land).                                       *)
THEOREM RowsHaveTheirOwner == Spec => []RowsOwned
  BY Invariance, PTL DEF IInv

-----------------------------------------------------------------------------
(***************************************************************************)
(* A deleted collection stays gone (MCCollection, one tenant).             *)
(***************************************************************************)

(* Which operations reach the points of the pipeline, and how far an       *)
(* ingest is.                                                              *)
Fits(o, p) ==
    /\ p \in {"retry_wait", "spawned", "dispatch", "missing_wait"} => o \in IngestOps
    /\ p = "post_wait" => o = "ingest"
    /\ p = "register_wait" => o \in {"mcp", "sync"}
    /\ p = "create_wait" => o \in {"reindex", "metadata"}
    /\ p \in {"overwrite_wait", "overwrite", "overwrite_meta"} => o = "import"
    /\ p \in {"ensure", "batch_wait", "rows", "count"} => o \in Writers
    /\ p \in {"run", "erase_wait", "recompute_wait"} => o \in Writers \cup {"erase", "prune"}
    /\ o \in IngestOps => p \in {"post_wait", "retry_wait", "unlocked", "spawned"} \cup Working
PointsFit == \A a \in Actors : Fits(act[a].op, act[a].pc)

RowsInTable == rows # {} => table

OneTenant ==
    /\ meta \in {Default, "none"}
    /\ \A a \in Actors : act[a].ns = Default /\ act[a].op \notin {"foreign", "prune"}

(* The recompute of a document delete has read the row of the rows it      *)
(* scanned, so it writes none where that one is gone.                      *)
RecomputeSeen ==
    \A a \in Actors : act[a].op = "erase" /\ act[a].pc = "recompute_wait"
                         => act[a].row \/ disowned

(* After a DELETE nothing is left to build on, and nobody is at a point    *)
(* from which the table, the row, a config entry or a failed ingest comes  *)
(* back without a request.                                                 *)
Reviving == {"retry_wait", "unlocked", "spawned", "dispatch", "missing_wait", "ensure",
             "batch_wait", "rows", "count", "patch", "import_start", "overwrite_wait",
             "overwrite", "overwrite_meta", "prune"}
Resting(o, p, listed) ==
    /\ p \notin Reviving
    /\ p \in {"run", "erase_wait", "recompute_wait"} => o = "erase"
    /\ p = "drop" => listed = 0
Harmless(a) == Resting(act[a].op, act[a].pc, act[a].listed)
NothingLeft == /\ meta = "none" /\ ~table /\ config = 0 /\ saved = 0 /\ failed = {}
               /\ ~disowned

GoneInv ==
    /\ PointsFit /\ RowsInTable
    /\ scenario = "one_tenant" =>
          /\ OneTenant /\ RecomputeSeen
          /\ gone => NothingLeft /\ \A a \in Actors : Harmless(a)

(* Where the actor of a step is afterwards.                                *)
LEMMA Leads ==
  ASSUME NEW a \in Actors, act \in Records
  PROVE  /\ \A p : Goto(a, p) => /\ act'[a].pc = p /\ act'[a].op = act[a].op
                                 /\ act'[a].listed = act[a].listed
         /\ \A p, row : GotoWith(a, p, row) =>
               /\ act'[a].pc = p /\ act'[a].op = act[a].op
               /\ act'[a].listed = act[a].listed
         /\ End(a) => act'[a].pc = "idle" /\ act'[a].op = "none"
         /\ \A o, n, p, row, listed : BeginWith(a, o, n, p, row, listed) =>
               /\ act[a].pc = "idle" /\ act'[a].pc = p /\ act'[a].op = o
               /\ act'[a].listed = listed
  BY IdleRecord DEF Records, Acts, Goto, GotoWith, End, BeginWith, At

(* Every step leads to a point that fits its operation; one to the end of  *)
(* a scan is ScanVectors, and only a DELETE's success sets gone.           *)
Leading(a) ==
    /\ Fits(act'[a].op, act'[a].pc)
    /\ act'[a].pc = "recompute_wait" => ScanVectors(a)
    /\ gone' /\ ~gone => CheckDelete(a) \/ DropMeta(a)

LEMMA GotoLeads ==
  ASSUME NEW a \in Actors, act \in Records, NEW p, Goto(a, p), Fits(act[a].op, p),
         p # "recompute_wait", gone' => gone
  PROVE  Leading(a)
  BY Leads DEF Leading

LEMMA GotoWithLeads ==
  ASSUME NEW a \in Actors, act \in Records, NEW p, NEW row \in BOOLEAN, GotoWith(a, p, row),
         Fits(act[a].op, p), p = "recompute_wait" => ScanVectors(a), gone' => gone
  PROVE  Leading(a)
  BY Leads DEF Leading

LEMMA EndLeads ==
  ASSUME NEW a \in Actors, act \in Records, End(a), gone' => gone \/ DropMeta(a) \/ CheckDelete(a)
  PROVE  Leading(a)
<1>1. Fits("none", "idle")
  BY DEF Fits, IngestOps
<1> QED
  BY <1>1, Leads DEF Leading

LEMMA BeginLeads ==
  ASSUME NEW a \in Actors, act \in Records, NEW o, NEW n, NEW p, NEW row \in BOOLEAN, NEW listed,
         BeginWith(a, o, n, p, row, listed), Fits(o, p), p # "recompute_wait", gone' => gone
  PROVE  Leading(a)
  BY Leads DEF Leading

LEMMA LeadingStep ==
  ASSUME NEW a \in Actors, TypeOK, OpFits, PointsFit, Step(a)
  PROVE  Leading(a)
<1>0. /\ act \in Records /\ gone \in BOOLEAN
      /\ Fits(act[a].op, act[a].pc)
      /\ act[a].pc = "unlocked" => act[a].op = "foreign"
      /\ act[a].pc = "import_start" => act[a].op = "import"
      /\ act[a].pc = "prune" => act[a].op = "prune"
      /\ act[a].pc = "settle" => act[a].op = "erase"
  BY DEF TypeOK, Records, PointsFit, OpFits, At
<1> USE <1>0 DEF Fits, IngestOps, Writers, Working, At, Free, Holding, history, Runs
<1>1. ASSUME NEW n \in Namespaces, RemoveCollection(a, n) PROVE Leading(a)
  BY <1>1, BeginLeads DEF RemoveCollection
<1>2. ASSUME NEW n \in Namespaces, AddCollection(a, n) PROVE Leading(a)
  BY <1>2, BeginLeads DEF AddCollection, Begin
<1>3. ASSUME NEW n \in Namespaces, PostIngest(a, n) PROVE Leading(a)
  <2>1. CASE BeginWith(a, "ingest", n, "post_wait", FALSE, 0) /\ gone' = gone
    BY <2>1, BeginLeads
  <2>2. CASE BeginWith(a, "foreign", n, "unlocked", FALSE, 0) /\ gone' = FALSE
    BY <2>2, BeginLeads
  <2> QED
    BY <1>3, <2>1, <2>2 DEF PostIngest, Begin
<1>4. ASSUME NEW n \in Namespaces, RetryIngest(a, n) PROVE Leading(a)
  BY <1>4, BeginLeads DEF RetryIngest, Begin
<1>5. ASSUME NEW n \in Namespaces, PostMigrate(a, n) PROVE Leading(a)
  BY <1>5, BeginLeads DEF PostMigrate, Begin
<1>6. ASSUME NEW n \in Namespaces, PatchCollection(a, n) PROVE Leading(a)
  BY <1>6, BeginLeads DEF PatchCollection, Begin
<1>7. ASSUME NEW n \in Namespaces, DeleteDocument(a, n) PROVE Leading(a)
  BY <1>7, BeginLeads DEF DeleteDocument, Begin
<1>8. ASSUME NEW n \in Namespaces, StartImport(a, n) PROVE Leading(a)
  BY <1>8, BeginLeads DEF StartImport, Begin
<1>9. ASSUME NEW n \in Namespaces, McpIngest(a, n) PROVE Leading(a)
  BY <1>9, BeginLeads DEF McpIngest, Begin
<1>10. ASSUME NEW n \in Namespaces, NEW o \in Ops, PostCollectionJob(a, o, n)
       PROVE  Leading(a)
  BY <1>10, BeginLeads DEF PostCollectionJob, Begin
<1>11. CASE CheckDelete(a)
  <2>1. \A l : act' = [act EXCEPT ![a].pc = "drop", ![a].listed = l]
                => act'[a].pc = "drop" /\ act'[a].op = act[a].op
    BY DEF Records, Acts
  <2>2. CancelIngestRetries(a, Idle) => act'[a].pc = "idle" /\ act'[a].op = "none"
    BY CancelLands, IdleRecord
  <2>3. \/ act'[a].pc = "idle" /\ act'[a].op = "none"
        \/ act[a].pc = "delete_wait" /\ act'[a].pc = "drop" /\ act'[a].op = act[a].op
    BY <1>11, <2>1, <2>2, Leads DEF CheckDelete
  <2> QED
    BY <1>11, <2>3 DEF Leading
<1>12. CASE DropTable(a)
  <2>1. CASE CancelIngestRetries(a, [act[a] EXCEPT !.pc = "unmeta"])
    <3>1. act'[a].pc = "unmeta" /\ act'[a].op = act[a].op
      BY <2>1, CancelLands DEF Records, Acts
    <3> QED
      BY <1>12, <3>1 DEF DropTable, Leading
  <2>2. CASE End(a)
    BY <1>12, <2>2, EndLeads DEF DropTable
  <2> QED
    BY <1>12, <2>1, <2>2 DEF DropTable
<1>13. CASE DropMeta(a)
  BY <1>13, EndLeads DEF DropMeta
<1>14. CASE AppendConfig(a)
  BY <1>14, GotoLeads, EndLeads DEF AppendConfig
<1>15. CASE WriteStub(a)
  BY <1>15, GotoLeads, EndLeads DEF WriteStub
<1>16. CASE GetAddLock(a)
  BY <1>16, GotoLeads DEF GetAddLock
<1>17. CASE CreateAddJob(a)
  <2>1. CASE act' = [act EXCEPT ![a].op = "ingest", ![a].pc = "spawned"] /\ gone' = FALSE
    <3>1. act'[a].pc = "spawned" /\ act'[a].op = "ingest"
      BY <2>1 DEF Records, Acts
    <3> QED
      BY <2>1, <3>1 DEF Leading
  <2>2. CASE Goto(a, "undo_locked") /\ gone' = gone
    BY <1>17, <2>2, GotoLeads DEF CreateAddJob
  <2> QED
    BY <1>17, <2>1, <2>2 DEF CreateAddJob
<1>18. CASE UndoAdd(a)
  BY <1>18, EndLeads DEF UndoAdd
<1>19. CASE CreateIngestJob(a)
  BY <1>19, GotoLeads, EndLeads DEF CreateIngestJob
<1>20. CASE GetRetryLock(a)
  BY <1>20, GotoLeads DEF GetRetryLock
<1>21. CASE ClaimIngest(a)
  BY <1>21, GotoLeads, EndLeads DEF ClaimIngest
<1>22. CASE DispatchIngest(a)
  BY <1>22, GotoLeads, EndLeads DEF DispatchIngest
<1>23. CASE WriteMissingStub(a)
  BY <1>23, EndLeads DEF WriteMissingStub
<1>24. CASE EndOfIngest(a)
  BY <1>24, EndLeads DEF EndOfIngest
<1>25. CASE EnsureCollection(a)
  BY <1>25, GotoLeads DEF EnsureCollection
<1>26. CASE CreateTable(a)
  BY <1>26, GotoLeads DEF CreateTable
<1>27. CASE StartErase(a)
  BY <1>27, GotoLeads DEF StartErase
<1>28. CASE EraseDocument(a)
  BY <1>28, GotoLeads DEF EraseDocument
<1>29. CASE StartBatch(a)
  BY <1>29, GotoLeads DEF StartBatch
<1>30. CASE ClaimCollection(a)
  BY <1>30, GotoLeads, GotoWithLeads DEF ClaimCollection
<1>31. CASE AddRows(a)
  BY <1>31, GotoLeads, GotoWithLeads DEF AddRows
<1>32. CASE CountRows(a)
  BY <1>32, GotoWithLeads DEF CountRows
<1>33. CASE FinalizeAfterRemoval(a)
  BY <1>33, GotoLeads DEF FinalizeAfterRemoval
<1>34. CASE ScanVectors(a)
  <2>1. GotoWith(a, "recompute_wait", meta = Ns(a)) /\ gone' = gone
    BY <1>34 DEF ScanVectors
  <2>2. Fits(act[a].op, "recompute_wait")
    BY <1>34 DEF ScanVectors
  <2>3. (meta = Ns(a)) \in BOOLEAN
    OBVIOUS
  <2> QED
    BY <1>34, <2>1, <2>2, <2>3, GotoWithLeads
<1>35. CASE RecomputeCollectionMeta(a)
  BY <1>35, GotoWithLeads DEF RecomputeCollectionMeta
<1>36. CASE EndOfRun(a)
  BY <1>36, EndLeads DEF EndOfRun
<1>37. CASE CreateCollectionJob(a)
  BY <1>37, GotoLeads, EndLeads DEF CreateCollectionJob
<1>38. CASE EndOfReindex(a)
  BY <1>38, GotoLeads DEF EndOfReindex
<1>39. CASE BeginRewrite(a)
  BY <1>39, GotoLeads, EndLeads DEF BeginRewrite
<1>40. CASE EndRewrite(a)
  BY <1>40, GotoLeads, EndLeads DEF EndRewrite
<1>41. CASE LockedCollectionMeta(a)
  BY <1>41, GotoLeads, EndLeads DEF LockedCollectionMeta
<1>42. CASE UpdateCollectionMeta(a)
  BY <1>42, EndLeads DEF UpdateCollectionMeta
<1>43. CASE StartPruning(a)
  BY <1>43, BeginLeads DEF StartPruning, Begin
<1>44. CASE PruneExpiredChunks(a)
  BY <1>44, GotoLeads, EndLeads DEF PruneExpiredChunks
<1>45. CASE EnsureAbsent(a)
  BY <1>45, GotoLeads, EndLeads DEF EnsureAbsent
<1>46. CASE CheckOverwrite(a)
  BY <1>46, GotoLeads, GotoWithLeads, EndLeads DEF CheckOverwrite
<1>47. CASE OverwriteTable(a)
  BY <1>47, GotoLeads, EndLeads DEF OverwriteTable
<1>48. CASE OverwriteMeta(a)
  BY <1>48, GotoWithLeads, EndLeads DEF OverwriteMeta
<1>49. CASE StartSync(a)
  BY <1>49, BeginLeads DEF StartSync, Begin
<1>50. CASE RegisterWriter(a)
  BY <1>50, GotoLeads, EndLeads DEF RegisterWriter
<1>51. CASE StartSyncDrop(a)
  BY <1>51, BeginLeads DEF StartSyncDrop, Begin
<1>52. CASE DropIfIdle(a)
  BY <1>52, GotoLeads, EndLeads DEF DropIfIdle
<1>53. CASE SyncDropTable(a)
  BY <1>53, EndLeads DEF SyncDropTable
<1>54. CASE TimeOut(a)
  <2>1. gone' = gone
    BY <1>54 DEF TimeOut
  <2>2. CASE End(a)
    BY <2>1, <2>2, EndLeads
  <2>3. CASE act[a].pc = "add_wait" /\ Goto(a, "undo")
    BY <2>1, <2>3, GotoLeads
  <2>4. CASE /\ act[a].pc \in {"batch_wait", "erase_wait", "recompute_wait"}
             /\ GotoWith(a, "run", FALSE)
    BY <2>1, <2>4, GotoWithLeads
  <2> QED
    BY <1>54, <2>2, <2>3, <2>4 DEF TimeOut
<1> QED
  <2> HIDE DEF Fits, IngestOps, Writers, Working
  <2> QED
    BY <1>1, <1>2, <1>3, <1>4, <1>5, <1>6, <1>7, <1>8, <1>9, <1>10, <1>11,
       <1>12, <1>13, <1>14, <1>15, <1>16, <1>17, <1>18, <1>19, <1>20, <1>21,
       <1>22, <1>23, <1>24, <1>25, <1>26, <1>27, <1>28, <1>29, <1>30, <1>31,
       <1>32, <1>33, <1>34, <1>35, <1>36, <1>37, <1>38, <1>39, <1>40, <1>41,
       <1>42, <1>43, <1>44, <1>45, <1>46, <1>47, <1>48, <1>49, <1>50, <1>51,
       <1>52, <1>53, <1>54
    DEF Step

(* Rows are in a table, a row is written for the step's own tenant alone,  *)
(* and what was disowned stays so.                                         *)
Moving(a) ==
    /\ rows' # {} => table'
    /\ meta' \in {meta, "none", act[a].ns}
    /\ disowned => disowned'

LEMMA MovingStep ==
  ASSUME NEW a \in Actors, TypeOK, RowsInTable, Step(a)
  PROVE  Moving(a)
<1>0. table \in BOOLEAN /\ disowned \in BOOLEAN
  BY DEF TypeOK
<1> USE <1>0 DEF RowsInTable, Moving, Ns, data, history
<1>1. ASSUME NEW n \in Namespaces, RemoveCollection(a, n) PROVE Moving(a)
  BY <1>1 DEF RemoveCollection
<1>2. ASSUME NEW n \in Namespaces, AddCollection(a, n) PROVE Moving(a)
  BY <1>2 DEF AddCollection
<1>3. ASSUME NEW n \in Namespaces, PostIngest(a, n) PROVE Moving(a)
  BY <1>3 DEF PostIngest
<1>4. ASSUME NEW n \in Namespaces, RetryIngest(a, n) PROVE Moving(a)
  BY <1>4 DEF RetryIngest
<1>5. ASSUME NEW n \in Namespaces, PostMigrate(a, n) PROVE Moving(a)
  BY <1>5 DEF PostMigrate
<1>6. ASSUME NEW n \in Namespaces, PatchCollection(a, n) PROVE Moving(a)
  BY <1>6 DEF PatchCollection
<1>7. ASSUME NEW n \in Namespaces, DeleteDocument(a, n) PROVE Moving(a)
  BY <1>7 DEF DeleteDocument
<1>8. ASSUME NEW n \in Namespaces, StartImport(a, n) PROVE Moving(a)
  BY <1>8 DEF StartImport
<1>9. ASSUME NEW n \in Namespaces, McpIngest(a, n) PROVE Moving(a)
  BY <1>9 DEF McpIngest
<1>10. ASSUME NEW n \in Namespaces, NEW o \in Ops, PostCollectionJob(a, o, n)
       PROVE  Moving(a)
  BY <1>10 DEF PostCollectionJob
<1>11. CASE CheckDelete(a)
  BY <1>11 DEF CheckDelete
<1>12. CASE DropTable(a)
  BY <1>12 DEF DropTable
<1>13. CASE DropMeta(a)
  BY <1>13 DEF DropMeta, Unlisted
<1>14. CASE AppendConfig(a)
  BY <1>14 DEF AppendConfig
<1>15. CASE WriteStub(a)
  BY <1>15 DEF WriteStub
<1>16. CASE GetAddLock(a)
  BY <1>16 DEF GetAddLock
<1>17. CASE CreateAddJob(a)
  BY <1>17 DEF CreateAddJob
<1>18. CASE UndoAdd(a)
  BY <1>18 DEF UndoAdd, Unlisted
<1>19. CASE CreateIngestJob(a)
  BY <1>19 DEF CreateIngestJob
<1>20. CASE GetRetryLock(a)
  BY <1>20 DEF GetRetryLock
<1>21. CASE ClaimIngest(a)
  BY <1>21 DEF ClaimIngest
<1>22. CASE DispatchIngest(a)
  BY <1>22 DEF DispatchIngest
<1>23. CASE WriteMissingStub(a)
  BY <1>23 DEF WriteMissingStub, Upserted
<1>24. CASE EndOfIngest(a)
  BY <1>24 DEF EndOfIngest
<1>25. CASE EnsureCollection(a)
  BY <1>25 DEF EnsureCollection
<1>26. CASE CreateTable(a)
  <2>1. rows' = rows /\ meta' = meta /\ disowned' = disowned /\ table' \in {table, TRUE}
    BY <1>26 DEF CreateTable
  <2>2. table => table'
    BY <2>1
  <2> QED
    BY <2>1, <2>2
<1>27. CASE StartErase(a)
  BY <1>27 DEF StartErase
<1>28. CASE EraseDocument(a)
  BY <1>28 DEF EraseDocument
<1>29. CASE StartBatch(a)
  BY <1>29 DEF StartBatch
<1>30. CASE ClaimCollection(a)
  BY <1>30 DEF ClaimCollection
<1>31. CASE AddRows(a)
  BY <1>31 DEF AddRows, Unlisted
<1>32. CASE CountRows(a)
  BY <1>32 DEF CountRows, Upserted
<1>33. CASE FinalizeAfterRemoval(a)
  BY <1>33 DEF FinalizeAfterRemoval
<1>34. CASE ScanVectors(a)
  BY <1>34 DEF ScanVectors
<1>35. CASE RecomputeCollectionMeta(a)
  BY <1>35 DEF RecomputeCollectionMeta, Upserted
<1>36. CASE EndOfRun(a)
  BY <1>36 DEF EndOfRun
<1>37. CASE CreateCollectionJob(a)
  BY <1>37 DEF CreateCollectionJob
<1>38. CASE EndOfReindex(a)
  BY <1>38 DEF EndOfReindex
<1>39. CASE BeginRewrite(a)
  BY <1>39 DEF BeginRewrite
<1>40. CASE EndRewrite(a)
  BY <1>40 DEF EndRewrite
<1>41. CASE LockedCollectionMeta(a)
  BY <1>41 DEF LockedCollectionMeta
<1>42. CASE UpdateCollectionMeta(a)
  BY <1>42 DEF UpdateCollectionMeta, Upserted
<1>43. CASE StartPruning(a)
  BY <1>43 DEF StartPruning
<1>44. CASE PruneExpiredChunks(a)
  BY <1>44 DEF PruneExpiredChunks
<1>45. CASE EnsureAbsent(a)
  BY <1>45 DEF EnsureAbsent
<1>46. CASE CheckOverwrite(a)
  BY <1>46 DEF CheckOverwrite
<1>47. CASE OverwriteTable(a)
  BY <1>47 DEF OverwriteTable
<1>48. CASE OverwriteMeta(a)
  <2>1. rows' = rows /\ table' = table
    BY <1>48 DEF OverwriteMeta
  <2>2. meta' \in {meta, "none"}
    BY <1>48 DEF OverwriteMeta, Unlisted
  <2>3. disowned => disowned'
    BY <1>48 DEF OverwriteMeta
  <2> QED
    BY <2>1, <2>2, <2>3
<1>49. CASE StartSync(a)
  BY <1>49 DEF StartSync
<1>50. CASE RegisterWriter(a)
  BY <1>50 DEF RegisterWriter
<1>51. CASE StartSyncDrop(a)
  BY <1>51 DEF StartSyncDrop
<1>52. CASE DropIfIdle(a)
  BY <1>52 DEF DropIfIdle
<1>53. CASE SyncDropTable(a)
  BY <1>53 DEF SyncDropTable
<1>54. CASE TimeOut(a)
  BY <1>54 DEF TimeOut
<1> QED
  <2> HIDE DEF RowsInTable, Moving
  <2> QED
    BY <1>1, <1>2, <1>3, <1>4, <1>5, <1>6, <1>7, <1>8, <1>9, <1>10, <1>11,
       <1>12, <1>13, <1>14, <1>15, <1>16, <1>17, <1>18, <1>19, <1>20, <1>21,
       <1>22, <1>23, <1>24, <1>25, <1>26, <1>27, <1>28, <1>29, <1>30, <1>31,
       <1>32, <1>33, <1>34, <1>35, <1>36, <1>37, <1>38, <1>39, <1>40, <1>41,
       <1>42, <1>43, <1>44, <1>45, <1>46, <1>47, <1>48, <1>49, <1>50, <1>51,
       <1>52, <1>53, <1>54
    DEF Step

(* A document delete that goes to its recompute has read the row: without  *)
(* one there are no vectors to recompute from, but those of a disowned     *)
(* table.                                                                  *)
LEMMA SeenStep ==
  ASSUME NEW a \in Actors, IInv, OneTenant, RecomputeSeen, Leading(a), Moving(a), Good(a)
  PROVE  RecomputeSeen'
<1> SUFFICES ASSUME NEW b \in Actors, act'[b].op = "erase", act'[b].pc = "recompute_wait"
             PROVE  act'[b].row \/ disowned'
  BY DEF RecomputeSeen
<1>1. CASE b # a
  <2>1. act'[b] = act[b] \/ act'[b] = Idle
    BY <1>1 DEF Good, Moves, Others
  <2> QED
    BY <2>1, IdleRecord DEF RecomputeSeen, Moving
<1>2. CASE b = a
  <2>1. ScanVectors(a)
    BY <1>2 DEF Leading
  <2>2. act'[a].op = act[a].op /\ act'[a].row = (meta = Ns(a))
    BY <2>1 DEF ScanVectors, GotoWith, IInv, TypeOK, Acts
  <2>3. meta = Ns(a) \/ rows # {}
    BY <1>2, <2>1, <2>2 DEF ScanVectors
  <2>4. meta # Ns(a) => meta = "none"
    BY DEF OneTenant, Ns
  <2>5. rows # {} /\ meta = "none" => disowned
    BY NoneAssumption DEF IInv, RowsOwned, TypeOK
  <2>6. disowned' = disowned
    BY <2>1 DEF ScanVectors, history
  <2> QED
    BY <1>2, <2>2, <2>3, <2>4, <2>5, <2>6
<1> QED
  BY <1>1, <1>2

-----------------------------------------------------------------------------
(***************************************************************************)
(* A step after the DELETE: nothing comes back.                            *)
(***************************************************************************)
Quiet(a) == gone' => NothingLeft' /\ Harmless(a)'

LEMMA GotoQuiet ==
  ASSUME NEW a \in Actors, act \in Records, NEW p, Goto(a, p),
         Resting(act[a].op, p, act[a].listed), NothingLeft'
  PROVE  Quiet(a)
  BY Leads DEF Quiet, Harmless

LEMMA GotoWithQuiet ==
  ASSUME NEW a \in Actors, act \in Records, NEW p, NEW row \in BOOLEAN, GotoWith(a, p, row),
         Resting(act[a].op, p, act[a].listed), NothingLeft'
  PROVE  Quiet(a)
  BY Leads DEF Quiet, Harmless

LEMMA IdlePoint == \A o, l : Resting(o, "idle", l)
  BY DEF Resting, Reviving

LEMMA EndQuiet ==
  ASSUME NEW a \in Actors, act \in Records, End(a), NothingLeft'
  PROVE  Quiet(a)
  BY Leads, IdlePoint DEF Quiet, Harmless

LEMMA BeginQuiet ==
  ASSUME NEW a \in Actors, act \in Records, NEW o, NEW n, NEW p, NEW row \in BOOLEAN, NEW listed,
         BeginWith(a, o, n, p, row, listed), Resting(o, p, listed), NothingLeft'
  PROVE  Quiet(a)
  BY Leads DEF Quiet, Harmless

LEMMA QuietStep ==
  ASSUME NEW a \in Actors, IInv, PointsFit, RowsInTable, OneTenant, RecomputeSeen,
         gone, NothingLeft, Harmless(a), Step(a)
  PROVE  Quiet(a)
<1>0. /\ act \in Records /\ gone \in BOOLEAN /\ disowned \in BOOLEAN /\ table \in BOOLEAN
      /\ meta = "none" /\ ~table /\ rows = {} /\ config = 0 /\ saved = 0 /\ failed = {}
      /\ ~disowned
      /\ act[a].ns = Default /\ Default # "none" /\ "none" \notin Namespaces
      /\ Fits(act[a].op, act[a].pc)
      /\ Resting(act[a].op, act[a].pc, act[a].listed)
      /\ act[a].pc = "settle" => act[a].op = "erase"
  BY DefaultAssumption, NoneAssumption
     DEF IInv, TypeOK, Records, NothingLeft, RowsInTable, OneTenant, PointsFit, Harmless, OpFits, At
<1>00. ASSUME UNCHANGED <<meta, table, config, saved, failed, disowned>> PROVE NothingLeft'
  BY <1>0, <1>00 DEF NothingLeft
<1>000. ASSUME SaveBestEffort(0), UNCHANGED <<meta, table, failed, disowned>> PROVE NothingLeft'
  BY <1>0, <1>000 DEF NothingLeft, SaveBestEffort
<1> USE <1>0 DEF Resting, Reviving, At, Free, Holding, Runs, data, conf, history, Ns
<1>1. ASSUME NEW n \in Namespaces, RemoveCollection(a, n) PROVE Quiet(a)
  BY <1>1 DEF RemoveCollection
<1>2. ASSUME NEW n \in Namespaces, AddCollection(a, n) PROVE Quiet(a)
  BY <1>2, <1>00, BeginQuiet DEF AddCollection, Begin
<1>3. ASSUME NEW n \in Namespaces, PostIngest(a, n) PROVE Quiet(a)
  <2>1. CASE BeginWith(a, "ingest", n, "post_wait", FALSE, 0) /\ UNCHANGED <<data, conf, failed, disowned>>
    BY <2>1, <1>00, BeginQuiet
  <2>2. CASE gone' = FALSE
    BY <2>2 DEF Quiet
  <2> QED
    BY <1>3, <2>1, <2>2 DEF PostIngest, Begin
<1>4. ASSUME NEW n \in Namespaces, RetryIngest(a, n) PROVE Quiet(a)
  BY <1>4 DEF RetryIngest
<1>5. ASSUME NEW n \in Namespaces, PostMigrate(a, n) PROVE Quiet(a)
  BY <1>5 DEF PostMigrate
<1>6. ASSUME NEW n \in Namespaces, PatchCollection(a, n) PROVE Quiet(a)
  BY <1>6, <1>00, BeginQuiet DEF PatchCollection, Begin
<1>7. ASSUME NEW n \in Namespaces, DeleteDocument(a, n) PROVE Quiet(a)
  BY <1>7 DEF DeleteDocument
<1>8. ASSUME NEW n \in Namespaces, StartImport(a, n) PROVE Quiet(a)
  BY <1>8 DEF StartImport, Quiet
<1>9. ASSUME NEW n \in Namespaces, McpIngest(a, n) PROVE Quiet(a)
  BY <1>9, <1>00, BeginQuiet DEF McpIngest, Begin
<1>10. ASSUME NEW n \in Namespaces, NEW o \in Ops, PostCollectionJob(a, o, n)
       PROVE  Quiet(a)
  BY <1>10 DEF PostCollectionJob
<1>11. CASE CheckDelete(a)
  <2>1. meta' = "none" /\ ~table' /\ ~disowned'
    BY <1>11 DEF CheckDelete
  <2>2. SaveConfig(Unconfigured(a)) => config' = 0 /\ saved' = 0
    BY DEF SaveConfig, Unconfigured
  <2>3. CASE End(a) /\ UNCHANGED <<conf, failed>>
    BY <1>11, <2>3, <1>00, EndQuiet DEF CheckDelete
  <2>4. CASE /\ SaveConfig(Unconfigured(a))
             /\ act' = [act EXCEPT ![a].pc = "drop", ![a].listed = config - config']
             /\ failed' = failed
    <3>1. NothingLeft'
      BY <2>1, <2>2, <2>4 DEF NothingLeft
    <3>2. act'[a].pc = "drop" /\ act'[a].listed = 0
      BY <2>2, <2>4 DEF Records, Acts
    <3> QED
      BY <3>1, <3>2 DEF Quiet, Harmless
  <2>5. CASE SaveConfig(Unconfigured(a)) /\ CancelIngestRetries(a, Idle)
    <3>1. failed' = {}
      BY <2>5 DEF CancelIngestRetries
    <3>2. NothingLeft'
      BY <2>1, <2>2, <2>5, <3>1 DEF NothingLeft
    <3>3. act'[a].pc = "idle"
      BY <2>5, CancelLands, IdleRecord
    <3> QED
      BY <3>2, <3>3 DEF Quiet, Harmless
  <2> QED
    BY <1>11, <2>3, <2>4, <2>5 DEF CheckDelete
<1>12. CASE DropTable(a)
  <2>1. CASE /\ CancelIngestRetries(a, [act[a] EXCEPT !.pc = "unmeta"])
             /\ table' = FALSE /\ UNCHANGED <<meta, conf, disowned>>
    <3>1. failed' = {}
      BY <2>1 DEF CancelIngestRetries
    <3>2. NothingLeft'
      BY <2>1, <3>1 DEF NothingLeft
    <3>3. act'[a].pc = "unmeta"
      BY <2>1, CancelLands DEF Records, Acts
    <3> QED
      BY <3>2, <3>3 DEF Quiet, Harmless
  <2>2. CASE End(a) /\ SaveBestEffort(0) /\ UNCHANGED <<meta, table, failed, disowned>>
    BY <2>2, <1>000, EndQuiet
  <2> QED
    BY <1>12, <2>1, <2>2 DEF DropTable
<1>13. CASE DropMeta(a)
  <2>1. meta' = "none"
    BY <1>13 DEF DropMeta, Unlisted
  <2>2. NothingLeft'
    BY <1>13, <2>1, <1>00 DEF DropMeta
  <2> QED
    BY <1>13, <2>2, EndQuiet DEF DropMeta
<1>14. CASE AppendConfig(a)
  BY <1>14, <1>00, EndQuiet DEF AppendConfig, Quiet
<1>15. CASE WriteStub(a)
  <2>1. CASE gone' = FALSE
    BY <2>1 DEF Quiet
  <2>2. CASE RollBackEntry /\ End(a) /\ UNCHANGED meta
    BY <1>15, <2>2, <1>000, EndQuiet DEF WriteStub, RollBackEntry
  <2> QED
    BY <1>15, <2>1, <2>2 DEF WriteStub
<1>16. CASE GetAddLock(a)
  BY <1>16, <1>00, GotoQuiet DEF GetAddLock
<1>17. CASE CreateAddJob(a)
  <2>1. CASE gone' = FALSE
    BY <2>1 DEF Quiet
  <2>2. CASE RollBackEntry /\ Goto(a, "undo_locked")
    BY <1>17, <2>2, <1>000, GotoQuiet DEF CreateAddJob, RollBackEntry
  <2> QED
    BY <1>17, <2>1, <2>2 DEF CreateAddJob
<1>18. CASE UndoAdd(a)
  <2>1. meta' = "none" /\ disowned' = FALSE
    BY <1>18 DEF UndoAdd, Unlisted
  <2>2. NothingLeft'
    BY <1>18, <2>1 DEF UndoAdd, NothingLeft
  <2> QED
    BY <1>18, <2>2, EndQuiet DEF UndoAdd
<1>19. CASE CreateIngestJob(a)
  BY <1>19, <1>00, EndQuiet DEF CreateIngestJob, Quiet
<1>20. CASE GetRetryLock(a)
  BY <1>20 DEF GetRetryLock
<1>21. CASE ClaimIngest(a)
  BY <1>21 DEF ClaimIngest
<1>22. CASE DispatchIngest(a)
  BY <1>22 DEF DispatchIngest
<1>23. CASE WriteMissingStub(a)
  BY <1>23 DEF WriteMissingStub
<1>24. CASE EndOfIngest(a)
  BY <1>24 DEF EndOfIngest, IngestOps
<1>25. CASE EnsureCollection(a)
  BY <1>25 DEF EnsureCollection, Writers, IngestOps
<1>26. CASE CreateTable(a)
  BY <1>26 DEF CreateTable
<1>27. CASE StartErase(a)
  BY <1>27 DEF StartErase, Writers, IngestOps
<1>28. CASE EraseDocument(a)
  BY <1>28, <1>00, GotoQuiet DEF EraseDocument
<1>29. CASE StartBatch(a)
  BY <1>29 DEF StartBatch, Writers, IngestOps
<1>30. CASE ClaimCollection(a)
  BY <1>30 DEF ClaimCollection
<1>31. CASE AddRows(a)
  BY <1>31 DEF AddRows
<1>32. CASE CountRows(a)
  BY <1>32 DEF CountRows
<1>33. CASE FinalizeAfterRemoval(a)
  BY <1>33 DEF FinalizeAfterRemoval
<1>34. CASE ScanVectors(a)
  BY <1>34 DEF ScanVectors, Writers, IngestOps
<1>35. CASE RecomputeCollectionMeta(a)
  <2>1. act[a].row
    BY <1>35 DEF RecomputeCollectionMeta, RecomputeSeen
  <2>2. NothingLeft'
    BY <1>35, <2>1, <1>00 DEF RecomputeCollectionMeta
  <2> QED
    BY <1>35, <2>2, GotoWithQuiet DEF RecomputeCollectionMeta
<1>36. CASE EndOfRun(a)
  BY <1>36, <1>00, EndQuiet DEF EndOfRun
<1>37. CASE CreateCollectionJob(a)
  BY <1>37, <1>00, EndQuiet DEF CreateCollectionJob
<1>38. CASE EndOfReindex(a)
  BY <1>38 DEF EndOfReindex
<1>39. CASE BeginRewrite(a)
  BY <1>39, <1>00, GotoQuiet, EndQuiet DEF BeginRewrite
<1>40. CASE EndRewrite(a)
  BY <1>40, <1>00, GotoQuiet, EndQuiet DEF EndRewrite
<1>41. CASE LockedCollectionMeta(a)
  BY <1>41, <1>00, EndQuiet DEF LockedCollectionMeta
<1>42. CASE UpdateCollectionMeta(a)
  BY <1>42 DEF UpdateCollectionMeta
<1>43. CASE StartPruning(a)
  BY <1>43 DEF StartPruning
<1>44. CASE PruneExpiredChunks(a)
  BY <1>44 DEF PruneExpiredChunks
<1>45. CASE EnsureAbsent(a)
  BY <1>45 DEF EnsureAbsent
<1>46. CASE CheckOverwrite(a)
  BY <1>46 DEF CheckOverwrite
<1>47. CASE OverwriteTable(a)
  BY <1>47 DEF OverwriteTable
<1>48. CASE OverwriteMeta(a)
  BY <1>48 DEF OverwriteMeta
<1>49. CASE StartSync(a)
  BY <1>49 DEF StartSync
<1>50. CASE RegisterWriter(a)
  BY <1>50, <1>00, EndQuiet DEF RegisterWriter, Quiet
<1>51. CASE StartSyncDrop(a)
  BY <1>51 DEF StartSyncDrop
<1>52. CASE DropIfIdle(a)
  BY <1>52, <1>00, GotoQuiet, EndQuiet DEF DropIfIdle
<1>53. CASE SyncDropTable(a)
  <2>1. NothingLeft'
    BY <1>53 DEF SyncDropTable, NothingLeft
  <2> QED
    BY <1>53, <2>1, EndQuiet DEF SyncDropTable
<1>54. CASE TimeOut(a)
  <2>1. UNCHANGED <<meta, table, disowned, failed>>
    BY <1>54 DEF TimeOut
  <2>2. CASE act[a].pc = "stub_wait" /\ RollBackEntry /\ End(a)
    BY <2>1, <2>2, <1>000, EndQuiet DEF RollBackEntry
  <2>3. CASE act[a].pc = "add_wait" /\ RollBackEntry /\ Goto(a, "undo")
    BY <2>1, <2>3, <1>000, GotoQuiet DEF RollBackEntry
  <2>4. CASE /\ act[a].pc \in {"batch_wait", "erase_wait", "recompute_wait"}
             /\ GotoWith(a, "run", FALSE) /\ UNCHANGED conf
    BY <2>1, <2>4, <1>00, GotoWithQuiet
  <2>5. CASE End(a) /\ UNCHANGED conf
    BY <2>1, <2>5, <1>00, EndQuiet
  <2> QED
    BY <1>54, <2>2, <2>3, <2>4, <2>5 DEF TimeOut
<1> QED
  <2> HIDE DEF Resting, Reviving
  <2> QED
    BY <1>1, <1>2, <1>3, <1>4, <1>5, <1>6, <1>7, <1>8, <1>9, <1>10, <1>11,
       <1>12, <1>13, <1>14, <1>15, <1>16, <1>17, <1>18, <1>19, <1>20, <1>21,
       <1>22, <1>23, <1>24, <1>25, <1>26, <1>27, <1>28, <1>29, <1>30, <1>31,
       <1>32, <1>33, <1>34, <1>35, <1>36, <1>37, <1>38, <1>39, <1>40, <1>41,
       <1>42, <1>43, <1>44, <1>45, <1>46, <1>47, <1>48, <1>49, <1>50, <1>51,
       <1>52, <1>53, <1>54
    DEF Step

-----------------------------------------------------------------------------
(***************************************************************************)
(* The step in which a DELETE succeeds: whoever could bring the collection *)
(* back is a job or a writer, holds the lock or is cancelled.              *)
(***************************************************************************)
LEMMA BystanderRests ==
  ASSUME NEW b \in Actors, PointsFit, OpFits, OneTenant, act[b].pc \notin Locked,
         ~JobAtWork(b), ~WriterAtWork(b), ~Pending(b)
  PROVE  Harmless(b)
<1>1. /\ Fits(act[b].op, act[b].pc)
      /\ act[b].op \notin {"foreign", "prune"}
      /\ act[b].pc = "import_start" => act[b].op = "import"
      /\ act[b].pc = "prune" => act[b].op = "prune"
  BY DEF PointsFit, OpFits, OneTenant, At
<1>2. act[b].pc \notin {"drop", "spawned", "rows", "count", "patch", "overwrite",
                        "overwrite_meta"}
  BY DEF Locked
<1>3. act[b].op \in Writers => act[b].pc \notin Working
  BY DEF Writers, JobAtWork, WriterAtWork
<1>4. act[b].pc \notin {"import_start", "overwrite_wait"}
  BY <1>1 DEF Fits, JobAtWork, Importing
<1>5. act[b].pc \notin {"dispatch", "missing_wait", "ensure", "batch_wait"}
  BY <1>1, <1>3 DEF Fits, Working, Writers
<1>6. act[b].pc \in {"run", "erase_wait", "recompute_wait"} => act[b].op = "erase"
  BY <1>1, <1>3 DEF Fits, Working
<1>7. act[b].pc \notin {"retry_wait", "unlocked", "prune"}
  BY <1>1 DEF Pending
<1> QED
  BY <1>2, <1>4, <1>5, <1>6, <1>7 DEF Harmless, Resting, Reviving

LEMMA DeleteStep ==
  ASSUME NEW a \in Actors, IInv, PointsFit, OneTenant, ~gone, gone',
         CheckDelete(a) \/ DropMeta(a), Good(a)
  PROVE  NothingLeft' /\ \A b \in Actors : Harmless(b)'
<1>1. /\ Deleted(a) /\ disowned' = disowned /\ act'[a] = Idle
      /\ \A b \in Actors \ {a} : act[b].pc \notin Locked /\ ~WriterAtWork(b)
      /\ meta' = "none"
  <2>0. act \in Records /\ gone \in BOOLEAN /\ a # "none"
    BY NoneAssumption DEF IInv, TypeOK, Records
  <2>1. CASE CheckDelete(a)
    <3>1. /\ lock = "none" /\ disowned' = disowned /\ meta' = meta
          /\ StillVisible(a) /\ ~Busy(a) /\ ~SeesRow(a)
          /\ CancelIngestRetries(a, Idle) /\ Deleted(a)
      BY <2>0, <2>1 DEF CheckDelete, Free, data
    <3>2. act'[a] = Idle
      BY <2>0, <3>1 DEF CancelIngestRetries, Records
    <3>3. \A b \in Actors : act[b].pc \notin Locked
      BY <3>1, NoneAssumption DEF IInv, LockHeld
    <3> QED
      BY <3>1, <3>2, <3>3 DEF StillVisible, Busy
  <2>2. CASE DropMeta(a)
    <3>1. /\ lock = a /\ act[a].pc = "unmeta" /\ disowned' = disowned
          /\ Deleted(a) /\ End(a) /\ meta' = Unlisted(Ns(a))
      BY <2>0, <2>2 DEF DropMeta, Holding, At
    <3>2. act'[a] = Idle
      BY <2>0, <3>1 DEF End, Records
    <3>3. \A b \in Actors \ {a} : act[b].pc \notin Locked
      BY <3>1 DEF IInv, LockHeld
    <3>4. \A b \in Actors \ {a} : ~WriterAtWork(b)
      BY <3>1 DEF IInv, DropExcludesWriters, Dropping
    <3>5. meta' = "none"
      BY <3>1 DEF OneTenant, Unlisted, Ns
    <3> QED
      BY <3>1, <3>2, <3>3, <3>4, <3>5
  <2> QED
    BY <2>1, <2>2
<1>2. /\ ~table' /\ ~disowned /\ config' = 0 /\ saved' = 0 /\ failed' = {}
      /\ ~OtherJob(a)
      /\ \A b \in Actors : act'[b].pc \notin {"retry_wait", "unlocked"}
  BY <1>1 DEF Deleted
<1>3. NothingLeft'
  BY <1>1, <1>2 DEF NothingLeft
<1>4. ASSUME NEW b \in Actors PROVE Harmless(b)'
  <2>1. CASE act'[b] = Idle
    BY <2>1, IdleRecord, IdlePoint DEF Harmless
  <2>2. CASE b # a /\ act'[b] = act[b]
    <3>1. ~JobAtWork(b) /\ ~Pending(b)
      BY <1>2, <2>2 DEF OtherJob, Pending
    <3>2. Harmless(b)
      BY <1>1, <2>2, <3>1, BystanderRests DEF IInv
    <3> QED
      BY <2>2, <3>2 DEF Harmless
  <2> QED
    BY <1>1, <2>1, <2>2 DEF Good, Moves, Others
<1> QED
  BY <1>3, <1>4

-----------------------------------------------------------------------------
(***************************************************************************)
(* The invariant of both scenarios.                                        *)
(***************************************************************************)
LEMMA GoneStep ==
  ASSUME NEW a \in Actors, IInv, GoneInv, Step(a), UNCHANGED scenario,
         scenario = "one_tenant" =>
            \A b \in Actors : act'[b].ns = Default /\ act'[b].op \notin {"foreign", "prune"}
  PROVE  GoneInv'
<1>1. Good(a)
  BY GoodStep DEF IInv, LockHeld
<1>2. Leading(a)
  BY LeadingStep DEF IInv, GoneInv
<1>3. Moving(a)
  BY MovingStep DEF IInv, GoneInv
<1>4. PointsFit'
  <2> SUFFICES ASSUME NEW b \in Actors PROVE Fits(act'[b].op, act'[b].pc)
    BY DEF PointsFit
  <2>1. b = a \/ act'[b] = act[b] \/ act'[b] = Idle
    BY <1>1 DEF Good, Moves, Others
  <2>2. Fits("none", "idle")
    BY DEF Fits, IngestOps
  <2> QED
    BY <1>2, <2>1, <2>2, IdleRecord DEF Leading, GoneInv, PointsFit
<1>5. RowsInTable'
  BY <1>3 DEF Moving, RowsInTable
<1>6. ASSUME scenario = "one_tenant"
      PROVE  /\ OneTenant' /\ RecomputeSeen'
             /\ gone' => NothingLeft' /\ \A b \in Actors : Harmless(b)'
  <2>1. OneTenant /\ RecomputeSeen
    BY <1>6 DEF GoneInv
  <2>2. OneTenant'
    BY <1>3, <1>6, <2>1 DEF Moving, OneTenant
  <2>3. RecomputeSeen'
    BY <1>1, <1>2, <1>3, <2>1, SeenStep
  <2>4. CASE gone
    <3>1. NothingLeft /\ \A b \in Actors : Harmless(b)
      BY <1>6, <2>4 DEF GoneInv
    <3>2. Quiet(a)
      BY <2>1, <2>4, <3>1, QuietStep DEF GoneInv
    <3>3. ASSUME NEW b \in Actors, b # a PROVE Harmless(b)'
      <4>1. act'[b] = act[b] \/ act'[b] = Idle
        BY <1>1, <3>3 DEF Good, Moves, Others
      <4> QED
        BY <3>1, <4>1, IdleRecord, IdlePoint DEF Harmless
    <3> QED
      BY <2>2, <2>3, <3>2, <3>3 DEF Quiet
  <2>5. CASE ~gone
    BY <1>1, <1>2, <2>1, <2>2, <2>3, <2>5, DeleteStep DEF Leading, GoneInv
  <2> QED
    BY <2>4, <2>5
<1> QED
  BY <1>4, <1>5, <1>6 DEF GoneInv

(* A crash ends every task; after the DELETE it finds no saved config      *)
(* entry and no unfinished ingest to report as failed.                     *)
LEMMA GoneCrash ==
  ASSUME IInv, GoneInv, Crash, UNCHANGED scenario
  PROVE  GoneInv'
<1>1. \A a \in Actors : act'[a] = Idle
  BY DEF Crash
<1>2. UNCHANGED <<table, rows, meta, saved, gone, disowned>> /\ config' = saved
  BY DEF Crash, data, history
<1>3. PointsFit'
  <2>1. Fits("none", "idle")
    BY DEF Fits, IngestOps
  <2> QED
    BY <1>1, <2>1, IdleRecord DEF PointsFit
<1>4. RowsInTable'
  BY <1>2 DEF GoneInv, RowsInTable
<1>5. ASSUME scenario = "one_tenant"
      PROVE  /\ OneTenant' /\ RecomputeSeen'
             /\ gone' => NothingLeft' /\ \A b \in Actors : Harmless(b)'
  <2>1. OneTenant'
    <3>1. Idle.ns = Default
      BY DEF Idle
    <3> QED
      BY <1>1, <1>2, <1>5, <3>1, IdleRecord DEF GoneInv, OneTenant
  <2>2. RecomputeSeen'
    BY <1>1, IdleRecord DEF RecomputeSeen
  <2>3. \A b \in Actors : Harmless(b)'
    BY <1>1, IdleRecord, IdlePoint DEF Harmless
  <2>4. ASSUME gone PROVE NothingLeft'
    <3>1. NothingLeft /\ \A b \in Actors : Harmless(b)
      BY <1>5, <2>4 DEF GoneInv
    <3>2. ASSUME NEW b \in Actors, act[b].op \in IngestOps, ~At(b, "post_wait") PROVE FALSE
      <4>1. /\ Fits(act[b].op, act[b].pc)
            /\ Resting(act[b].op, act[b].pc, act[b].listed)
        BY <3>1 DEF GoneInv, PointsFit, Harmless
      <4> QED
        BY <3>2, <4>1 DEF Fits, Resting, Reviving, Working, IngestOps, At
    <3>3. failed' = failed
      BY <3>2 DEF Crash
    <3> QED
      BY <1>2, <3>1, <3>3 DEF NothingLeft
  <2> QED
    BY <1>2, <2>1, <2>2, <2>3, <2>4
<1> QED
  BY <1>3, <1>4, <1>5 DEF GoneInv

LEMMA GoneNext == IInv /\ GoneInv /\ [MCNext]_<<vars, scenario>> => GoneInv'
<1> SUFFICES ASSUME IInv, GoneInv, [MCNext]_<<vars, scenario>> PROVE GoneInv'
  OBVIOUS
<1>1. CASE MCNext
  BY <1>1, GoneStep, GoneCrash DEF MCNext, Next
<1>2. CASE UNCHANGED <<vars, scenario>>
  BY <1>2 DEF vars, GoneInv, PointsFit, RowsInTable, OneTenant, RecomputeSeen, NothingLeft,
              Harmless
<1> QED
  BY <1>1, <1>2

LEMMA GoneInitial == MCInit => GoneInv
<1> SUFFICES ASSUME MCInit PROVE GoneInv
  OBVIOUS
<1>1. \A a \in Actors : act[a] = Idle
  <2>1. act = [a \in Actors |-> Idle]
    BY Zenon DEF MCInit, Init
  <2> QED
    BY <2>1, Zenon
<1>2. Fits("none", "idle") /\ Idle.ns = Default
  BY DEF Fits, IngestOps, Idle
<1>3. PointsFit /\ RowsInTable
  BY <1>1, <1>2, IdleRecord DEF MCInit, Init, PointsFit, RowsInTable
<1>4. OneTenant /\ RecomputeSeen /\ ~gone
  BY <1>1, <1>2, IdleRecord DEF MCInit, Init, OneTenant, RecomputeSeen
<1> QED
  BY <1>3, <1>4 DEF GoneInv

(* A DELETE /collections/{name} that succeeded (remove_collection) is not  *)
(* undone by whatever was under way: no pending or retried ingest          *)
(* (cancel_ingest_retries), sync, read-modify-write of the row, import,    *)
(* document delete (recompute_collection_meta) or restart brings the table *)
(* or the row back without a new request, for every number of coroutines   *)
(* of the one tenant.                                                      *)
THEOREM DeletedIsGone == MCSpec => []DeletedStaysGone
<1>1. MCInit => IInv /\ GoneInv
  BY Initial, GoneInitial DEF MCInit
<1>2. IInv /\ GoneInv /\ [MCNext]_<<vars, scenario>> => (IInv /\ GoneInv)'
  <2>1. [MCNext]_<<vars, scenario>> => [Next]_vars
    BY DEF MCNext
  <2> QED
    BY <2>1, GoneNext, Inductive
<1>3. GoneInv => DeletedStaysGone
  BY DEF GoneInv, NothingLeft, DeletedStaysGone, GoneStaysGone
<1> QED
  BY <1>1, <1>2, <1>3, PTL DEF MCSpec

=============================================================================
