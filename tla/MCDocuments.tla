---------------------------- MODULE MCDocuments -----------------------------
(***************************************************************************)
(* Components that share no state, model-checked in one run for their      *)
(* safety properties: the first state chooses one of them (part), the      *)
(* others rest.  Here: what keeps documents and their tables right.        *)
(***************************************************************************)
EXTENDS FileSync, TLC

CONSTANTS Archive, Imports, Intervals, MaxTroubles,                                        \* ArchiveImport
          Documents, Writers, Kinds, Describing, RecomputeAt, MaxWrites,                   \* ChunkCounts
          Docs, CodeDocs, GraphWriters, MaxGraphWrites, MaxGraphFaults,                    \* EntityGraph
          MaxAttempts, MaxAge, EvictAge, LastDay, MaxSubmits, MaxFailedWrites, MaxBefore   \* RetryChain

VARIABLES part,
          phase, rows, flag, sentinel, syncResult, startup, others, unsafe,   \* StartupGuard
          stock, metaRow, import, task, interval, troubles, removed, shrunk, writers,   \* ArchiveImport
          held, tally, writer, tableLock, writes, torn, crossed, lagging, contested,   \* ChunkCounts
          live, mentions, nodes, edges, hand, sweep, graphLock, works, mends, touched, met,
          swept,   \* EntityGraph
          jobs, day, running, submits, failedWrites, since   \* RetryChain

\* Documents are numbered in the order of their ingests, which has an end; a writer is not called as the states of the lock.
ASSUME GraphFits ==
  /\ Docs \subseteq Nat \ {0} /\ CodeDocs \subseteq Docs /\ {"free", "gc"} \cap GraphWriters = {}
  /\ \A ds \in SUBSET Docs : ds # {} => \E d \in ds : \A e \in ds : e <= d

\* Finitely many documents; 0 is no document and no writer.
ASSUME CountsFit == IsFiniteSet(Documents) /\ 0 \notin Documents /\ 0 \notin Writers

Startup == INSTANCE StartupGuard
Imported == INSTANCE ArchiveImport
Counts == INSTANCE ChunkCounts
Graph == INSTANCE EntityGraph
Chain == INSTANCE RetryChain

startVars == <<phase, rows, flag, sentinel, syncResult, startup, others, unsafe>>
arcVars == <<stock, metaRow, import, task, interval, troubles, removed, shrunk, writers>>
countVars == <<held, tally, writer, tableLock, writes, torn, crossed, lagging, contested>>
graphVars == <<live, mentions, nodes, edges, hand, sweep, graphLock, works, mends, touched, met, swept>>
retryVars == <<jobs, day, running, submits, failedWrites, since>>
allVars == <<part, syncVars, startVars, arcVars, countVars, graphVars, retryVars>>

\* Where a part that rests stands: one of its first states is enough.
FilesRest == /\ disk = NoVersions /\ blank = {} /\ index = NoVersions /\ table = FALSE
             /\ entry = NoEntry /\ turn = [r \in Runs |-> Idle] /\ syncLock = NoLock
             /\ edits = 1 /\ faults = 0 /\ doomed = {}
ImportRests == /\ stock = Imported!NoStock /\ metaRow = FALSE /\ import = [j \in Imports |-> Imported!NoJob]
               /\ task = Imported!NoTask /\ interval = 1 /\ troubles = 0 /\ removed = {} /\ shrunk = FALSE
               /\ writers = {}
CountsRest == /\ held = [d \in Documents |-> 0] /\ tally = Counts!NoTally
              /\ writer = [w \in Writers |-> Counts!Resting] /\ tableLock = 0 /\ writes = 0
              /\ torn = FALSE /\ crossed = FALSE /\ lagging = FALSE /\ contested = FALSE
GraphRests == /\ live = [d \in Docs |-> Graph!Absent] /\ mentions = {} /\ nodes = [n \in Graph!Entities |-> 0]
              /\ edges = [e \in Graph!Edges |-> 0] /\ hand = [w \in GraphWriters |-> Graph!Off]
              /\ sweep = Graph!NoSweep /\ graphLock = "free" /\ works = 0 /\ mends = 0 /\ touched = {}
              /\ met = FALSE /\ swept = FALSE
RetriesRest == /\ jobs = <<>> /\ day = 0 /\ running = TRUE /\ submits = 0 /\ failedWrites = 0
               /\ since = [day |-> 0, retries |-> 0, barred |-> {}, leaked |-> FALSE]

DocumentsInit ==
  /\ part \in {"files", "startup", "imports", "counts", "graph", "retries"}
  /\ IF part = "files" THEN SyncInit ELSE FilesRest
  /\ Startup!StartInit
  /\ IF part = "imports" THEN Imported!ImportInit ELSE ImportRests
  /\ IF part = "counts" THEN Counts!CountInit ELSE CountsRest
  /\ IF part = "graph" THEN Graph!GraphInit ELSE GraphRests
  /\ IF part = "retries" THEN Chain!RetryInit ELSE RetriesRest

DocumentsNext ==
  \/ /\ part = "files" /\ SyncNext
     /\ UNCHANGED <<part, startVars, arcVars, countVars, graphVars, retryVars>>
  \/ /\ part = "startup" /\ Startup!StartNext
     /\ UNCHANGED <<part, syncVars, arcVars, countVars, graphVars, retryVars>>
  \/ /\ part = "imports" /\ Imported!ImportNext
     /\ UNCHANGED <<part, syncVars, startVars, countVars, graphVars, retryVars>>
  \/ /\ part = "counts" /\ Counts!CountNext
     /\ UNCHANGED <<part, syncVars, startVars, arcVars, graphVars, retryVars>>
  \/ /\ part = "graph" /\ Graph!GraphNext
     /\ UNCHANGED <<part, syncVars, startVars, arcVars, countVars, retryVars>>
  \/ /\ part = "retries" /\ Chain!RetryNext
     /\ UNCHANGED <<part, syncVars, startVars, arcVars, countVars, graphVars>>

DocumentsSpec == DocumentsInit /\ [][DocumentsNext]_allVars

\* An archive with a corrupt line and an undecodable chunk among its chunks.
ArchiveLines == <<"doc", "corrupt", "doc", "undecodable", "doc">>

Symmetry == Permutations(Files)

\* FileSync: a recorded mtime is that of the indexed version (RecordedIsIndexed), whatever files,
\* state writes, runs and the process failed at.
FilesRecorded ==
  part = "files" => SyncTypeOK /\ RecordedIsIndexed

\* StartupGuard: the server implements CrashGuard, the abstract crash-loop guard.
NoCrashLoop ==
  /\ [](part = "startup" => Startup!StartTypeOK)
  /\ Startup!NoCrashLoop

\* ArchiveImport: however often an import breaks and is resumed, no chunk is stored twice
\* (StoredOnce) or in a collection that another import wrote (OwnCollectionOnly), and a DONE one
\* stored every chunk that decodes and counts each line once (ImportComplete).
ImportsWhole ==
  /\ [](part = "imports" => Imported!ImportTypeOK /\ Imported!StoredOnce /\
                            Imported!OwnCollectionOnly)
  /\ Imported!ImportComplete

\* ChunkCounts: a row that asks for no recompute tells the table's counts, also to an ingest that it
\* lets end early (ShortCircuitSafe, CountsRight).
CountsTrue ==
  part = "counts" => Counts!CountTypeOK /\ Counts!ShortCircuitSafe /\ Counts!CountsRight

\* EntityGraph: a document's mentions are those of its last ingest and have their nodes
\* (MentionsFollow, MentionHasNode), relations have their ends (RelatedHasEnds), and a garbage
\* collection takes what no chunk supports (GcComplete) and no def/ref row (DefRefKept).
GraphWhole ==
  part = "graph" => Graph!GraphTypeOK /\ Graph!MentionHasNode /\ Graph!MentionsFollow /\
                    Graph!RelatedHasEnds /\ Graph!DefRefKept /\ Graph!GcComplete

\* RetryChain: at most retry_max_attempts retries (RetryBound), one try at a time (OneTry), none
\* after a cancel, a drop or a death (EndIsFinal) or past retry_max_age_hours (RetryInTime).
RetriesHeld ==
  /\ [](part = "retries" => Chain!RetryTypeOK /\ Chain!RetryBound /\ Chain!OneTry)
  /\ Chain!EndIsFinal
  /\ Chain!RetryInTime
=============================================================================
