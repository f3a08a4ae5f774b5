CONSTANTS
    Files = {f1, f2}
    Runs = {"sync", "watch"}
    MaxEdits = 2
    Faults = {"file", "state", "run", "crash", "drop"}
    MaxFaults = 1
    Racing = TRUE
    Archive <- ArchiveLines
    Imports = {"a", "b"}
    Intervals = {1, 2}
    MaxTroubles = 2
    Documents = {1, 2}
    Writers = {1, 2}
    Kinds = {"ingest", "delete", "prune"}
    Describing = {TRUE, FALSE}
    RecomputeAt = 3
    MaxWrites = 2
    Docs = {1, 2}
    CodeDocs = {1, 2}
    GraphWriters = {"v", "w"}
    MaxGraphWrites = 2
    MaxGraphFaults = 1
    MaxAttempts = 2
    MaxAge = 1
    EvictAge = 2
    LastDay = 3
    MaxSubmits = 1
    MaxFailedWrites = 1
    MaxBefore = 1
SPECIFICATION DocumentsSpec
SYMMETRY Symmetry
INVARIANTS FilesRecorded CountsTrue GraphWhole
PROPERTIES NoCrashLoop ImportsWhole RetriesHeld
CHECK_DEADLOCK FALSE
