CONSTANTS
    Files = {f1, f2}
    Runs = {"sync"}
    MaxEdits = 2
    Faults = {"crash"}
    MaxFaults = 1
    Racing = FALSE
SPECIFICATION SyncSpec
INVARIANTS RerunAfterCrash
CHECK_DEADLOCK FALSE
