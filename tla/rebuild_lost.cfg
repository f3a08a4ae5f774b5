CONSTANTS
    Settings <- ScheduledOnly
    Tasks = {t1, t2, t3}
    NoTask = NoTask
    FaultKinds = {}
    MaxFaults = 0
    MaxSynonyms = 2
    MaxRestarts = 0
SPECIFICATION Spec
INVARIANT RebuildKept
