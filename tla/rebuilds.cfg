CONSTANTS
    Settings <- EverySetting
    Tasks = {t1, t2, t3}
    NoTask = NoTask
    FaultKinds = {"list", "gc", "build", "save"}
    MaxFaults = 1
    MaxSynonyms = 2
    MaxRestarts = 1
SPECIFICATION FairSpec
INVARIANTS RebuildsTracked FlagAccurateUnlessLost
PROPERTIES RebuildsHappen TriggersServed
CHECK_DEADLOCK FALSE
