CONSTANTS
    Collections = {c1}
    NoOne = NoOne
    QueueLimits = {0}
    RowReadAttempts = 3
    Asked = {"describe", "ingest", "backfill"}
    FirstRows <- EveryRow
    MaxAsking = 2
    MaxChanges = 3
    Windows = {4, 6, 8, 10}
    Template = 2
    Reminder = 1
    Answer = 2
    Thinking = 2
    JoinSlack = 1
    Framing = 1
    CharsPerToken = 2
    Items = 4
    Held = 5
    Passages = 2
    MaxCost = 4
    MaxCounts = 4
    Callers = {1, 2}
    Capacity = 1
    Window = 1
    HasProcessGroups = TRUE
    LastTime = 3
    MaxCalls = 3
    MaxSpawns = 2
    Templates = {"hyde", "fusion", "summary"}
    MaxCached = 2
    Sizings = {1, 2}
    MaxServers = 2
    MaxEpochs = 2
SPECIFICATION ModelsSpec
INVARIANTS FailureTrue PromptFits
PROPERTIES CallsHeld BudgetTrue ManualWins
CHECK_DEADLOCK FALSE
