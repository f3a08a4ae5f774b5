CONSTANTS
    Chunks = {1, 2, 3}
    Matching = {1, 2}
    InScope = {1, 3}
    PageSize = 2
    PoolSize = 2
    Depth = 2
    MaxChanges = 1
    Collections = {1, 2}
    Ranks = {1, 2}
    GlobRanks = {2}
    LegTrim = 1
    FanOutPage = 2
    MaxFanout = 1
    Rotators = {"rest", "mcp"}
    MaxToken = 3
    MaxMishaps = 2
    Starters = {1, 2, 3}
    Backups = {1, 2, 3}
    LastSecond = 2
    LineCount = 1
    Keep = 1
    Slots = 2
    MaxBreaks = 2
    Wishes = {{}, {"graph", "hyde", "description"}, {"multilingual", "enrichment"}}
    MaxRuns = 2
    MaxHands = 2
    Installers = {1, 2, 3}
    Killable = 2
    QueueSize = 2
    RetentionDays = 1
    MaxEntries = 4
    LastDay = 4
    MaxFaults = 2
    Members = {1, 2, 3}
    MaxSize = 1
    MaxDepth = 1
    Builders = {"rest", "loop"}
    MaxBuilds = 2
    MaxGraphs = 2
SPECIFICATION RequestsSpec
INVARIANTS AnswersRight FanOutRight BackupsKept LogWhole
PROPERTIES KeysHold InstallSafe CommunitiesWhole
CHECK_DEADLOCK FALSE
