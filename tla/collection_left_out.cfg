CONSTANTS
    Collections = {1, 2}
    Ranks = {1, 2}
    GlobRanks = {2}
    LegTrim = 1
    FanOutPage = 2
    MaxFanout = 1
    Depth = 1
SPECIFICATION FanSpec
INVARIANTS NothingLeftOut
CHECK_DEADLOCK FALSE
