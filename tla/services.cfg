CONSTANTS
    Tasks = {t1, t2, t3, t4}
    NoTask = NoTask
    Names = {default, m1, m2}
    Seeded = {default}
    Loaders = {l1, l2, l3}
    MaxSize = 1
    MaxCalls = 4
    Waiters = {w1, w2}
    MaxBuilds = 3
    HasReranker = TRUE
    MaxEvents = 3
    Extractors = {x1, x2}
    MaxTexts = 3
    SubBatch = 2
    MaxDocuments = 3
SPECIFICATION ServicesSpec
INVARIANTS NoRequestLost
PROPERTIES RequestServed LoadsShared WarmupShared ReadyTrue ChangesFollowed
CHECK_DEADLOCK FALSE
