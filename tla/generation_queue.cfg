CONSTANTS
    Collections = {c1, c2, c3}
    NoOne = NoOne
    QueueLimits = {1, 2}
    RowReadAttempts = 1
    Asked = {"describe", "backfill"}
    FirstRows <- BareRows
    MaxAsking = 1
    MaxChanges = 0
SPECIFICATION FairSpec
INVARIANTS QueueSound
PROPERTIES DescribeSettles
CHECK_DEADLOCK FALSE
