CONSTANTS
    Documents = {1, 2}
    Writers = {1, 2}
    Kinds = {"ingest", "delete"}
    Describing = {TRUE, FALSE}
    RecomputeAt = 3
    MaxWrites = 2
SPECIFICATION CountSpec
INVARIANT LandedBatchKept
CHECK_DEADLOCK FALSE
