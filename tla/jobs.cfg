SPECIFICATION FairSpec
CONSTANTS
    Jobs = {j1, j2}
    Collections = {c1}
    MaxConcurrent = 1
    MaxFaults = 1
INVARIANTS TypeOK RunningIsRecorded EveryJobOwned GuardExact
PROPERTIES FinalStatus CancelSettles
