CONSTANTS
    j1 = j1
    j2 = j2
    Jobs = {j1, j2}
    Profiles <- CommandsOnly
    PoolSize = 1
    AttemptCap = 3
    MaxCrashes = 0
    MaxTries = 2
SPECIFICATION FairSpec
PROPERTIES
    EventsNeverBlock
CHECK_DEADLOCK FALSE
