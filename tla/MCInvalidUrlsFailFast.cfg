CONSTANTS
    j1 = j1
    j2 = j2
    Jobs = {j1}
    Profiles <- ProfilesOf
    PoolSize = 1
    AttemptCap = 3
    MaxCrashes = 0
    MaxTries = 1
SPECIFICATION Spec
INVARIANTS
    InvalidUrlsFailFast
CHECK_DEADLOCK FALSE
