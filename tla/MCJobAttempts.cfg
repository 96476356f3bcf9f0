CONSTANTS
    j1 = j1
    j2 = j2
    Jobs = {j1}
    Profiles <- ProfilesOf
    PoolSize = 2
    AttemptCap = 3
    MaxCrashes = 1
    MaxTries = 2
SPECIFICATION FairSpec
INVARIANTS
    TypeOK
    BrokenJobsDoNothing
    RecordedArtifactIsOwn
    DestinationHoldsRecorded
PROPERTIES
    ScheduledJobsClose
CHECK_DEADLOCK FALSE
