CONSTANTS
    Launches = {l1}
    Replays = {}
    Crons = {}
    Clients = {c1, c2}
    MaxFaults = 2
SPECIFICATION FairSpec
INVARIANTS
    TypeOK
    RowHasRun
    StoredOutcomeWasReached
    AnnouncedRunsAreRegistered
PROPERTIES
    ClosedRunsSettle
    NotifiedOutcomesAreStored
