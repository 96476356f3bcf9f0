CONSTANTS
    Jobs = {j1}
    Attempts = {1, 2}
    Replicas = {r1}
    MaxRestarts = 2
    MaxLosses = 1
    MaxTimeouts = 1
SPECIFICATION FairSpec
INVARIANTS
    TypeOK
    HandledRowsAreExact
PROPERTIES
    EventsAreHandled
    FinalRowsStay
CHECK_DEADLOCK FALSE
