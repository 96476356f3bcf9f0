CONSTANTS
    Launches = {}
    Replays = {r1}
    Crons = {s1}
    Clients = {c1, c2}
    MaxFaults = 0
SYMMETRY ClientSymmetry
SPECIFICATION Spec
INVARIANTS
    StoredOutcomeWasReached
    AnnouncedRunsAreRegistered
CHECK_DEADLOCK FALSE
