CONSTANTS
    Launches = {l1}
    Replays = {}
    Crons = {}
    Clients = {c1}
    MaxFaults = 1
SPECIFICATION Spec
INVARIANTS
    StoredOutcomesAreNotified
