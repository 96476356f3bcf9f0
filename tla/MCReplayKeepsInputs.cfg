CONSTANTS
    Launches = {l1}
    Replays = {r1}
    Crons = {}
    Clients = {c1}
    MaxFaults = 0
SPECIFICATION Spec
INVARIANTS
    ReplayKeepsInputs
