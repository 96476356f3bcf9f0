CONSTANTS
    Launches = {l1}
    Replays = {}
    Crons = {}
    Clients = {c1}
    MaxFaults = 0
SPECIFICATION Spec
PROPERTIES
    CancelIsTerminal
