CONSTANTS
    e1 = e1
    e2 = e2
    Runs = {e1}
    Script <- MCScript
    MaxVisits = 1
    MaxFaults = 0
SPECIFICATION Spec
INVARIANTS
    ConnectedPageIsComplete
CHECK_DEADLOCK FALSE
