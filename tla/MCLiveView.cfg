CONSTANTS
    e1 = e1
    e2 = e2
    Runs = {e1, e2}
    Script <- MCScript
    MaxVisits = 2
    MaxFaults = 1
SPECIFICATION Spec
INVARIANTS
    TypeOK
    ShownRowsAreStored
    QuietPageIsComplete
CHECK_DEADLOCK FALSE
