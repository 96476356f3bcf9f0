CONSTANTS
    Workflows = {w1}
    Clients = {c1}
    Crons = {k1, k2}
    MaxVersions = 2
    MaxFaults = 0
SPECIFICATION Spec
INVARIANTS
    ActiveTriggerIsScheduled
