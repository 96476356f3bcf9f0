CONSTANTS
    Workflows = {w1}
    Clients = {c1, c2}
    Crons = {k1}
    MaxVersions = 1
    MaxFaults = 0
SPECIFICATION Spec
INVARIANTS
    ScheduleFollowsRow
