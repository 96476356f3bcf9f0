CONSTANTS
    Jobs = {j1}
    Attempts = {1}
    Replicas = {r1, r2}
    MaxRestarts = 0
    MaxLosses = 0
    MaxTimeouts = 0
SPECIFICATION Spec
INVARIANTS
    ReplicasAreSafe
CHECK_DEADLOCK FALSE
