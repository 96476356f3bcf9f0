CONSTANTS
    Jobs = {j1}
    Attempts = {1}
    Replicas = {r1}
    MaxRestarts = 0
    MaxLosses = 0
    MaxTimeouts = 1
SPECIFICATION Spec
INVARIANTS
    PublishedAtMostOnce
CHECK_DEADLOCK FALSE
