CONSTANTS
    Workflows = {w1, w2}
    Clients = {c1, c2}
    Crons = {k1}
    MaxVersions = 3
    MaxFaults = 1
SYMMETRY MCSymmetry
SPECIFICATION Spec
INVARIANTS
    TypeOK
    VersionsAreGapless
    OneLiveWorkflowPerName
PROPERTIES
    CommitsChangeOneAttribute
    SoloRequestRepairsSchedule
