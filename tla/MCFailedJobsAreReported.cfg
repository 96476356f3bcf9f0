CONSTANTS
    N = 2
    MCOnErrors = {"fail", "continue"}
    MCGraphs <- MCAllGraphs
    Definitions <- MCDefinitions
    MaxRepeats = 1
SPECIFICATION Spec
INVARIANT
    FailedJobsAreReported
