CONSTANTS
    N = 3
    MCOnErrors = {"fail", "continue"}
    MCGraphs <- MCShapes
    Definitions <- MCDefinitions
    MaxRepeats = 1
SPECIFICATION FairSpec
INVARIANTS
    TypeOK
    StartsAfterAncestors
    EventLogWellFormed
    FinishedRunAccountsForJobs
    NeverStuck
    InputsAreInScope
PROPERTY
    ImplementsDagRun
    Terminates
