CONSTANTS
    N = 2
    MCOnErrors = {"fail", "continue", "compensate"}
    MCGraphs <- MCAllGraphs
    Definitions <- MCDefinitions
    MaxRepeats = 1
SPECIFICATION FairSpec
PROPERTY
    AbortedRunCloses
