CONSTANTS
    N = 3
    Names = {1, 2, 3, 4}
    Copies = 2
    Definitions <- MCDefinitions
SPECIFICATION Spec
INVARIANTS
    TypeOK
    VisitedAfterNeeds
    AcceptsExactlyDags
    FirstDefinedFirst
