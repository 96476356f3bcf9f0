CONSTANTS
    Tokens = {t1, t2}
    Agents = {a1, a2}
    Clients = {c1, c2, c3}
    MaxFaults = 1
SYMMETRY MCSymmetry
SPECIFICATION Spec
INVARIANTS
    TypeOK
    TokensAreSingleUse
    ActiveWasApproved
