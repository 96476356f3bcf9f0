CONSTANTS
    Tokens = {t1}
    Agents = {a1}
    Clients = {c1, c2}
    MaxFaults = 0
SPECIFICATION Spec
INVARIANTS
    RevokedCannotOperate
