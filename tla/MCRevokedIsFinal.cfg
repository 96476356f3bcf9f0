CONSTANTS
    Tokens = {t1}
    Agents = {a1}
    Clients = {c1}
    MaxFaults = 0
SPECIFICATION Spec
PROPERTIES
    RevokedIsFinal
