CONSTANTS
    c1 = c1
    c2 = c2
    Calls = {c1, c2}
    Opens = {c1}
    Ping = Ping
SPECIFICATION FairBackendSpec
INVARIANTS
    BackendInv
    RefusalsAreReal
PROPERTIES
    BackendAnswers
CHECK_DEADLOCK FALSE
