CONSTANTS
    c1 = c1
    c2 = c2
    c3 = c3
    Calls = {c1, c2, c3}
    Opens = {c1}
    Ping = Ping
SPECIFICATION Spec
INVARIANTS
    SessionInv
    NoUnmanagedProcess
    GenerationsTellProcessesApart
    FailuresReachSomeone
    RestartIsTold
PROPERTIES
    EndsAreTrue
    KeepsContract
SYMMETRY Symmetry
CHECK_DEADLOCK FALSE
