CONSTANTS
    p1 = p1
    p2 = p2
    p3 = p3
    e1 = e1
    e2 = e2
    e3 = e3
    e4 = e4
    Processes = {p1,p2,p3}
    Events = {e1,e2,e3,e4}
    Departed = {p3}
    Left <- LeftBehind
    Files = {1, 2, 3, 4, 5, 6}
    BatchSize = 2
    Cap = 0
    MaxEvents = 3
    SlowWriters = TRUE
    MaxMishaps = 3
SPECIFICATION OutboxSpec
SYMMETRY Symmetry
INVARIANTS OutboxInv NothingWrittenIsLost
CHECK_DEADLOCK FALSE
