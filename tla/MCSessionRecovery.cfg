CONSTANTS
    p1 = p1
    p2 = p2
    p3 = p3
    Pids = {p1, p2, p3}
    Unclaimed = Unclaimed
    MaxSessions = 3
    MaxKills = 3
    Recycled = FALSE
SPECIFICATION Spec
INVARIANTS SummaryInv RecoveredAreDead NoSessionForgotten
CHECK_DEADLOCK FALSE
