CONSTANTS
    d1 = d1
    d2 = d2
    c1 = c1
    c2 = c2
    v1 = v1
    v2 = v2
    Docs = {d1, d2}
    Names = {d1, d2}
    Name <- OwnNames
    Versions = {v1, v2}
    Targets <- OneTarget
    Requests <- Asked
    Calls = {c1, c2}
    MaxCalls = 3
    MaxActs = 1
    MaxFailures = 1
SPECIFICATION Spec
SYMMETRY Symmetry
INVARIANTS SceneInv ReadsLeaveNothingStale AnswersFitTheQuestion
CHECK_DEADLOCK FALSE
