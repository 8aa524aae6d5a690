\* Calls one after the other, the first of which checks for late success.
CONSTANTS
    Calls = {c1, c2}
    Checkers = {c1}
    MaxInFlight = 1
    HostFailures = {}
SPECIFICATION Spec
INVARIANTS
    AnswersAreAwaited
CHECK_DEADLOCK FALSE
