\* Two concurrent calls; Photoshop may be seen down in error and its launch
\* may fail.
CONSTANTS
    c1 = c1
    c2 = c2
    Calls = {c1, c2}
    Checkers = {}
    MaxInFlight = 2
    HostFailures = {"probe", "launch"}
SPECIFICATION FairSpec
INVARIANTS
    ConnectionInv
PROPERTIES
    EveryCallReturns
\* Nothing is left to do once the calls have returned and Photoshop is idle.
CHECK_DEADLOCK FALSE
