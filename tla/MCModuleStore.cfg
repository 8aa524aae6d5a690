SPECIFICATION Spec
CONSTANTS
    old = old
    new = new
    Pids = {old, new}
    MaxVersion = 2
    Abi <- MCAbi
    HostAbi <- MCHostAbi
    Signed2 = {2}
    MaxMishaps = 1
INVARIANTS StoreInv PointerResolves
PROPERTIES LocatedIsWholeOrPutBack Heals
CHECK_DEADLOCK FALSE
