CONSTANTS
    Ids = {c1, c2}
    Names = {n1, n2}
    Images = {0}
    None = None
    BootHost <- MCBootHost
    BootRows <- MCBootRows
    MaxExternal = 1
    FaultKinds = {"stream"}
    MaxFaults = 1
SPECIFICATION Spec
INVARIANT AllDiscovered
CHECK_DEADLOCK FALSE
