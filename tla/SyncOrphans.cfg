CONSTANTS
    Ids = {c1, c2}
    Names = {n1, n2}
    Images = {0}
    None = None
    BootHost <- MCBootHost
    BootRows <- MCBootRows
    MaxExternal = 1
    FaultKinds = {"crash"}
    MaxFaults = 1
SPECIFICATION Spec
PROPERTY NoOrphansAfterSync
CHECK_DEADLOCK FALSE
