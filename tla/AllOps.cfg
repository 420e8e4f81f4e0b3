CONSTANTS
    Ids = {c1, c2}
    Names = {n1}
    Images = {0, 1}
    None = None
    BootHost <- MCBootHost
    BootRows <- MCBootRows
    MaxExternal = 0
    FaultKinds = {"call", "crash"}
    MaxFaults = 1
    Users = {u1}
    Scheduler = Scheduler
    Ops = {"start", "stop", "upgrade"}
    MaxReqs = 1
    MaxTicks = 1
SPECIFICATION OpsSpec
SYMMETRY Symmetry
INVARIANT OneSuccessor
CHECK_DEADLOCK FALSE
