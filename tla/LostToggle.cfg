CONSTANTS
    Ids = {c1}
    Names = {n1}
    Images = {0}
    None = None
    BootHost <- MCBootHost
    BootRows <- MCBootRows
    MaxExternal = 0
    FaultKinds = {}
    MaxFaults = 0
    Users = {u1, u2}
    Scheduler = Scheduler
    Ops = {"start", "set"}
    MaxReqs = 2
    MaxTicks = 0
SPECIFICATION OpsSpec
INVARIANT AutoUpdateKept
CHECK_DEADLOCK FALSE
