CONSTANTS
    Ids = {c1, c2}
    Names = {n1}
    Images = {0, 1}
    None = None
    BootHost <- MCBootHost
    BootRows <- MCBootRows
    MaxExternal = 0
    FaultKinds = {}
    MaxFaults = 0
    Users = {u1}
    Scheduler = Scheduler
    Ops = {"set"}
    MaxReqs = 1
    MaxTicks = 1
SPECIFICATION OpsSpec
INVARIANT OnlyEnabledUpgraded
CHECK_DEADLOCK FALSE
