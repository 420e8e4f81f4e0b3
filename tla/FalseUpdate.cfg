CONSTANTS
    Ids = {c1, c2}
    Names = {n1}
    Images = {0}
    None = None
    BootHost <- MCBootHost
    BootRows <- MCBootRows
    MaxExternal = 0
    FaultKinds = {"image"}
    MaxFaults = 1
    Users = {u1}
    Scheduler = Scheduler
    Ops = {}
    MaxReqs = 0
    MaxTicks = 1
SPECIFICATION OpsSpec
INVARIANT OnlyOutdatedUpgraded
CHECK_DEADLOCK FALSE
