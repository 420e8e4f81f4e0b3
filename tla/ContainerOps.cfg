CONSTANTS
    Ids = {c1, c2, c3}
    Names = {n1}
    Images = {0, 1}
    None = None
    BootHost <- MCBootHost
    BootRows <- MCBootRows
    MaxExternal = 0
    FaultKinds = {"network", "pull", "inspect"}
    MaxFaults = 1
    Users = {u1}
    Scheduler = Scheduler
    Ops = {"check"}
    MaxReqs = 1
    MaxTicks = 2
SPECIFICATION OpsSpec
SYMMETRY Symmetry
INVARIANTS AvailIsTrue AutoUpdateKept
CHECK_DEADLOCK FALSE
