CONSTANTS
    Ids = {c1, c2}
    Names = {n1}
    Images = {0, 1}
    None = None
    BootHost <- MCBootHost
    BootRows <- MCBootRows
    MaxExternal = 1
    FaultKinds = {"stream", "inspect", "db", "crash", "call"}
    MaxFaults = 1
    Users = {u1, u2}
    Scheduler = Scheduler
    Ops = {"set", "check"}
    MaxReqs = 2
    MaxTicks = 0
SPECIFICATION OpsSpec
SYMMETRY Symmetry
INVARIANTS AutoUpdateKept OpsCacheAgrees
CHECK_DEADLOCK FALSE
