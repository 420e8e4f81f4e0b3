CONSTANTS
    Ids = {c1, c2}
    Names = {n1, n2}
    Images = {0, 1}
    None = None
    BootHost <- MCOldHost
    BootRows <- MCBootRows
    MaxExternal = 1
    FaultKinds = {"call"}
    MaxFaults = 1
    Users = {}
    Scheduler = Scheduler
    Ops = {}
    MaxReqs = 0
    MaxTicks = 1
SPECIFICATION OpsFairSpec
PROPERTY SweepEnds
CHECK_DEADLOCK FALSE
