CONSTANTS
    Ids = {c1, c2}
    Names = {n1}
    Images = {0}
    None = None
    BootHost <- MCBootHost
    BootRows <- MCBootRows
    MaxExternal = 0
    FaultKinds = {"call"}
    MaxFaults = 1
    Users = {u1}
    Scheduler = Scheduler
    Ops = {"upgrade"}
    MaxReqs = 1
    MaxTicks = 0
SPECIFICATION OpsSpec
PROPERTY ContainerSurvives
CHECK_DEADLOCK FALSE
