SPECIFICATION Spec
CONSTANTS
    Tabs = {1, 2}
    None = None
    Visits <- MCVisits
    Boot <- MCBoot
    MaxLoads = 1
    MaxOps = 2
    MaxFaults = 1
CHECK_DEADLOCK FALSE
INVARIANT LoginErrorShown
