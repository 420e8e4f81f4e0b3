SPECIFICATION Spec
CONSTANTS
    i = i
    d = d
    v = v
    r = r
    w = w
    h = h
    None = None
    Images <- MCImages
    Dangling <- MCDangling
    Volumes <- MCVolumes
    Records <- MCRecords
    Networks <- MCNetworks
    Predefined <- MCPredefined
    Uncounted <- MCUncounted
    Volatile <- MCVolatile
    Boot <- MCBoot
    MaxFetches = 4
    MaxClicks = 2
    MaxMishaps = 1
INVARIANTS LoadedMatchesTab RemovedNotListed OneAtATime NeverOverstates RemovedNotMeasured
PROPERTIES Settles NewestListOnly
CHECK_DEADLOCK FALSE
