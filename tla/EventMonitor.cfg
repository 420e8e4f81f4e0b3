\* Two containers, one image: enough for an event of one container to wait
\* behind an event of the other, and for a destroyed one to be replaced.
CONSTANTS
    Ids = {c1, c2}
    Names = {n1, n2}
    Images = {0}
    None = None
    BootHost <- MCBootHost
    BootRows <- MCBootRows
    MaxExternal = 3
    FaultKinds = {"stream", "inspect", "db", "crash"}
    MaxFaults = 1
SPECIFICATION FairSpec
INVARIANTS CacheAgrees FeedAgrees
PROPERTIES FlagsSurvive CatchesUp
CHECK_DEADLOCK FALSE
