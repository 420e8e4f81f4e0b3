SPECIFICATION Spec
CONSTANTS
    none = none
    url = url
    k1 = k1
    k2 = k2
    x = x
    y = y
    here = here
    there = there
    None = None
    Gotify <- MCGotify
    Empty = none
    Days <- MCDays
    DefaultDays = 90
    Keys <- MCKeys
    Names <- MCNames
    Sessions <- MCSessions
    Current = here
    Start <- MCStart
    MaxClicks = 3
    MaxFaults = 0
CHECK_DEADLOCK FALSE
PROPERTY RetentionRides
