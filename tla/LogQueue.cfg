SPECIFICATION Spec
CONSTANTS
    None = None
    Pages = {p1, p2}
    Handlers <- MCHandlers
    BatchSize = 2
    Capacity = 2
    MaxEntries = 3
    MaxSignIns = 1
    MaxFaults = 1
INVARIANTS ArrivesInOrder OnceWhenCalm RingIsTail
PROPERTIES AtLeastOnce Drains
CHECK_DEADLOCK FALSE
