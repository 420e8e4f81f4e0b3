SPECIFICATION Spec
CONSTANTS
    e = e
    q = q
    f = f
    g = g
    Queries <- MCQueries
    Empty = e
    Facets <- MCFacets
    AllEntries = f
    PageSize = 2
    MaxTotal = 4
    Boot <- MCBoot
    Never = Never
    MaxInputs = 2
    MaxTicks = 1
    MaxTrouble = 1
    Containers = {c1, c2}
    Options = {o1, o2}
    NoContainer = NoContainer
    MaxStreams = 3
    MaxChecks = 4
    MaxTurns = 2
    MaxToasts = 2
    MaxStarts = 4
INVARIANTS FreshIsCurrent OnlySelectedLines BadgeTells OneInterval TimersKnown
PROPERTIES NewestStatusOnly ViewsSettle
CHECK_DEADLOCK FALSE
