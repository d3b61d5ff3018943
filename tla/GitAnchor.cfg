SPECIFICATION FairSpec
CONSTANTS
    h1 = h1
    h2 = h2
    h3 = h3
    r1 = r1
    r2 = r2
    Handlers = {h1, h2, h3}
    RootOf <- Roots
    NoRoot = NoRoot
    SecondsPerDay = 3
    MaxFaults = 1
INVARIANT ReturnedIsPublished
PROPERTIES
    HistoryKept
    AllGetThrough
CHECK_DEADLOCK FALSE
