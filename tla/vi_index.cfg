CONSTANTS
    MaxId = 2
    Rebuilds = {r1, r2}
    Searches = {s1}
    Shared = FALSE
    BatchSize = 1
    Limit = 1
    Budget = 2
    MaxWrites = 2
    MaxFaults = 1
SPECIFICATION LiveSpec
CHECK_DEADLOCK FALSE
INVARIANTS
    ReadyIsComplete
    CursorCovers
    SearchFindsNear
PROPERTIES
    RebuildsEnd
