CONSTANTS
    MaxId = 2
    Rebuilds = {r1, r2}
    Searches = {s1}
    Shared = TRUE
    BatchSize = 1
    Limit = 1
    Budget = 2
    MaxWrites = 0
    MaxFaults = 0
SPECIFICATION Spec
CHECK_DEADLOCK FALSE
INVARIANTS
    SearchFindsNear
