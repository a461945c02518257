CONSTANTS
    Writers = {}
    Readers = {}
    Initializers = {i1, i2}
    Closers = {c1}
    Parts = 1
    StartRows <- Migrated
    MayFail = {}
    MaxFaults = 0
    MayCancel = {}
    MaxCancels = 0
SPECIFICATION Spec
INVARIANTS
    SingleConnection
