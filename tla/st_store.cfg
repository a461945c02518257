CONSTANTS
    Writers = {w1, w2}
    Readers = {r1}
    Initializers = {i1}
    Closers = {c1, c2}
    Parts = 2
    StartRows <- NewOrMigrated
    MayFail = {"CONNECT", "COMMIT", "ROLLBACK", "CLOSE"}
    MaxFaults = 1
    MayCancel = {w1}
    MaxCancels = 2
SPECIFICATION LiveSpec
INVARIANTS
    SavesAreAtomic
    OutcomesAreTruthful
    TransactionsDoNotMix
    CancellationIsContained
PROPERTIES
    ClosedForGood
    OperationsEnd
