CONSTANTS
    Callers = {a, b}
    Callbacks = {k}
    Contents = {"x", "y"}
    Configs <- Various
    Policies = {"DRAIN", "CANCEL"}
    MayFail = {"store", "evaluator", "embedder", "sanitizer", "aclose"}
    AppFlushes = 1
SPECIFICATION LiveSpec
CHECK_DEADLOCK FALSE
INVARIANTS
    PersistedFirst
    LessonsAreRemembered
    FlushMeansEvaluated
    DrainFinishesRecords
    StoreOutlivesJobs
PROPERTIES
    EverybodyEnds
