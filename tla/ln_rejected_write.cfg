CONSTANTS
    Callers = {a}
    Callbacks = {}
    Contents = {"x"}
    Configs <- JustBare
    Policies = {"DRAIN"}
    MayFail = {}
    AppFlushes = 0
SPECIFICATION Spec
CHECK_DEADLOCK FALSE
INVARIANTS
    RejectedWritesNothing
