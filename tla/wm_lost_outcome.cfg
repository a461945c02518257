CONSTANTS
    MaxJobs = 1
    MaxGens = 1
    HasObserver = FALSE
    CallersCancel = TRUE
    UserCancels = FALSE
    Outcomes = {"FAILURE"}
    Policies = {"DRAIN"}
    UserPrunes = FALSE
    ExtGens = {}
SPECIFICATION Spec
CHECK_DEADLOCK FALSE
INVARIANTS
    NoOutcomeLost
