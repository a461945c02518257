CONSTANTS
    MaxJobs = 2
    MaxGens = 2
    HasObserver = TRUE
    CallersCancel = FALSE
    UserCancels = TRUE
    Outcomes = {"FAILURE"}
    Policies = {"DRAIN"}
    UserPrunes = TRUE
    ExtGens <- OneExtGen
SPECIFICATION Spec
CHECK_DEADLOCK FALSE
INVARIANTS
    ReportComplete
    OwedRetained
    NoDoubleReport
    ClosedQuiescent
    ChildIndexExact
