CONSTANTS
    MaxJobs = 2
    MaxGens = 2
    HasObserver = TRUE
    CallersCancel = TRUE
    UserCancels = FALSE
    Outcomes = {"FAILURE"}
    Policies = {"DRAIN", "CANCEL"}
    UserPrunes = FALSE
    ExtGens = {}
SPECIFICATION LiveSpec
CHECK_DEADLOCK FALSE
PROPERTIES
    OutcomeIsFinal
    WorkEnds
    MarkedRecordsGo
    ImplementsContract
