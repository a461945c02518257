CONSTANTS
    Chains = {c1, c2}
    Tools = {t1}
    Modes = {"background", "durable"}
    MaxStarts = 2
    Texts = {"text", "blank"}
    Policies = {"DRAIN", "CANCEL"}
    SaveMayFail = TRUE
SPECIFICATION LiveSpec
CHECK_DEADLOCK FALSE
INVARIANTS
    RegistryConsistent
    ToldTruthfully
PROPERTIES
    RunsAreNotLost
