CONSTANTS
    Programs = {"new", "newer", "old"}
    Target <- Targets
    Memories = {"m1", "m2"}
    Dimensions = {1, 2}
    None = None
    Malformed = Malformed
    StartFiles <- FoundFiles
    MayFail = TRUE
    MaxReopens = 1
SPECIFICATION LiveSpec
CHECK_DEADLOCK FALSE
INVARIANTS
    FileIsWhole
    SourceSurvives
PROPERTIES
    NeverDowngraded
    OpeningsEnd
