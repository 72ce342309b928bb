SPECIFICATION Spec
CONSTANTS
    None = None
    Statics <- Two
    MaxLag = 0
    QUIET = FALSE
    Meddling = {"delete"}
    MaxUid = 1
    MaxMeddles = 1
    MaxFaults = 0
    MaxCrashes = 0
INVARIANTS
    StaticsRestRight
CHECK_DEADLOCK FALSE
