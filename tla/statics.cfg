SPECIFICATION Spec
CONSTANTS
    None = None
    Statics <- Two
    MaxLag = 0
    QUIET = TRUE
    Meddling = {"delete", "unlabel", "disown", "change"}
    MaxUid = 1
    MaxMeddles = 1
    MaxFaults = 1
    MaxCrashes = 1
INVARIANTS
    TypeOK
    StaticsRestRight
PROPERTIES
    OnlyStartDisowns
CHECK_DEADLOCK FALSE
