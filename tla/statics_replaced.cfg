SPECIFICATION FairSpec
CONSTANTS
    None = None
    Statics <- Two
    MaxLag = 0
    QUIET = TRUE
    Meddling = {}
    MaxUid = 2
    MaxMeddles = 0
    MaxFaults = 1
    MaxCrashes = 0
INVARIANTS
    StaticsRestRight
PROPERTIES
    SCCGoes
    Installed
    Demise
    StaticsComeToRest
CHECK_DEADLOCK FALSE
