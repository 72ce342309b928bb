SPECIFICATION Spec
CONSTANTS
    None = None
    s1 = s1
    s2 = s2
    fs1 = fs1
    fs2 = fs2
    ap1 = ap1
    ap2 = ap2
    a = a
    b = b
    c = c
    SharedVolumes = {s1}
    namespaceOf <- OneNamespace
    nameOf <- OneName
    Specs <- TwoAccessPoints
    Garbled = {}
    LAGGING = FALSE
    PATIENT = TRUE
    ForeignFinalizers = {FALSE}
    Meddling = {"restyle"}
    MaxUid = 2
    MaxEdits = 1
    MaxMeddles = 1
    MaxFaults = 2
    MaxCrashes = 1
SYMMETRY Interchangeable
INVARIANTS
    NoOrphans
    SpecWasAsked
    VolumeWasAsked
    ReadyIsBacked
    RestIsRight
PROPERTIES
    FollowsLifecycle
CHECK_DEADLOCK FALSE
