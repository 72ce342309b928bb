SPECIFICATION Spec
CONSTANTS
    None = None
    s1 = s1
    s2 = s2
    fs1 = fs1
    fs2 = fs2
    ap1 = ap1
    ap2 = ap2
    a = a
    b = b
    c = c
    SharedVolumes = {s1}
    namespaceOf <- OneNamespace
    nameOf <- OneName
    Specs <- TwoAccessPoints
    Garbled = {}
    LAGGING = TRUE
    PATIENT = FALSE
    ForeignFinalizers = {FALSE}
    Meddling = {}
    MaxUid = 2
    MaxEdits = 0
    MaxMeddles = 0
    MaxFaults = 1
    MaxCrashes = 1
SYMMETRY Interchangeable
INVARIANTS
    TypeOK
    IInv
    DeletingPhaseIsHonest
    EnsurablesFollowIncarnation
    RestIsRight
PROPERTIES
    CreatedUnderFinalizer
CHECK_DEADLOCK FALSE
