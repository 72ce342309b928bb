SPECIFICATION Spec
CONSTANTS
    None = None
    s1 = s1
    s2 = s2
    fs1 = fs1
    fs2 = fs2
    ap1 = ap1
    ap2 = ap2
    a = a
    b = b
    c = c
    SharedVolumes = {s1, s2}
    namespaceOf <- TwoNamespaces
    nameOf <- TwoNames
    Specs <- TwoFileSystems
    Garbled = {}
    LAGGING = FALSE
    PATIENT = TRUE
    ForeignFinalizers = {FALSE}
    Meddling = {}
    MaxUid = 2
    MaxEdits = 0
    MaxMeddles = 0
    MaxFaults = 0
    MaxCrashes = 0
INVARIANTS
    SpecWasAsked
CHECK_DEADLOCK FALSE
