SPECIFICATION Spec
CONSTANTS
    None = None
    s1 = s1
    s2 = s2
    fs1 = fs1
    fs2 = fs2
    ap1 = ap1
    ap2 = ap2
    a = a
    b = b
    c = c
    SharedVolumes = {s1}
    namespaceOf <- OneNamespace
    nameOf <- OneName
    Specs <- OneSpec
    Garbled = {}
    LAGGING = FALSE
    PATIENT = FALSE
    ForeignFinalizers = {FALSE}
    Meddling = {"unlabel"}
    MaxUid = 1
    MaxEdits = 0
    MaxMeddles = 1
    MaxFaults = 1
    MaxCrashes = 0
INVARIANTS
    RememberedObjectsCare
CHECK_DEADLOCK FALSE
