SPECIFICATION FairSpec
CONSTANTS
    None = None
    s1 = s1
    s2 = s2
    fs1 = fs1
    fs2 = fs2
    ap1 = ap1
    ap2 = ap2
    a = a
    b = b
    c = c
    SharedVolumes = {s1}
    namespaceOf <- OneNamespace
    nameOf <- OneName
    Specs <- OneSpec
    Garbled <- Unreadable
    LAGGING = FALSE
    PATIENT = FALSE
    ForeignFinalizers = {TRUE, FALSE}
    Meddling = {"delete", "unlabel", "disown", "garble", "restyle"}
    MaxUid = 2
    MaxEdits = 0
    MaxMeddles = 1
    MaxFaults = 0
    MaxCrashes = 1
PROPERTIES
    DeletionCompletes
CHECK_DEADLOCK FALSE
