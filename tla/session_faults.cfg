SPECIFICATION SessionSpec
CONSTANTS
    a = a
    b = b
    c = c
    Proc = {a, b, c}
    PartyNumber <- RestartOfA
    Threshold <- OneOfAll
    SignupTimeout = 0
    ClientTimeout = 1
    Ttl = 0
    MaxTime = 1
    MaxFaults = 1
    MaxCrashes = 1
    StartBy = 0
    KeyThreshold = 1
    Curves = {"ECDSA"}
    RoundsMayFail = TRUE
INVARIANTS
    NoFragmentTwice
PROPERTIES
    EntriesKeepAuthor
    ImplementsCosigning
SYMMETRY SameParty
CHECK_DEADLOCK FALSE
