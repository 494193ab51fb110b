SPECIFICATION Spec
CONSTANTS
    a = a
    b = b
    c = c
    Proc = {a, b, c}
    PartyNumber <- ThreeParties
    Threshold <- OneOfAll
    SignupTimeout = 2
    ClientTimeout = 3
    Ttl = 5
    MaxTime = 3
    MaxFaults = 0
    MaxCrashes = 0
    StartBy = 0
INVARIANTS
    EnoughPartiesCounted
CHECK_DEADLOCK FALSE
