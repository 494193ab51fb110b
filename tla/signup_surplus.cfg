SPECIFICATION PromptSpec
CONSTANTS
    a = a
    b = b
    c = c
    Proc = {a, b, c}
    PartyNumber <- ThreeParties
    Threshold <- OneOfAll
    SignupTimeout = 2
    ClientTimeout = 2
    Ttl = 9
    MaxTime = 10
    MaxFaults = 0
    MaxCrashes = 1
    StartBy = 2
INVARIANTS
    SlotsFillTotal
    WaitBounded
PROPERTIES
    NobodyHangs
CHECK_DEADLOCK FALSE
