SPECIFICATION PromptSessionSpec
CONSTANTS
    a = a
    b = b
    c = c
    Proc = {a, b, c}
    PartyNumber <- ThreeParties
    Threshold <- TwoOfAll
    SignupTimeout = 2
    ClientTimeout = 2
    Ttl = 9
    MaxTime = 4
    MaxFaults = 0
    MaxCrashes = 0
    StartBy = 1
    KeyThreshold = 2
    Curves = {"EdDSA"}
    RoundsMayFail = FALSE
INVARIANTS
    SlotsFillTotal
    NobodyStops
PROPERTIES
    EveryoneSigns
CHECK_DEADLOCK FALSE
