SPECIFICATION SessionSpec
CONSTANTS
    a = a
    b = b
    c = c
    Proc = {a, b, c}
    PartyNumber <- ThreeParties
    Threshold <- TwoOfC
    SignupTimeout = 1
    ClientTimeout = 1
    Ttl = 9
    MaxTime = 2
    MaxFaults = 0
    MaxCrashes = 0
    StartBy = 0
    KeyThreshold = 1
    Curves = {"ECDSA", "EdDSA"}
    RoundsMayFail = FALSE
INVARIANTS
    SessionTypeOK
    OrdersArePositions
    SignersAreTheNumbered
    CosignersAgree
PROPERTIES
    ClosedRoomFrozen
    ImplementsCosigning
CHECK_DEADLOCK FALSE
