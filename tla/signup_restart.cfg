SPECIFICATION Spec
CONSTANTS
    a = a
    b = b
    c = c
    Proc = {a, b, c}
    PartyNumber <- RestartOfA
    Threshold <- OneOfAll
    SignupTimeout = 0
    ClientTimeout = 0
    Ttl = 1
    MaxTime = 2
    MaxFaults = 1
    MaxCrashes = 0
    StartBy = 0
INVARIANTS
    TypeOK
    SlotsExclusive
    OpenRoomUuidUnheld
PROPERTIES
    SeatKept
SYMMETRY SameParty
CHECK_DEADLOCK FALSE
