SPECIFICATION PatientSpec
CONSTANTS
    N = 3
    Schedule <- EcdsaSign
    Reveals <- EcdsaSignReveals
    EntriesExpire = FALSE
    MaxDeaths = 0
INVARIANTS
    VectorInPlace
    RevealsFollowCommitments
PROPERTIES
    AllFinish
CHECK_DEADLOCK FALSE
