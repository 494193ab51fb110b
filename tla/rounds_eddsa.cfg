SPECIFICATION Spec
CONSTANTS
    N = 3
    Schedule <- EddsaKeygenAndSign
    Reveals <- KeygenReveals
    EntriesExpire = FALSE
    MaxDeaths = 2
INVARIANTS
    TypeOK
    VectorInPlace
    RevealsFollowCommitments
PROPERTIES
    ImplementsLockStep
CHECK_DEADLOCK FALSE
