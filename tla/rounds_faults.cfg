SPECIFICATION Spec
CONSTANTS
    N = 2
    Schedule <- Short
    Reveals <- ShortReveals
    EntriesExpire = TRUE
    MaxDeaths = 1
INVARIANTS
    VectorInPlace
PROPERTIES
    EverybodyEnds
CHECK_DEADLOCK FALSE
