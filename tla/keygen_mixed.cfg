SPECIFICATION Spec
CONSTANTS
    a = a
    b = b
    c = c
    d = d
    Proc = {a, b, c}
    Parties <- Mixed
    MaxFaults = 2
    MaxExpiries = 1
INVARIANTS
    TypeOK
    KeygenSlotsExclusive
    NumberWithinParties
PROPERTIES
    ImplementsSlots
CHECK_DEADLOCK FALSE
