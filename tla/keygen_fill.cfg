SPECIFICATION Spec
CONSTANTS
    a = a
    b = b
    c = c
    d = d
    Proc = {a, b, c, d}
    Parties <- TwoEach
    MaxFaults = 0
    MaxExpiries = 0
PROPERTIES
    SessionsFill
CHECK_DEADLOCK FALSE
