SPECIFICATION Spec
CONSTANTS
    w1 = w1
    w2 = w2
    MinInterval = 1
    MaxInterval = 2
    Overrides = {0, 3}
    MaxSleep = 3
    Timeout = 2
    Window = 2
    Skews <- ClockSkews
    Workers = {w1, w2}
INVARIANTS
    TypeOK
    RenewalIsRecent
PROPERTIES
    RevocationStops
