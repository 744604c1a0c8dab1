\* One question whose evidence changes once, two windows one after the other,
\* a command or a fault; a dispatch may send the question twice.
SPECIFICATION Spec
CONSTANTS
    Questions = {q}
    MaxWindows = 2
    Workers = {w1, w2}
    Versions = 2
    Limits = {1, 2}
    ItemLimit = 2
    ItemAttempts = 1
    MaxCommands = 1
    MaxFaults = 1
    None = None
    q = q
    w1 = w1
    w2 = w2
SYMMETRY Alike
CONSTRAINT Sparse
CHECK_DEADLOCK FALSE
INVARIANTS
    TypeOK
PROPERTIES
    SettledStays
    ClaimsInActiveWindow
