SPECIFICATION LiveSpec
CONSTANTS
    Controllers = {c1, c2}
    Workers = {w1, w2, w3, w4}
    Items = {i1}
    Count = 1
    MaxRestarts = 1
    Window = 1
    Commands = {"start"}
    MaxFaults = 3
    None = None
CHECK_DEADLOCK FALSE
PROPERTIES
    EveryItemEnds
