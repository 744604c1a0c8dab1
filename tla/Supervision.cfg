SPECIFICATION Spec
CONSTANTS
    Controllers = {c1, c2}
    Workers = {w1, w2, w3, w4}
    Items = {i1}
    Count = 1
    MaxRestarts = 1
    Window = 1
    Commands = {"run", "start", "drain", "signal", "prune"}
    MaxFaults = 2
    None = None
SYMMETRY Same
CHECK_DEADLOCK FALSE
INVARIANTS
    TypeOK
    ReplacementsBounded
    ReplacedForGood
    OneController
    CleanGroupIsGone
    LoopEndsEmpty
