SPECIFICATION Spec
CONSTANTS
    Items = {i1, i2}
    Embeddings = {i1, i2}
    Workers = {w1, w2}
    None = None
    Verdicts = {"accepted", "invalid"}
    MaxAttempts = 1
    CallBudget = 1
    InflightCeiling = 1
    MaxFence = 1
SYMMETRY Symmetry
INVARIANTS
    JobMatchesItems
PROPERTIES
    CancelBarrier
CHECK_DEADLOCK FALSE
