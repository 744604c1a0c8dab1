SPECIFICATION Spec
CONSTANTS
    Items = {i1}
    Embeddings = {}
    Workers = {w1, w2}
    None = None
    Verdicts = {"uncited", "failed"}
    MaxAttempts = 2
    CallBudget = 4
    InflightCeiling = 2
    MaxFence = 3
INVARIANTS
    CorrectionIsLast
CHECK_DEADLOCK FALSE
