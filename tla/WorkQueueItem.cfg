SPECIFICATION Spec
CONSTANTS
    Items = {i1}
    Embeddings = {}
    Workers = {w1, w2}
    None = None
    Verdicts = {"accepted", "uncited"}
    MaxAttempts = 2
    CallBudget = 3
    InflightCeiling = 1
    MaxFence = 3
SYMMETRY WorkerSymmetry
INVARIANTS
    TypeOK
    SingleOwner
    LedgerBalanced
    PublishedIsAccounted
PROPERTIES
    NoBlindRepeat
    HistoryIsImmutable
    KeepsPromise
CHECK_DEADLOCK FALSE
