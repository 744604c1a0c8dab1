SPECIFICATION FairSpec
CONSTANTS
    Items = {i1}
    Embeddings = {i1}
    Workers = {w1, w2}
    None = None
    Verdicts = {"accepted", "failed"}
    MaxAttempts = 1
    CallBudget = 2
    InflightCeiling = 1
    MaxFence = 2
INVARIANTS
    PublishedIsAccounted
PROPERTIES
    CancelCompletes
    ReservationsReturn
CHECK_DEADLOCK FALSE
