SPECIFICATION LiveSpec
CONSTANTS
    a = a
    b = b
    c = c
    Calls = {a, b, c}
    Tokens <- Reserved
    Requests = 2
    TokenRate = 3
    Concurrent = 2
    Timeout = 2
    Slack = 1
    Minute = 1
    Initial = 1
    Maximum = 2
    Delays = {1}
    Punctual = TRUE
    MaxTime = 12
CHECK_DEADLOCK FALSE
INVARIANTS
    TypeOK
    RunningWithinLimit
    RequestRateHolds
    BackoffHolds
    SingleProbe
PROPERTIES
    EveryCallEnds
