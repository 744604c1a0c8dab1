CONSTANTS
    Scripts <- MCScripts
    Sources = {1, 2, 3}
    Known = {1, 3}
    Limit = 1
    Span = 2
    MaxEvents = 2
    MaxFaults = 1
SPECIFICATION Spec
INVARIANTS
    TypeOK
    PagesAreExact
    CleanVerdict
PROPERTIES
    AnswersMatch
    SessionEnds
CHECK_DEADLOCK FALSE
