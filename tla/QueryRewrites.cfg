CONSTANTS
    Databases <- MCDatabases
    Questions <- MCQuestions
    PageLimit = 2
    Back = 3
    MaxSkip = 3
    Base = 2
    Width = 3
SPECIFICATION Spec
INVARIANTS
    AnchorsAgree
    RewritesAgree
CHECK_DEADLOCK FALSE
