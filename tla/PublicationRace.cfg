SPECIFICATION Spec
CONSTANTS
    Publishers = {b, c}
    Builders = {b, c}
    Members = {m1}
    Settings = {s1}
    None = None
    MaxGeneration = 2
    MaxRevision = 2
    Faults = {"crash", "loss"}
    MaxFaults = 1
CHECK_DEADLOCK FALSE
INVARIANTS
    TypeOK
    CleanMeansComplete
    OneServingIndex
PROPERTIES
    ManifestIsCurrent
    RegisterPromise
SYMMETRY Same
