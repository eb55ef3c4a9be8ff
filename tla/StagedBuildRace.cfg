SPECIFICATION Spec
CONSTANTS
    Procs = {p1, p2}
    NumTargets = 1
    Missing = {}
    Attempts = {1, 2}
    Original = Original
    NoFile = NoFile
    Torn = Torn
    NoLock = NoLock
    RaceFree = FALSE
SYMMETRY Symmetry
INVARIANTS
    FailedApplyRestores
CHECK_DEADLOCK FALSE
