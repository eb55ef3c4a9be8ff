SPECIFICATION Spec
CONSTANTS
    Procs = {p1, p2, p3}
    NumTargets = 2
    Missing = {2}
    Attempts = {1, 2}
    Original = Original
    NoFile = NoFile
    Torn = Torn
    NoLock = NoLock
    RaceFree = TRUE
SYMMETRY Symmetry
INVARIANTS
    TypeOK
    UnbuiltBytesAreCovered
    NoOrphanUndoLog
    OneStagesAtATime
PROPERTIES
    AllOrNothing
CHECK_DEADLOCK FALSE
