SPECIFICATION Spec
CONSTANTS
    Managers = {m1, m2, m3}
    Updates = {u1, u2, u3, u4}
    Evidence = {u1, u2}
    Legacy = Legacy
    NoOne = NoOne
    None = None
SYMMETRY Symmetry
INVARIANTS
    TypeOK
    FateIsTruthful
    RowsFollowLedger
    MemoryAtRevision
PROPERTIES
    ImplementsAtomicLedger
CHECK_DEADLOCK FALSE
