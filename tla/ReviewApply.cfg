SPECIFICATION Spec
CONSTANTS
    Procs = {p1}
    Candidates = {c1, c2}
    Original = Original
    NoFile = NoFile
    None = None
    Deps = {d1, d2}
    Upstreams = {u1}
    Unaccepted = {"PACKED"}
    MaxBuilds = 2
    MaxReviews = 2
SYMMETRY Symmetry
INVARIANTS
    TypeOK
    CanonicalIsReviewed
    AcceptanceHasEvidence
    AcceptedForCurrentDeps
    UncontestedFailureRestores
PROPERTIES
    AcceptanceIsFresh
CHECK_DEADLOCK FALSE
