SPECIFICATION Spec
CONSTANTS
    Procs = {p1}
    Candidates = {c1}
    Original = Original
    NoFile = NoFile
    None = None
    Deps = {d1, d2}
    Upstreams = {u1}
    Unaccepted = {"PACKED"}
    MaxBuilds = 1
    MaxReviews = 1
SYMMETRY Symmetry
INVARIANTS
    CleanCompletionIsApplied
CHECK_DEADLOCK FALSE
