SPECIFICATION Spec
CONSTANTS
    Procs = {p1}
    Candidates = {c1}
    Original = Original
    NoFile = NoFile
    None = None
    Deps = {d1}
    Upstreams = {u1}
    Unaccepted = {"PACKED"}
    MaxBuilds = 2
    MaxReviews = 2
SYMMETRY Symmetry
PROPERTIES
    AcceptedOutputStays
CHECK_DEADLOCK FALSE
