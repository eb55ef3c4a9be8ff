SPECIFICATION Spec
CONSTANTS
    p1 = p1  p2 = p2  c1 = c1  c2 = c2  o1 = o1  o2 = o2
    s1 = s1  s2 = s2  d1 = d1  d2 = d2  k1 = k1  k2 = k2
    Procs = {p1, p2}
    Consumers = {c1, c2}
    Outputs = {o1, o2}
    Importing = {o1, o2}
    Contents = {s1,s2}
    DepLists = {d1,d2}
    Cores = {k1,k2}
    None = None
    Torn = Torn
    MaxVersions = 3
    MaxEvents = 2
SYMMETRY Symmetry
INVARIANTS TypeOK HistoryIsReceipted ReboundIsEquivalent
CHECK_DEADLOCK FALSE
