CONSTANTS
    p1 = p1
    p2 = p2
    a = a
    None = None
    Procs = {p1, p2}
    Items = {a}
    Latest = 2
    Found = {1, 3}
    MaxCrashes = 1
    MaxRestores = 1
SYMMETRY Symmetry
SPECIFICATION Spec
INVARIANT NothingLost
