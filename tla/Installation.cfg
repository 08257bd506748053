CONSTANTS
    p1 = p1
    p2 = p2
    a = a
    None = None
    Procs = {p1, p2}
    Items = {a}
    Latest = 2
    Found = {1, 3}
    MaxCrashes = 2
    MaxRestores = 1
SYMMETRY Symmetry
SPECIFICATION Spec
INVARIANT LostOnlyWithLog
INVARIANT OpenedMigrated
INVARIANT WayBack
INVARIANT BackupComplete
