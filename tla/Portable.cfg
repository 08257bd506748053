CONSTANTS
    Radix = 2
    Digits = 1
    p1 = p1 p2 = p2 p3 = p3
    ns = ns  subject = subject  ann = ann  bob = bob
    NoTask = NoTask  None = None  NoGroup = NoGroup  Local = Local
    Proposals = {p1, p2}
    Namespaces = {ns}
    Subjects = {subject}
    Principals = {ann, bob}
    Scopes <- MCScopes
    Accesses <- MCAccesses
    Tasks = {}
    Embedder = FALSE
    ValidTime <- MCAlways
    MaxDelay = 0
    MaxTime = 1
    MaxImports = 2
SPECIFICATION PortableSpec
CHECK_DEADLOCK FALSE
INVARIANT ImportedConsistent
INVARIANT RoundTrip
INVARIANT PurgedNotImported
PROPERTY ImportsWholeFiles
SYMMETRY MCSymmetry
