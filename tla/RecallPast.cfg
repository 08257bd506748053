CONSTANTS
    Radix = 2
    Digits = 0
    p1 = p1  p2 = p2  p3 = p3
    ns = ns  subject = subject  ann = ann  bob = bob
    NoTask = NoTask  None = None  NoGroup = NoGroup
    Proposals = {p1, p2, p3}
    Namespaces = {ns}
    Subjects = {subject}
    Principals = {ann, bob}
    Scopes <- MCScopes
    Tasks = {}
    Embedder = TRUE
    ValidTime <- MCValidTime
    MaxDelay = 1
    MaxTime = 3
    Text <- MCText
    Tokens <- MCTokens
    RecallRequests <- MCRequests
SPECIFICATION RecallSpec
CHECK_DEADLOCK FALSE
CONSTRAINT MCWorlds
PROPERTY SettledPastKept
