CONSTANTS
    Radix = 2
    Digits = 1
    p1 = p1 p2 = p2 p3 = p3 p4 = p4
    task = task  ns = ns  subject = subject  ann = ann  bob = bob
    NoTask = NoTask  None = None  NoGroup = NoGroup
    Proposals = {p1, p2, p3, p4}
    Namespaces = {ns}
    Subjects = {subject}
    Principals = {ann, bob}
    Scopes <- MCOneScope
    Tasks = {task}
    Embedder = TRUE
    ValidTime <- MCAlways
    MaxDelay = 1
    MaxTime = 2
SPECIFICATION Spec
CHECK_DEADLOCK FALSE
INVARIANT SystemHistory
INVARIANT SearchIndexAgrees
INVARIANT NoOrphans
INVARIANT StateAgreement
INVARIANT ExpiredTaskInactive
PROPERTY ConflictGroupKept
PROPERTY NotCurrentBelow
PROPERTY PurgedForGood
SYMMETRY ProposalSymmetry
CONSTRAINT MCFewWithIndexes
