CONSTANTS
    Radix = 2
    Digits = 2
    p1 = p1 p2 = p2 p3 = p3
    o1 = o1 o2 = o2
    ns = ns other = other subject = subject ann = ann task = task
    tea = tea coffee = coffee t1 = t1 t2 = t2
    NoTask = NoTask  None = None  NoGroup = NoGroup  NoText = NoText
    Proposals = {p1, p2, p3}
    Observations = {o1, o2}
    Observed <- MCObserved
    Texts = {tea, coffee}
    Traces = {t1, t2}
    TraceNamespace <- MCTraceNamespace
    Namespaces = {ns, other}
    Subjects = {subject}
    Principals = {ann}
    Scopes <- MCScopes
    Tasks = {task}
    Embedder = FALSE
    ValidTime <- MCValidTime
    MaxDelay = 0
    MaxTime = 2
    MaxFormed = 1
    MaxRecording = 1
SPECIFICATION EvolutionSpec
CHECK_DEADLOCK FALSE
INVARIANT EvidenceSound
INVARIANT FeedbackAnchored
PROPERTY LostOnlyByRace
SYMMETRY MCSymmetry
