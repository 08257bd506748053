CONSTANTS
    j1 = j1  w1 = w1  w2 = w2
    plain = plain  other = other  task = task
    NoReference = NoReference  NoJob = NoJob  NoProposal = NoProposal
    Jobs = {j1}
    Workers = {w1, w2}
    Outputs = {plain, other}
    Baseline = plain
    Assisted = {j1}
    References = {task}
    ReferenceOf <- MCSameReference
    Embedder = TRUE
    MaxAttempts = 2
    MaxCrashes = 1
    MaxOverruns = 2
SPECIFICATION FairSpec
INVARIANT OneMemoryPerAttempt
INVARIANT AttemptsBounded
INVARIANT SucceededIsFormed
PROPERTY EveryJobEnds
