CONSTANTS
    Radix = 2
    Digits = 1
    r1 = r1  r2 = r2  r3 = r3
    k1 = k1  k2 = k2  o1 = o1  o2 = o2  e1 = e1
    w1 = w1  w2 = w2  formation_worker = formation_worker
    NoEvent = NoEvent
    NoOwner = NoOwner
    NoJob = NoJob
    Refused = Refused
    Requests = {r1, r2, r3}
    Keys = {k1, k2}
    ObservationIDs = {o1, o2}
    EventIDs = {e1}
    Call <- MCCall
    Workers = {w1, w2}
    Owners = {formation_worker}
    OwnerOf <- MCOwnerOf
    Lease = 3
    Backoff = 2
    MaxAttempts = 2
    MaxDelay = 1
    MaxTime = 4
    MaxClaims = 3
SPECIFICATION Spec
CHECK_DEADLOCK FALSE
INVARIANT CaptureExact
INVARIANT AttemptsExclusive
INVARIANT ExclusiveInTime
PROPERTY ImplementsContract
SYMMETRY WorkerSymmetry
