CONSTANTS
    t1 = t1  t2 = t2  c1 = c1  c2 = c2
    home = home  away = away  ann = ann  bob = bob  k1 = k1  k2 = k2
    None = None
    Tokens = {t1, t2}
    Clients = {c1, c2}
    Namespaces = {home, away}
    Owners = {ann, bob}
    Keys = {k1, k2}
    Issuable <- MCIssuable
    Local <- MCLocal
    AgentEvents = TRUE
    MaxOperations = 4
    MaxTime = 1
SPECIFICATION Spec
INVARIANT DelegationBounded
INVARIANT CaptureTraced
PROPERTY ChangesAuthorized
INVARIANT RevocationEffective
INVARIANT AnswersTruthful
SYMMETRY MCSymmetry
CONSTRAINT MCWorlds
CHECK_DEADLOCK FALSE
