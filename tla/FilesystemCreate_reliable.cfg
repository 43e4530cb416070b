\* No call fails; the service may be slow, the retries are those of the code.
CONSTANTS
    Subnets = {s1, s2}
    Zone <- TwoZones
    AccessPoints = {p1}
    Faulty = FALSE
    Attempts = 10
    Sleep = 2
    RollBackSeconds = 120
SPECIFICATION Spec
INVARIANTS
    IInv
    RolledBackMeansRemoved
CHECK_DEADLOCK FALSE
