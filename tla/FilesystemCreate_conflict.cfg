\* No call fails but the one for a second mount target in the same zone.
CONSTANTS
    Subnets = {s1, s2}
    Zone <- SameZone
    AccessPoints = {p1}
    Faulty = FALSE
    Attempts = 10
    Sleep = 2
    RollBackSeconds = 120
SPECIFICATION Spec
INVARIANTS
    RolledBackMeansGone
CHECK_DEADLOCK FALSE
