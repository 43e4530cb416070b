\* Every call may fail, with or without its effect.
CONSTANTS
    Subnets = {s1, s2}
    Zone <- TwoZones
    AccessPoints = {p1}
    Faulty = TRUE
    Attempts = 3
    Sleep = 2
    RollBackSeconds = 6
SPECIFICATION FairSpec
INVARIANTS
    CompletedMeansProvisioned
PROPERTIES
    CreateSettles
CHECK_DEADLOCK FALSE
