\* A creation, a deletion, and access points on request; no call fails.
CONSTANTS
    Subnets = {s1}
    Zone <- OwnZone
    AccessPoints = {p1}
    Faulty = FALSE
    Attempts = 2
    Sleep = 2
    RollBackSeconds = 2
    Deletions = {r1}
    Users = {}
    MaxCalls = 0
    AwaitAttempts = 2
    DeleteAttempts = 2
SPECIFICATION LifeSpec
INVARIANTS
    LifeInv
    CompletedStands
    EndIsTold
PROPERTY
    ImplementsProvisioning
CHECK_DEADLOCK FALSE
