\* Two requests race; every call may fail, with or without its effect.
CONSTANTS
    Subnets = {s1}
    Zone <- OwnZone
    AccessPoints = {p1}
    Faulty = TRUE
    Requests = {r1, r2}
    Users = {u1}
    MaxCalls = 2
    AwaitAttempts = 2
    DeleteAttempts = 2
SPECIFICATION FairSpec
INVARIANTS
    CompletedMeansDeleted
    OneWinner
PROPERTIES
    DeleteSettles
CHECK_DEADLOCK FALSE
