\* Two requests race; no call fails.
CONSTANTS
    Subnets = {s1, s2}
    Zone <- OwnZone
    AccessPoints = {p1, p2}
    Faulty = FALSE
    Requests = {r1, r2}
    Users = {u1, u2}
    MaxCalls = 3
    AwaitAttempts = 2
    DeleteAttempts = 3
SPECIFICATION FairSpec
INVARIANTS
    IInv
    NoUserLeft
    NoHalfDeletion
PROPERTIES
    UsersGo
CHECK_DEADLOCK FALSE
