\* Two requests for a user each and one update of the tags; every call of one
\* of the requests and of the update may fail.
CONSTANTS
    Requests = {r1, r2}
    Unlucky = {r2, u1}
    Servers = {s1}
    Documents = {d1, d2}
    Missing = Missing
    VersionLimit = 2
    Updates = {u1}
    Wishes <- SomeWishes
    Spaces = {home, other}
    Home = home
    Namings <- UnluckyStray
SPECIFICATION FairSpec
INVARIANTS
    IInv
    PreparedMeansGranted
    PreparedOnce
    CreatedMayMount
    GroupKept
    MissedOnlyIfUnfinished
PROPERTY
    CreationSucceeds
CHECK_DEADLOCK FALSE
