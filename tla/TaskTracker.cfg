\* Redis may fail one of two tasks; the server may die and be restarted.
CONSTANTS
    Tasks = {t1, t2}
    LossyTasks = {t1}
    MaxMessages = 2
    MayCrash = TRUE
SPECIFICATION FairSpec
INVARIANTS
    IInv
    NoStuckSender
    StatusMatchesOutcome
PROPERTIES
    FinalStatusStays
    KeepsPromise
    TrackerEnds
    StatusSettles
CHECK_DEADLOCK FALSE
