\* Three requests race, each to create, reset or delete the user.
CONSTANTS
    Requests = {r1, r2, r3}
    KeyLimit = 2
SPECIFICATION Spec
INVARIANTS
    IInv
    NewestKeyStays
    ResetReplacesKeys
    CreatedHasAccess
    DeletedIsGone
CHECK_DEADLOCK FALSE
