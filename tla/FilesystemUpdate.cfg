\* Two updates race; every call may fail, with or without its effect.
CONSTANTS
    Updates = {r1, r2}
    Unset = unset
    Users = {u1, u2}
    Wishes <- PoliciesTogether
    Faulty = TRUE
SPECIFICATION Spec
SYMMETRY Symmetric
INVARIANTS
    IInv
    AppliedInOrder
    CompletedMeansTagged
    OneWishIntact
CHECK_DEADLOCK FALSE
