\* Two updates race; no call fails.
CONSTANTS
    Updates = {r1, r2}
    Unset = unset
    Users = {u1}
    Wishes <- PoliciesTogether
    Faulty = FALSE
SPECIFICATION Spec
SYMMETRY Symmetric
INVARIANTS
    OmittedRuleKept
CHECK_DEADLOCK FALSE
