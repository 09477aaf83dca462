SPECIFICATION Spec
CONSTANTS
    Requests = {r1, r2, r3, r4}
    Names = {n1, n2}
    None = None
    Nobody = Nobody
    Ops <- AllOps
    Faults <- AllFaults
    Persistence <- Booleans
    MaxSessions = 1
    FreshMayExpire = TRUE
    MaxCrashes = 1
SYMMETRY RequestSymmetry
INVARIANTS TypeOK SessionIndexConsistent
