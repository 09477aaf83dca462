SPECIFICATION Spec
CONSTANTS
    Requests = {r1, r2, r3, r4, r5}
    Names = {n1}
    None = None
    Nobody = Nobody
    Ops <- UpdateOps
    Faults <- NoFaults
    Persistence <- Persistent
    MaxSessions = 2
    FreshMayExpire = FALSE
    MaxCrashes = 0
SYMMETRY RequestSymmetry
INVARIANT OneVmPerName
