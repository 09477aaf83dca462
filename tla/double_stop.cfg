SPECIFICATION Spec
CONSTANTS
    Requests = {r1, r2, r3, r4, r5}
    None = None
    MaxSlot = 2
    MaxVms = 2
    Ops <- CreateStopOps
    Faults <- NoFaults
    SerialStops = FALSE
    MaxCrashes = 0
SYMMETRY RequestSymmetry
INVARIANT SlotsExclusive
