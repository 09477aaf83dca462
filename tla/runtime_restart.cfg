SPECIFICATION Spec
CONSTANTS
    Requests = {r1, r2, r3, r4}
    None = None
    MaxSlot = 2
    MaxVms = 2
    Ops <- AllOps
    Faults <- CrashFaults
    SerialStops = TRUE
    MaxCrashes = 2
SYMMETRY RequestSymmetry
INVARIANTS SlotTable RestartPossible
