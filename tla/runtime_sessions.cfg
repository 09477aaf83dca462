SPECIFICATION Spec
CONSTANTS
    Requests = {r1, r2, r3, r4}
    None = None
    MaxSlot = 3
    MaxVms = 2
    Ops <- CreateStopOps
    Faults <- HostFaults
    SerialStops = TRUE
    MaxCrashes = 0
SYMMETRY RequestSymmetry
INVARIANTS SlotsExclusive NothingForgotten CommittedMemory
PROPERTY SnapshotsQuiesced
