SPECIFICATION FairSpec
CONSTANTS
    Requests = {r1, r2, r3, r4}
    Names = {n1}
    None = None
    Nobody = Nobody
    Ops <- CollectedOps
    Faults <- AnsweredFaults
    Persistence <- Booleans
    MaxSessions = 2
    FreshMayExpire = FALSE
    MaxCrashes = 0
INVARIANTS OneVmPerName NoOrphanVm
PROPERTIES StoppedForGood ResumePointsSpared ImplementsDurableSandbox EveryRequestReturns StopsAreRecorded
