SPECIFICATION FairSpec
CONSTANTS
    Labels = {"com", "x", "p", "q"}
    Methods = {"GET", "PUT"}
    NoMethod = "NoMethod"
    Addrs = {a1, a2}
    Sessions = {s1}
    Flows = {f1, f2}
    None = None
    Requested <- Requests2
    Configured <- Ceilings2
    Asked <- Asked3
    MaxPerSource = 1
    MaxTotal = 2
    MaxInflight = 1
    Faults <- SaveFaults
    MaxCrashes = 1
INVARIANTS GatewayTypeOK OnlyAllowlistedEgress CountersExact SavedLoadable
PROPERTY EveryFlowEnds
