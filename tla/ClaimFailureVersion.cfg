CONSTANTS
    Node = {n1}
    Service = {s1}
    Workload = {w1, w2}
    Null = Null
    Capacities <- TwoSlots
    Requests <- UnitRequests
    Replicas = {1}
    Strategies <- SurgeOne
    FloatShares <- MCFloatShares
    MaxFaults = 1
    MaxUpdates = 1
SPECIFICATION Spec
PROPERTY FailureIsOfCurrentVersion
