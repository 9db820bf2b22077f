CONSTANTS
    Node = {n1}
    Service = {s1}
    Workload = {w1, w2, w3}
    Null = Null
    Capacities <- TwoSlots
    Requests <- UnitRequests
    Replicas = {1}
    Strategies <- SurgeOne
    FloatShares <- MCFloatShares
    MaxFaults = 0
    MaxUpdates = 2
SPECIFICATION Spec
INVARIANT ActiveIsReserved
