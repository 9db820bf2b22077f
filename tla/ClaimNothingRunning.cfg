CONSTANTS
    Node = {n1}
    Service = {s1}
    Workload = {w1}
    Null = Null
    Capacities <- OneSlot
    Requests <- UnitRequests
    Replicas = {1}
    Strategies <- SurgeOne
    FloatShares <- MCFloatShares
    MaxFaults = 1
    MaxUpdates = 0
SPECIFICATION Spec
INVARIANT StoppedLeavesNothingRunning
