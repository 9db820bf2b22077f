CONSTANTS
    Node = {n1, n2}
    Service = {s1}
    Workload = {w1, w2}
    Null = Null
    Capacities <- OneSlot
    Requests <- UnitRequests
    Replicas = {1}
    Strategies <- SurgeOne
    FloatShares <- MCFloatShares
    MaxFaults = 1
    MaxUpdates = 0
SPECIFICATION FairSpec
PROPERTIES DeletionCompletes DriftDetected LostNodeDrained
