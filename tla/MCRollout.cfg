CONSTANTS
    Node = {n1, n2}
    Service = {s1}
    Workload = {w1, w2, w3, w4}
    Null = Null
    Capacities <- TwoSlots
    Requests <- UnitRequests
    Replicas = {2}
    Strategies <- AllStrategies
    FloatShares <- MCFloatShares
    MaxFaults = 0
    MaxUpdates = 1
SPECIFICATION FairSpec
INVARIANTS SurgeBounded
PROPERTIES AvailabilityKept RolloutConverges
