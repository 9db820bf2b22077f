CONSTANTS
    Service = {s1}
    Configs <- MCConfigs
    Replicas = {0, 4}
    Requests = {4}
    Loads = {0, 7}
    ObservationTTL = 2
    NodeID = n1
    NodeAddress = n1
    MaxCooldown = 2
    MaxUpdates = 1
    MaxFaults = 1
SPECIFICATION FairSpec
INVARIANTS TypeOK BetweenAskedAndBounds
PROPERTIES SteadyScaling ReachesTarget
