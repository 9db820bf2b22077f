CONSTANTS
    Service = {s1}
    Configs <- MCConfigs
    Replicas = {0, 4}
    Requests = {4}
    Loads = {0, 7}
    ObservationTTL = 2
    NodeID = worker_01
    NodeAddress = host_9090
    MaxCooldown = 2
    MaxUpdates = 0
    MaxFaults = 0
SPECIFICATION FairSpec
PROPERTIES UsageConsumed
