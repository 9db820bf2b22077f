CONSTANTS
    Node = {n1}
    HeartbeatEvery = 2
    SendTimeout = 4
    CheckEvery = 2
    Timeout = 6
    Latency = 1
    CheckLatency = 1
    MaxFaults = 3
    MaxFailures = 1
    Horizon = 12
SPECIFICATION FairSpec
INVARIANTS TypeOK NoFalseVerdict DetectedInTime
PROPERTIES SettlesReady
