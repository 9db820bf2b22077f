CONSTANTS
    Node = {n1, n2}
    Service = {s1}
    Workload = {w1, w2}
    Null = Null
    Capacities <- TwoSlots
    Requests <- UnitRequests
    Replicas = {1}
    Strategies <- AllStrategies
    FloatShares <- MCFloatShares
    MaxFaults = 2
    MaxUpdates = 1
SPECIFICATION Spec
SYMMETRY Symmetry
INVARIANTS TypeOK RowsConsistent DeletedHasNoWork VersionsBounded FinishedNotRunning Inv
PROPERTIES FinishedIsFinal FailedUntilNewVersion ImplementsLife
