CONSTANTS
    Node = {n1, n2}
    Service = {s1}
    Workload = {w1, w2}
    Null = Null
    Capacities <- OneOrTwoSlots
    Requests <- UnitRequests
    Replicas = {0, 1}
    Strategies <- AllStrategies
    FloatShares <- MCFloatShares
    MaxFaults = 1
    MaxUpdates = 1
SPECIFICATION Spec
SYMMETRY Symmetry
INVARIANTS NoPhantomReservation
PROPERTIES ReservationChecked
