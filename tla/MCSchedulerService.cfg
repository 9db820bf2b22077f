CONSTANTS
    Node = {1, 2, 3}
    Service = {s1}
    Workload = {w1, w2, w3, w4}
    Null = Null
    Ids <- MCIds
    Capacities <- MCCapacities
    Requests <- MCRequests
    Precision = 4
    FloatShares <- MCFloatShares
SPECIFICATION Spec
INVARIANTS TypeOK RefusedFitsNowhere NeverOvercommitted SpreadsEvenly
PROPERTIES ChoosesNearBest
CHECK_DEADLOCK FALSE
