SPECIFICATION Spec
CONSTANTS
    x1 = x1
    x2 = x2
    Resources = {x1, x2}
    Requests = {r1, r2}
    NoLane = NoLane
    Nobody = Nobody
    NoResource = NoResource
    Workloads <- Waiting
CHECK_DEADLOCK FALSE
PROPERTY EveryRequestEnds
