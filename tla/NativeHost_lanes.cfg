SPECIFICATION Spec
CONSTANTS
    x1 = x1
    x2 = x2
    Resources = {x1, x2}
    Requests = {r1, r2, r3}
    NoLane = NoLane
    Nobody = Nobody
    NoResource = NoResource
    Workloads <- Served
SYMMETRY Interchangeable
CHECK_DEADLOCK FALSE
INVARIANT OneOwnerPerResource
INVARIANT AcceptedIsSettled
INVARIANT DiscardIsLast
