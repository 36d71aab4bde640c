SPECIFICATION Spec
CONSTANTS
    Owners = {o1, o2}
    Requests = {q1, q2}
    b1 = b1
    NoCommit = NoCommit
    NoRevision = NoRevision
    Main = Main
    NoRecord = NoRecord
    NoBytes = NoBytes
    Workloads <- Rivals
    MaxAttempts = 3
SYMMETRY Interchangeable
CHECK_DEADLOCK FALSE
INVARIANT OwnersAreFenced
INVARIANT ToldAndSeenStand
