SPECIFICATION Spec
CONSTANTS
    Owners = {o1}
    Requests = {q1, q2, q3, q4}
    b1 = b1
    NoCommit = NoCommit
    NoRevision = NoRevision
    Main = Main
    NoRecord = NoRecord
    NoBytes = NoBytes
    Workloads <- Alone
    MaxAttempts = 6
SYMMETRY Interchangeable
CHECK_DEADLOCK FALSE
INVARIANT TokenCheckSuffices
INVARIANT PredictionsHold
INVARIANT HistoryNavigable
INVARIANT TokenNamesOneState
