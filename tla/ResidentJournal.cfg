SPECIFICATION Spec
CONSTANTS
    Procs = {p1, p2}
    Requests = {q1, q2}
    Fingerprints = {f1, f2}
    NoCommit = NoCommit
    NoProc = NoProc
    MaxLines = 2
    MaxAttempts = 2
    MaxLosses = 1
SYMMETRY Interchangeable
INVARIANT AcknowledgedSurvives
INVARIANT NotFoundIsFinal
PROPERTY ImplementsDurableLog
