SPECIFICATION SessionsSpec
CONSTANTS
    Inputs = {x1, x2}
    Looks = {l1, l2}
    Unknown = Unknown
    None = None
    Epochs = {e1, e2}
    MaxState = 4
    Clients = {q1, q2, q3}
    Creation = Creation
    Own = Own
    Nothing = Nothing
    MaxLog = 5
    MaxFailures = 2
    Creations = {c1, c2}
    Generations = {g1, g2}
    NoGeneration = NoGeneration
    MaxDirectories = 3
    MaxTrouble = 2
SYMMETRY Interchangeable
\* A journal at its quota takes no restart record, and the session stops.
CHECK_DEADLOCK FALSE
INVARIANT SnapshotCoherent
INVARIANT EvaluatorFollowsDocument
INVARIANT CurrentMeansComputed
INVARIANT RepeatedRequestsAgree
INVARIANT RuntimeMatchesJournal
INVARIANT AnsweredCreationStands
