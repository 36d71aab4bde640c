SPECIFICATION Spec
CONSTANTS
    Docs <- Documents
    Requests <- AllRequests
    Edits <- EditsOf
    MaxWrites = 1
    MaxPage = 3
    TraceMin = 1
    TraceDepth = 3
    StyleMax = 2
INVARIANT WalksAreWhole
PROPERTY EveryWalkEnds
