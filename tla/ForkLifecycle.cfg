SPECIFICATION Spec
CHECK_DEADLOCK FALSE
CONSTANTS
    Tasks = {p, q}
    Workloads <- Mixes
    MaxBytes = 4
    MaxRecalcs = 1
SYMMETRY Interchangeable
INVARIANT TokensAreReliable
INVARIANT FilesMatchTheRecords
INVARIANT LoweredFlagIsFresh
