SPECIFICATION LocksSpec
CONSTANTS
    ForkIds = {1, 2, 3, 4}
    Callers = {1, 2, 3}
    MaxForks = 2
    Nobody = Nobody
    Procs = {p1, p2}
    NoCommit = NoCommit
    NoProc = NoProc
    Workloads <- Mixed
CHECK_DEADLOCK FALSE
INVARIANT RegistryHolds
PROPERTY EveryLockIsReleased
PROPERTY DiscardedStaysAsItWas
