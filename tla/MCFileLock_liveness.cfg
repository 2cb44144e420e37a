SPECIFICATION FairSpec
CONSTANTS
    p1 = p1
    p2 = p2
    p3 = p3
    Procs = {p1, p2, p3}
    Pids <- DistinctPids
    Pid <- OwnPid
    None = None
    StaleAge = 2
    LockTimeout = 1
    HoldBound = 2
    IoErrors = FALSE
PROPERTIES
    LockReturns
    StaleLockRemovedUnlessCleanerDied
    ImplementsExclusiveLock
