SPECIFICATION Spec
CONSTANTS
    p1 = p1
    p2 = p2
    p3 = p3
    None = None
    Procs = {p1, p2, p3}
    Pids <- DistinctPids
    Pid <- OwnPid
    StaleAge = 2
    LockTimeout = 1
    HoldBound = 2
    IoErrors = TRUE
SYMMETRY Symmetry
INVARIANTS
    TypeOK
    MutualExclusion
    CleanerSeesStale
PROPERTIES
    HeldFileStays
