SPECIFICATION Spec
CONSTANTS
    p1 = p1
    p2 = p2
    Procs = {p1, p2}
    Pids <- ContainerPids
    Pid <- ContainerPid
    None = None
    StaleAge = 2
    LockTimeout = 1
    HoldBound = 2
    IoErrors = FALSE
PROPERTIES
    HeldFileStays
