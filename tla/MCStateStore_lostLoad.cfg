SPECIFICATION Spec
CONSTANTS
    i1 = i1
    i2 = i2
    k1 = k1
    k2 = k2
    Instances = {i1, i2}
    None = None
    Keys = {k1, k2}
    Lives = {2}
    MaxMarks = 1
    LoadSlack = 0
    Overlap = FALSE
    LockTimeouts = TRUE
    IoErrors = FALSE
PROPERTIES
    FileEntriesSurvive
