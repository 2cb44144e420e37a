SPECIFICATION FairSpec
CONSTANTS
    i1 = i1
    i2 = i2
    k1 = k1
    Instances = {i1, i2}
    None = None
    Keys = {k1}
    Lives = {2}
    MaxMarks = 2
    LoadSlack = 0
    Overlap = FALSE
    LockTimeouts = FALSE
    IoErrors = FALSE
INVARIANTS
    ShutdownSaves
PROPERTIES
    FileEntriesSurvive
    ChangesGetSaved
