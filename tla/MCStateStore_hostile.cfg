SPECIFICATION Spec
CONSTANTS
    i1 = i1
    i2 = i2
    k1 = k1
    Instances = {i1, i2}
    None = None
    Keys = {k1}
    Lives = {1, 2}
    MaxMarks = 2
    LoadSlack = 1
    Overlap = TRUE
    LockTimeouts = TRUE
    IoErrors = TRUE
SYMMETRY Symmetry
INVARIANTS
    TypeOK
    SavedMeansOnDisk
    LoadsHardlyProlong
PROPERTIES
    LoadsAreCurrent
