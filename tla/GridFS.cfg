SPECIFICATION Spec
CONSTANTS
    Workers = {w1, w2}
    Ids = {f}
    Files <- MCFiles
    ChunkSize = 2
    Counts <- MCCounts
    IntSize = 8
    SizeT = 32
    MaxStores = 2
    MaxRemoves = 1
    MaxStreams = 1
    NULL = NULL
INVARIANTS
    TypeOK
    StoredIsComplete
    FailureLeavesNothing
    ReadIsStored
CHECK_DEADLOCK FALSE
SYMMETRY MCSymmetry
