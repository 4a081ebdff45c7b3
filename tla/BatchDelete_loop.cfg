SPECIFICATION Spec
CONSTANTS
    Ids = {i1, i2, i3, i4, i5}
    ChunkSize = 2
INVARIANTS
    TypeOK
    MarkedIsGone
    EveryIdReported
    BatchFits
PROPERTIES
    ImplementsDeletion
CHECK_DEADLOCK FALSE
