SPECIFICATION FairSpec
CONSTANTS
    Instances = {i1, i2}
    None = None
    Other = Other
    ImagePages = 1
    ReadonlyPages = 1
    BorrowedPages = 1
    Grants = 1
    TableLimit = 1
    Frames = 9
    FaultLimit = 2
INVARIANTS FramesOwned
PROPERTIES ImplementsProgramLife CleanupSucceeds
CHECK_DEADLOCK FALSE
