SPECIFICATION ObjectsSpec
CONSTANTS
    Parts = {"tables", "exits", "frames", "trees"}
    Tables = {ta, tb}
    Objects = {oa}
    Rights = {send}
    Capacity = 2
    GenerationMax = 2
    IdLimit = 2
    EraLimit = 2
    Nothing = Nothing
    Frames = {f1, f2, f3, f4, f5, f6, f7, f8, f9, f10}
    Kernel = Kernel
    Scratch = Scratch
INVARIANTS StaleHandlesStayDead RefsExact LedgerBalances
PROPERTIES ImplementsExitEvents ImplementsFrameSource
CHECK_DEADLOCK FALSE
