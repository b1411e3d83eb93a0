SPECIFICATION DevicesSpec
CONSTANTS
    Parts = {"capture", "archive", "disk", "ahci", "xhci", "elf", "pci"}
    None = None
    Assignments = {"a1"}
    Processes = {"p1", "p2"}
    Buffers = {"b1", "b2"}
    Submissions = {"s1"}
    Bars = {"r1"}
    Mappings = {"m1", "m2"}
    Irqs = {"i1"}
    Callers = {"c1"}
    ChildResourceLimit = 2
    ActiveAccessLimit = 2
INVARIANTS SnapshotIsInstant NothingForgotten NamespacesAgree ReadsMatchChain ReadsAreOwn KeyboardServed
           LoadedAsDescribed NoReuseUnderDma
CHECK_DEADLOCK FALSE
