SPECIFICATION FairSpec
CONSTANTS
    i1 = i1
    i2 = i2
    g1 = g1
    g2 = g2
    Irqs = {i1, i2}
    Gsis = {g1, g2}
    GsiOf <- OwnLines
    EdgeTriggered = {g2}
    VectorCount = 1
    StormThreshold = 1
    SequenceLimit = 2
    IdLimit = 2
INVARIANT
    DeliverySound
PROPERTY
    InterruptReachesDriver
