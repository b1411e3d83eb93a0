SPECIFICATION FairSpec
CONSTANTS
    Callers = {owner}
    None = None
    IncarnationLimit = 2
    RequestLimit = 3
    FaultLimit = 2
PROPERTIES
    ServesItsLife
    StopEnds
