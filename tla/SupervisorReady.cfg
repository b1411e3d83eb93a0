SPECIFICATION SupervisorSpec
CONSTANTS
    Callers = {a, b}
    None = None
    IncarnationLimit = 1
    RequestLimit = 1
    FaultLimit = 0
PROPERTY ReadyWindowIsSettled
