SPECIFICATION Spec
CONSTANTS
    Parts = {"console"}
    Callers = {a, b}
    None = None
    LateCalls = TRUE
    MediaRefused = FALSE
INVARIANT Recoverable
CHECK_DEADLOCK FALSE
