SPECIFICATION Spec
CONSTANTS
    Parts = {"console"}
    Callers = {a, b}
    None = None
    LateCalls = FALSE
    MediaRefused = TRUE
INVARIANT AuthorityOnlyWhileLaunching
CHECK_DEADLOCK FALSE
