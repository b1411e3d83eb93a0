SPECIFICATION Spec
CONSTANTS
    Parts = {"console", "portals", "serial", "input", "editor", "supervisor", "native", "rebind", "session", "compose"}
    Callers = {a, b}
    None = None
    LateCalls = FALSE
    MediaRefused = FALSE
SYMMETRY Symmetry
INVARIANTS Recoverable SessionsDoNotMix ReadsAreExact EventsAreKeysPressed RowsShowLine AnswerIsOwn
           ScanoutGuarded PlaneFollowsPlan SessionRecoverable ComposedShowsStack
PROPERTIES PoisonStopsDispatch RebindInTheDark
CHECK_DEADLOCK FALSE
