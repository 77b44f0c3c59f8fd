SPECIFICATION Spec
CONSTANTS
    Requests = {r1, r2}
    ShutdownTimeout = 2
INVARIANT
    DrainHonoured
CHECK_DEADLOCK FALSE
