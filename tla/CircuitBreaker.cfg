SPECIFICATION FairSpec
\* A refused call changes nothing: a breaker that only refuses is a stuttering one,
\* which Recovers has to catch itself.
CHECK_DEADLOCK FALSE
CONSTANTS
    Requests = {r1, r2, r3}
    FailureThreshold = 2
    OpenBase = 2
    OpenMax = 6
    HalfOpenProbes = 2
    Modulus = 32
    MaxOpens = 6
INVARIANTS
    OpenIsQuiet
    ProbesAreInFlight
PROPERTIES
    OpenWindowServed
    BackoffAsDocumented
    Recovers
