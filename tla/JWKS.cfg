SPECIFICATION FairSpec
CONSTANTS
    Callers = {c1, c2}
    Kids = {k1}
    Bg = Bg
    NoKid = NoKid
    TTL = 1
    HardTTL = 2
    MinRefreshInterval = 1
    NegativeCacheTTL = 1
    RefreshTimeout = 1
INVARIANTS
    RevocationBounded
    SerialBurstsThrottled
PROPERTIES
    KeysSurviveOutage
    RotationArrives
