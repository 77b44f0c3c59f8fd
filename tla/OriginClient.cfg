SPECIFICATION FairSpec
CONSTANTS
    r1 = r1
    r2 = r2
    Requests = {r1, r2}
    FailureThreshold = 1
    OpenBase = 1
    OpenMax = 1
    HalfOpenProbes = 1
    Modulus = 16
    MaxOpens = 2
    Offers <- MCOffers
    MaxRetries = 1
    RetryOn = {}
    Statuses = {200, 503}
    RetryAfter = {0, 2}
    InitialBackoff = 1
    MaxBackoff = 1
    Timeout = 2
    TokenTimeout = 2
    Skew = 2
    ExpiresIn = {0, 2}
    DefaultLife = 3
INVARIANTS
    BearerLive
PROPERTIES
    CallIsOneSample
    NoNeedlessFetch
    CallsEnd
