SPECIFICATION Spec
CONSTANTS
    r1 = r1
    r2 = r2
    r3 = r3
    Requests = {r1, r2, r3}
    Deployments <- MCDeployments
    Cost = 2
    Burst = 2
    MaxDebt = 4
    Delay = 1
    MaxRewound = 3
    CallTimeout = 1
    Lead = 1
SYMMETRY Symmetry
INVARIANTS
    OvershootBounded
PROPERTIES
    RedisIsBucket
    WithinQuotaAdmitted
