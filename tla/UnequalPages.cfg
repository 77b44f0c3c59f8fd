SPECIFICATION Spec
CONSTANTS
    Origins = {1, 2}
    Catalog <- SmallCatalog
    Limit = 2
    CursorTTL = 2
    NoCursor = NoCursor
    Clients = {c1}
    Principals = {alice}
    CacheSize = 0
    PageTTL = 1
    Upstream = "ragged"
    Faults = {}
    FaultHorizon = 9
    MaxSeq = 4
    MaxTime = 0
INVARIANTS
    NoDuplicates
