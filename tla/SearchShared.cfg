SPECIFICATION Spec
SYMMETRY Symmetry
CONSTANTS
    Origins = {1, 2}
    Catalog <- SmallCatalog
    Limit = 2
    CursorTTL = 2
    NoCursor = NoCursor
    Clients = {c1, c2}
    Principals = {alice, bob}
    CacheSize = 1
    PageTTL = 2
    Upstream = "lazy"
    Faults = {}
    FaultHorizon = 0
    MaxSeq = 1
    MaxTime = 3
INVARIANTS
    SearchInv
    PagesOfOwnPrincipal
    CacheWithinCursor
