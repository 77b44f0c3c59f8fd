SPECIFICATION WalkSpec
CHECK_DEADLOCK FALSE
CONSTANTS
    Origins = {1, 2}
    Catalog <- SmallCatalog
    Limit = 2
    CursorTTL = 2
    NoCursor = NoCursor
    Clients = {c1}
    Principals = {alice}
    CacheSize = 0
    PageTTL = 1
    Upstream = "ragged"
    Faults = {"fetch", "capture"}
    FaultHorizon = 2
    MaxSeq = 9
    MaxTime = 0
INVARIANTS
    WalkEndsComplete
PROPERTIES
    WalkEnds
