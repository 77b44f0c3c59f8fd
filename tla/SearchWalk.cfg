SPECIFICATION Spec
CONSTANTS
    Origins = {1, 2, 3}
    Catalog <- MirroredCatalog
    Limit = 2
    CursorTTL = 2
    NoCursor = NoCursor
    Clients = {c1}
    Principals = {alice}
    CacheSize = 1
    PageTTL = 1
    Upstream = "exact"
    Faults = {"fetch"}
    FaultHorizon = 2
    MaxSeq = 3
    MaxTime = 0
INVARIANTS
    NoItemLost
    EachItemOnce
    PageIsHeadOfMerge
    CleanWalkSorted
    StashBounded
    LinksFollowWalk
    CacheIsFresh
