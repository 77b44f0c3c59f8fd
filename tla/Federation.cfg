SPECIFICATION Spec
CONSTANTS
    Origins = {1, 2, 3}
    Deployments <- MCDeployments
    ProxyClasses = {"core", "search"}
INVARIANTS
    TypeOK
    UnmarkedIsComplete
    ListedIsServed
    FoundIfHeld
    AdvertIsCommonGround
PROPERTIES
    OriginsAreFeeds
    EveryRequestAnswered
