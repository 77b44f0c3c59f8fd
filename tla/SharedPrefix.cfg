SPECIFICATION Spec
CONSTANTS
    Origins = {1, 2, 3}
    Deployments <- TwoPrefixes
    ProxyClasses = {"core", "search"}
INVARIANT
    SentAsNamed
