SPECIFICATION Spec
CONSTANTS
    Origins = {1, 2, 3}
    Deployments <- Excluding
    ProxyClasses = {"core", "search"}
INVARIANT
    OnlyRoutedAsked
