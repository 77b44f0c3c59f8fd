SPECIFICATION Spec
CONSTANTS
    r1 = r1
    r2 = r2
    Requests = {r1, r2}
    AllowAnonymous = TRUE
    AllowQueryParam = TRUE
    Credentials <- MCCredentials
    Routes <- MCRoutes
    Offers <- ReplayOffers
    Deployments <- MCDeployments
    Catalog <- MCCatalog
    MaxEntries = 1
PROPERTIES
    NoMissReplayed
