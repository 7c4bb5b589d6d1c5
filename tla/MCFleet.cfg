\* An operator whose role bindings change, two requests at a time.
SPECIFICATION FleetSpec
CONSTANTS
    Null = Null
    Actors = {a1}
    Clients <- TwoClients
    LocationClient <- ThreeLocations
    EndpointLocation <- ThreeEndpoints
    EndpointField <- Hosts
    Tags = {"t1"}
    Views = {v1}
    Groups = {g1}
    Names = {"IR", "ir"}
    Filters <- TwoFilters
    CaseFold <- Fold
    Contains <- Prefixes
    StartsWith <- Prefixes
    Bindable <- ScopedBindings
    Workers = {w1, w2}
    MAX_GROUP_EVALUATION_ENDPOINTS = 2
    Limit = 1
    MaxRequests = 4
SYMMETRY FleetSymmetry
INVARIANTS
    ScopesContain
    VersionsInOrder
    RemovalsAudited
\* Nobody has to send another request.
CHECK_DEADLOCK FALSE
