\* A host that enrolls again without the site it once named.
SPECIFICATION EndpointSpec
CONSTANTS
    Null = Null
    acme = acme
    north = north
    h1 = h1
    h2 = h2
    linux = linux
    windows = windows
    ssh = ssh
    oldSsh = oldSsh
    rdp = rdp
    Keys <- MCKeys
    LegacyPairs <- TwoPairs
    LegacyProfiles <- NoRows
    LegacyEndpoints <- NoRows
    ControlPlatform <- MCControlPlatform
    SupportedActions <- MCSupportedActions
    ControlOf <- MCControlOf
    ClientIds = {}
    LocationIds = {l1}
    ProfileIds = {}
    Names = {}
    Workers = {w1}
    Platforms <- MCPlatforms
    CallerGrants <- AdminAndViewer
    Hosts = {h1}
    Handlers = {k1}
    CapabilitySets <- MCCapabilitySets
    Observations <- MCObservations
    Times = {1, 2}
    MaxSnapshots = 2
INVARIANTS
    AliasCanBeCleared
CHECK_DEADLOCK FALSE
