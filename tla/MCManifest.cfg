\* A late report of the legacy reporter after the host's agent took over.
SPECIFICATION EndpointSpec
CONSTANTS
    Null = Null
    acme = acme
    north = north
    h1 = h1
    h2 = h2
    linux = linux
    windows = windows
    ssh = ssh
    oldSsh = oldSsh
    rdp = rdp
    Keys <- MCKeys
    LegacyPairs <- MCLegacyPairs
    LegacyProfiles <- NoRows
    LegacyEndpoints <- OneLegacy
    ControlPlatform <- MCControlPlatform
    SupportedActions <- MCSupportedActions
    ControlOf <- MCControlOf
    ClientIds = {}
    LocationIds = {}
    ProfileIds = {}
    Names = {}
    Workers = {}
    Platforms <- MCPlatforms
    CallerGrants <- GlobalAdmin
    Hosts = {h1}
    Handlers = {k1, k2}
    CapabilitySets <- MCCapabilitySets
    Observations = {}
    Times = {}
    MaxSnapshots = 0
SYMMETRY ReportSymmetry
INVARIANTS
    ManifestMatchesDeclared
CHECK_DEADLOCK FALSE
