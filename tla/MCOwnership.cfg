\* Two operators create clients, locations and installer profiles at a time.
SPECIFICATION EndpointSpec
CONSTANTS
    Null = Null
    acme = acme
    north = north
    h1 = h1
    h2 = h2
    linux = linux
    windows = windows
    ssh = ssh
    oldSsh = oldSsh
    rdp = rdp
    Keys <- MCKeys
    LegacyPairs <- MCLegacyPairs
    LegacyProfiles <- NoRows
    LegacyEndpoints <- NoRows
    ControlPlatform <- MCControlPlatform
    SupportedActions <- MCSupportedActions
    ControlOf <- MCControlOf
    ClientIds = {c1, c2}
    LocationIds = {l1, l2}
    ProfileIds = {p1, p2}
    Names = {std}
    Workers = {w1, w2}
    Platforms = {linux}
    CallerGrants <- TwoAdmins
    Hosts = {}
    Handlers = {}
    CapabilitySets = {}
    Observations = {}
    Times = {}
    MaxSnapshots = 0
SYMMETRY ReportSymmetry
INVARIANTS
    HierarchySound
    ListsShowAuthority
\* Ids run out, and nobody has to send another request.
CHECK_DEADLOCK FALSE
