\* Every route, every credential a request may carry, in twelve deployments.
SPECIFICATION AuthSpec
CONSTANTS
    Null = Null
    Configs <- MCConfigs
    Requests <- MCRequests
    MaxTime = 2
INVARIANTS
    ServedWithinAuthority
    CookieDecides
PROPERTIES
    ArtifactCanReport
