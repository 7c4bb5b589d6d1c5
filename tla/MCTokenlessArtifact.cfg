\* A legacy artifact for a session that outlived OIDC.
SPECIFICATION AuthSpec
CONSTANTS
    Null = Null
    Configs <- MCConfigs
    Requests <- MCRequests
    MaxTime = 3
PROPERTIES
    ProtectedArtifactHoldsToken
