\* The shared token after the deadline of legacy compatibility.
SPECIFICATION AuthSpec
CONSTANTS
    Null = Null
    Configs <- MCConfigs
    Requests <- MCRequests
    MaxTime = 3
PROPERTIES
    LegacyTokenEndsAtDeadline
