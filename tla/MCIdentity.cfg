\* One device, one process: it enrolls and rotates once, its cycles fail once,
\* and one of the ids it may draw is taken.  No symmetry: liveness is checked.
SPECIFICATION FairIdentitySpec
CONSTANTS
    Hosts = {"h1"}
    Tokens = {t1}
    Installs = {i1}
    Creds = {c1, c2, x1}
    Taken = {x1}
    MaxUses <- MCMaxUses
    Policy <- MCPolicy
    Suits <- MCSuits
    Homes <- MCHomes
    Nothing = Nothing
    Procs = {"h1"}
    HostOf <- MCOwnHost
    ConfigToken <- MCConfigToken
    MaxFaults = 1
INVARIANTS IdentityTypeOK OneIdentityPerDevice DeviceHoldsActiveCredential TokenUsesCounted
PROPERTIES CutOffStaysCutOff EnrollmentCompletes RotationResolves
