\* The service and an operator's command share one host's state file.
SPECIFICATION IdentitySpec
CONSTANTS
    Hosts = {"h1"}
    Tokens = {t1}
    Installs = {i1}
    Creds = {c1, c2}
    Taken = {}
    MaxUses <- MCMaxUses
    Policy <- MCPolicy
    Suits <- MCSuits
    Homes <- MCHomes
    Nothing = Nothing
    Procs = {p1, p2}
    HostOf <- MCOneHost
    ConfigToken <- MCConfigToken
    MaxFaults = 0
INVARIANTS DeviceCanComeBack
