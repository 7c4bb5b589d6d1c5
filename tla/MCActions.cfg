\* One action of one endpoint, two handlers, two attempts; a lease lives one
\* tick and the grant two.
SPECIFICATION ActionSpec
CONSTANTS
    Endpoints = {"e1"}
    Controls = {"c1", "c2"}
    Scopes = {"s1"}
    ClientOf <- MCClientOf
    MinuteTicks = 2
    MinTtl = 1
    MaxTtl = 1
    Nothing = Nothing
    Workers = {w1, w2}
    RequestIds = {r1}
    GrantIds = {g1}
    Asked <- MCAskedBoth
    Ttls = {1}
    MaxClock = 2
    ActionIds = {a1}
    Keys = {k1}
    AskedActions <- MCAskedActions
    Declared <- MCDeclared
    Reported = {"succeeded"}
    Outcomes = {"done"}
    OperatorCalls = {"approve", "revoke", "grant", "sync"}
    LeaseTicks = 1
    MaxAttempts = 2
SYMMETRY Symmetry
INVARIANTS ActionTypeOK NoOverlappingLeases DeliveriesAuthorised CreationIsIdempotent
PROPERTIES NoLateLease QueueImplemented
