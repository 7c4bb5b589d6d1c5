\* Two handlers, two requests, two grants; a grant lives one minute of two
\* ticks, rounded up to a whole minute.
SPECIFICATION ApprovalSpec
CONSTANTS
    Endpoints = {"e1", "e2", "e3"}
    Controls = {"c1"}
    Scopes = {"s1"}
    ClientOf <- MCClientOf
    MinuteTicks = 2
    MinTtl = 1
    MaxTtl = 1
    Nothing = Nothing
    Workers = {w1, w2}
    RequestIds = {r1, r2}
    GrantIds = {g1, g2}
    Asked <- MCAsked
    Ttls = {0, 1, 2}
    MaxClock = 3
SYMMETRY Symmetry
INVARIANTS ApprovalTypeOK GrantFollowsRequest HistoryExplainsStatus ExpiryNotEarly
PROPERTIES NoRevival
