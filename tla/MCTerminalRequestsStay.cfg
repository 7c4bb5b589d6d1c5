\* Two handlers, one request, one grant; a minute has two ticks.
SPECIFICATION ApprovalSpec
CONSTANTS
    Endpoints = {"e1", "e2", "e3"}
    Controls = {"c1"}
    Scopes = {"s1"}
    ClientOf <- MCClientOf
    MinuteTicks = 2
    MinTtl = 1
    MaxTtl = 1
    Nothing = Nothing
    Workers = {w1, w2}
    RequestIds = {r1}
    GrantIds = {g1}
    Asked <- MCAsked
    Ttls = {0, 1, 2}
    MaxClock = 3
SYMMETRY Symmetry
PROPERTIES TerminalRequestsStay
