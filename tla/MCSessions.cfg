\* Two requests at a time; two people, two logins and two sessions that
\* live two ticks.
SPECIFICATION HumanSpec
CONSTANTS
    Subjects = {x1, x2}
    Users = {u1, u2}
    Logins = {l1, l2}
    Sessions = {s1, s2}
    Bindings = {b1, b2, b3}
    Roles = {"admin"}
    Workers = {w1, w2}
    LoginTtl = 2
    IdleTtl = 2
    AbsoluteTtl = 2
    MaxClock = 2
    Nothing = Nothing
SYMMETRY HumanSymmetry
INVARIANTS LoginsSound AuthorityTracesToBootstrap
PROPERTIES RevokedSessionStaysRevoked
\* Nobody has to log in or to send another request.
CHECK_DEADLOCK FALSE
