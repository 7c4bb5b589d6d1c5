\* One login of a known person while an Admin disables that person.
SPECIFICATION HumanSpec
CONSTANTS
    Subjects = {x1, x2}
    Users = {u1, u2}
    Logins = {l1, l2, l3}
    Sessions = {s1, s2, s3}
    Bindings = {b1}
    Roles = {"admin"}
    Workers = {w1, w2}
    LoginTtl = 1
    IdleTtl = 1
    AbsoluteTtl = 1
    MaxClock = 0
    Nothing = Nothing
SYMMETRY HumanSymmetry
PROPERTIES NoSessionForDisabledUser
\* Nobody has to log in or to send another request.
CHECK_DEADLOCK FALSE
