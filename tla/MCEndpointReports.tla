-------------------------- MODULE MCEndpointReports --------------------------
EXTENDS EndpointReports, TLC

CONSTANTS acme, north, h1, h2, linux, windows, ssh, oldSsh, rdp

NoRows == << >>
MCKeys == {acme, north}
MCLegacyPairs == {<<acme, north>>}
TwoPairs == MCLegacyPairs \cup {<<acme, Null>>}
MCPlatforms == {linux, windows}
OneLegacy == h1 :> [pair |-> <<acme, north>>, platform |-> linux]

MCControlPlatform == ssh :> linux @@ rdp :> windows
MCSupportedActions == ssh :> {"apply_control"} @@ rdp :> {"apply_control", "rollback_control"}
MCControlOf == ssh :> ssh @@ oldSsh :> ssh @@ rdp :> rdp
MCCapabilitySets == {{<<"heartbeat">>}, {<<"heartbeat">>, <<"apply_control", ssh>>}}
MCObservations == {{ssh}, {oldSsh, ssh}, {rdp}}

Held(role, scope) == {ScopeGrant(scope, RolePermissions[role])}
GlobalAdmin == {Held("admin", GlobalScope)}
TwoAdmins == GlobalAdmin \cup {Held("admin", LocationScope(<<acme>>, <<acme, north>>))}
AdminAndViewer == GlobalAdmin \cup {Held("viewer", LocationScope(<<acme>>, <<acme, Null>>))}

ReportSymmetry ==
    Permutations(Handlers) \cup Permutations(LocationIds) \cup Permutations(Workers)
=============================================================================
