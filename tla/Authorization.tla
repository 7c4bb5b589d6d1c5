---------------------------- MODULE Authorization ----------------------------
(***************************************************************************)
(* What a principal may do where (backend/app/authorization.py): role      *)
(* grants over the Global, Client and Location scopes, the checks that the *)
(* handlers make before they act, and the WHERE clauses that limit what    *)
(* they read.  Everything here is a function of the principal's grants and *)
(* of the row at hand.                                                     *)
(*                                                                         *)
(* A NULL column equals nothing in SQL, so each comparison with a column   *)
(* asks that the value is there.                                           *)
(***************************************************************************)
CONSTANT Null

FleetReads == {"dynamic_group.read", "saved_view.read", "tag.read"}
FleetChanges == {"dynamic_group.manage", "saved_view.manage", "tag.manage"}

READONLY_PERMISSIONS ==
    FleetReads \cup
    {"approval.read", "audit.read", "catalog.read", "compliance_evidence.export",
     "endpoint.read", "evidence.read", "hierarchy.read", "inventory.read",
     "installer_profile.read", "response_action.read"}

(* The operator token: no identity.manage, and none of the permissions of  *)
(* work that the service does not do yet.                                  *)
LEGACY_OPERATOR_PERMISSIONS ==
    (READONLY_PERMISSIONS \ {"evidence.read", "inventory.read"}) \cup FleetChanges \cup
    {"approval.decide", "approval.grant", "approval.request", "device_credential.manage",
     "endpoint.approve", "enrollment.manage", "enrollment.read", "hierarchy.manage",
     "installer_artifact.download", "installer_profile.manage", "response_action.create"}

RequestPermissions == {"action.request", "approval.request", "inventory.refresh",
             "response_action.create"}
ResponsePermissions == {"containment.execute", "containment.release", "evidence.collect",
              "incident.manage", "process.mutate", "service.mutate"}
DecisionPermissions == {"action.approve", "approval.decide", "schedule.approve"}

(* The permissions that migrations 0007 and 0008 seed for each role.       *)
RolePermissions ==
    [viewer    |-> READONLY_PERMISSIONS,
     operator  |-> READONLY_PERMISSIONS \cup FleetChanges \cup RequestPermissions,
     responder |-> READONLY_PERMISSIONS \cup FleetChanges \cup RequestPermissions \cup ResponsePermissions,
     approver  |-> READONLY_PERMISSIONS \cup DecisionPermissions,
     admin     |-> LEGACY_OPERATOR_PERMISSIONS \cup READONLY_PERMISSIONS \cup RequestPermissions
                   \cup ResponsePermissions \cup DecisionPermissions \cup
                   {"audit.export", "bulk_action.execute", "command.execute",
                    "compliance.exception", "credential.admin", "enrollment.admin",
                    "identity.manage", "reboot.execute", "schedule.create",
                    "terminal.open"}]

-----------------------------------------------------------------------------
(* A ScopeGrant: the scope of a role binding and the permissions of its    *)
(* role.  load_user_grants makes one for each binding that is not revoked; *)
(* tokens get one synthetic global grant.                                  *)
ScopeGrant(scope, permissions) ==
    [scope_type |-> scope.scope_type, client |-> scope.client,
     location |-> scope.location, permissions |-> permissions]

GlobalScope == [scope_type |-> "global", client |-> Null, location |-> Null]
ClientScope(c) == [scope_type |-> "client", client |-> c, location |-> Null]
LocationScope(c, l) == [scope_type |-> "location", client |-> c, location |-> l]

synthetic_global_grant(permissions) == ScopeGrant(GlobalScope, permissions)

(* A column holds a value. *)
Equals(column, value) == column # Null /\ column = value

permits(grant, permission, client, location) ==
    /\ permission \in grant.permissions
    /\ \/ grant.scope_type = "global"
       \/ /\ Equals(client, grant.client)
          /\ grant.scope_type = "client" \/ Equals(location, grant.location)

has_permission(grants, permission) ==
    \E g \in grants : permission \in g.permissions

permits_scope(grants, permission, client, location) ==
    \E g \in grants : permits(g, permission, client, location)

require_global_permission(grants, permission) ==
    \E g \in grants : g.scope_type = "global" /\ permission \in g.permissions

(* The rows with this client and location that a query returns.            *)
scope_clause(grants, permission, client, location) ==
    \E g \in grants :
        /\ permission \in g.permissions
        /\ \/ g.scope_type = "global"
           \/ g.scope_type = "client" /\ g.client # Null /\ Equals(client, g.client)
           \/ /\ g.scope_type = "location" /\ g.client # Null /\ g.location # Null
              /\ Equals(client, g.client)
              /\ Equals(location, g.location)

(* Mistake: only a grant on the whole client shows it.                     *)
client_scope_clause_whole(grants, permission, client) ==
    \E g \in grants :
        /\ permission \in g.permissions
        /\ \/ g.scope_type = "global"
           \/ g.scope_type = "client" /\ g.client # Null /\ client = g.client

(* The clients that a query returns.                                       *)
client_scope_clause(grants, permission, client) ==
    \E g \in grants :
        /\ permission \in g.permissions
        /\ g.scope_type = "global" \/ (g.client # Null /\ client = g.client)
=============================================================================
