---------------------------- MODULE FleetMetadata ----------------------------
(***************************************************************************)
(* Tags, saved views and dynamic groups                                    *)
(* (backend/app/api/endpoints/fleet_metadata.py).                          *)
(*                                                                         *)
(* Each belongs to a Global, Client or Location scope.  A saved view has   *)
(* numbered versions of its filter; a dynamic group is a saved view used   *)
(* as a selector of endpoints.  A worker authenticates a request, which    *)
(* reads the caller's grants, and then runs the handler's transaction.  No *)
(* handler here locks a row: those that read before they write are two     *)
(* steps, and only the keys and constraints of the tables order them.      *)
(*                                                                         *)
(* Lists and previews change nothing.  They are operators over the state   *)
(* and the grants of the request, and the invariants say what a request    *)
(* with the grants that were read for it may see in any later state.       *)
(*                                                                         *)
(* Clients and locations are never archived: no operation of the service   *)
(* does it.  An endpoint's client and location never change, which         *)
(* EndpointReports checks.                                                 *)
(***************************************************************************)
EXTENDS Authorization, Naturals, FiniteSets, Sequences

CONSTANTS
    Actors,            \* authenticated callers
    Clients,
    LocationClient,    \* the client of each location
    EndpointLocation,  \* the location of each endpoint; endpoint ids are numbers
    EndpointField,     \* the endpoint's columns that filters look at
    Tags, Views, Groups, Names, Filters,
    CaseFold,          \* str.casefold on names and values
    Contains,          \* pairs <<text, part>> with `part in text`
    StartsWith,        \* pairs <<text, part>> with text.startswith(part)
    Bindable,          \* the roles and scopes that actors are bound to
    Workers,
    MAX_GROUP_EVALUATION_ENDPOINTS,
    Limit,             \* the `limit` of a preview
    MaxRequests        \* bound on the requests of a behaviour

VARIABLES
    bindings,          \* user_role_bindings that are not revoked, by actor
    tags, assignments, \* endpoint_tag_assignments: pairs of endpoint and tag
    views, versions,   \* saved_views and saved_view_versions
    groups,
    audit,             \* tag events of audit_events
    job,               \* the request each worker runs
    served             \* requests so far

fleetVars == <<bindings, tags, assignments, views, versions, groups, audit, job, served>>

Locations == DOMAIN LocationClient
Endpoints == DOMAIN EndpointLocation
EndpointClient(e) == LocationClient[EndpointLocation[e]]

Scopes == {GlobalScope} \cup {ClientScope(c) : c \in Clients}
              \cup {LocationScope(LocationClient[l], l) : l \in Locations}

ASSUME FleetAssumption ==
    /\ LocationClient \in [Locations -> Clients]
    /\ EndpointLocation \in [Endpoints -> Locations]
    /\ Endpoints \subseteq Nat
    /\ Bindable \subseteq [role : DOMAIN RolePermissions, scope : Scopes]
    /\ {Limit, MAX_GROUP_EVALUATION_ENDPOINTS} \subseteq Nat \ {0}

(* load_user_grants *)
Grants(held) == {ScopeGrant(b.scope, RolePermissions[b.role]) : b \in held}

NoTag == [scope |-> Null, name |-> Null]
NoView == [scope |-> Null, owner |-> Null, visibility |-> "private", current |-> 0]
NoGroup == [scope |-> Null, view |-> Null]
Free == [pc |-> "free", actor |-> Null, held |-> {}, endpoint |-> Null, tag |-> Null,
         view |-> Null, version |-> 0, filter |-> Null]

TagRows == [scope : Scopes, name : Names]
ViewRows == [scope : Scopes, owner : Actors, visibility : {"private", "shared"},
             current : Nat \ {0}]
GroupRows == [scope : Scopes, view : Views]

Jobs ==
    [pc : {"free", "handle", "assign", "remove", "update"}, actor : Actors \cup {Null},
     held : SUBSET Bindable, endpoint : Endpoints \cup {Null}, tag : Tags \cup {Null},
     view : Views \cup {Null}, version : Nat, filter : Filters \cup {Null}]

(* The types of the columns, and the foreign keys. *)
FleetTypeOK ==
    /\ bindings \in [Actors -> SUBSET Bindable]
    /\ tags \in [Tags -> {NoTag} \cup TagRows]
    /\ assignments \subseteq Endpoints \X {t \in Tags : tags[t] # NoTag}
    /\ views \in [Views -> {NoView} \cup ViewRows]
    /\ versions \in [Views -> Seq(Filters)]
    /\ \A v \in Views : views[v] # NoView => views[v].current \in DOMAIN versions[v]
    /\ groups \in [Groups -> {NoGroup} \cup GroupRows]
    /\ \A g \in Groups :
           groups[g] # NoGroup =>
               views[groups[g].view] # NoView /\ groups[g].scope = views[groups[g].view].scope
    /\ audit \in [Endpoints \X Tags -> [assigned : Nat, removed : Nat]]
    /\ job \in [Workers -> Jobs]
    /\ served \in Nat

FleetInit ==
    /\ bindings = [a \in Actors |-> {}]
    /\ tags = [t \in Tags |-> NoTag]
    /\ assignments = {}
    /\ views = [v \in Views |-> NoView]
    /\ versions = [v \in Views |-> << >>]
    /\ groups = [g \in Groups |-> NoGroup]
    /\ audit = [p \in Endpoints \X Tags |-> [assigned |-> 0, removed |-> 0]]
    /\ job = [w \in Workers |-> Free]
    /\ served = 0

-----------------------------------------------------------------------------
(* Scopes of resources *)

(* _require_requested_scope: the scope exists and the caller holds the     *)
(* permission in all of it.                                                *)
_require_requested_scope(grants, permission, scope) ==
    IF scope.scope_type = "global"
    THEN require_global_permission(grants, permission)
    ELSE permits_scope(grants, permission, scope.client, scope.location)

(* _resource_scope_clause: a grant at a location also shows the resources  *)
(* of its client.                                                          *)
_resource_scope_clause(grants, permission, scope) ==
    \E g \in grants :
        /\ permission \in g.permissions
        /\ \/ g.scope_type = "global"
           \/ /\ g.client # Null
              /\ Equals(scope.client, g.client)
              /\ \/ scope.scope_type = "client"
                 \/ scope.scope_type = "location" /\ g.scope_type = "client"
                 \/ scope.scope_type = "location" /\ g.location # Null
                    /\ Equals(scope.location, g.location)

(* _selected_resource_scope_clause, for the filter of a list request.      *)
_selected_resource_scope_clause(scope, client, location) ==
    \/ client = Null
    \/ scope.scope_type = "client" /\ scope.client = client
    \/ /\ scope.scope_type = "location" /\ scope.client = client
       /\ location = Null \/ scope.location = location

(* What a list request returns: nothing when the caller may not read the   *)
(* selected scope, which the handler answers with 404.                     *)
Listed(grants, permission, scope, client, location) ==
    /\ client # Null => permits_scope(grants, permission, client, location)
    /\ _resource_scope_clause(grants, permission, scope)
    /\ _selected_resource_scope_clause(scope, client, location)

(* The scope key of a tag fits the endpoint: the query of assign and the   *)
(* CHECK constraint of endpoint_tag_assignments.                           *)
FitsEndpoint(scope, e) ==
    scope \in {GlobalScope, ClientScope(EndpointClient(e)),
               LocationScope(EndpointClient(e), EndpointLocation[e])}

EndpointVisible(grants, permission, e) ==
    scope_clause(grants, permission, EndpointClient(e), EndpointLocation[e])

-----------------------------------------------------------------------------
(* Filters *)

AllowedOperators(field) ==
    {"eq", "neq", "in"} \cup
    (IF field \in {"hostname", "agent_version"} THEN {"contains", "starts_with"} ELSE {})

(* EndpointFilterRule.validate_rule and the bounds of a definition.        *)
ValidFilter(f) ==
    /\ Cardinality(f.rules) \in 1..16
    /\ \A r \in f.rules :
           /\ r.op \in AllowedOperators(r.field)
           /\ IF r.op = "in" THEN Cardinality(r.values) \in 1..50
                             ELSE Cardinality(r.values) = 1

(* _rule_values: an absent column reads as "unknown", a tag matches by its *)
(* id and by its name.                                                     *)
_rule_values(e, r, endpointTags) ==
    IF r.field = "tag" THEN endpointTags
    ELSE {IF EndpointField[e][r.field] = Null THEN "unknown"
          ELSE CaseFold[EndpointField[e][r.field]]}

_matches_rule(e, r, endpointTags) ==
    LET actual == _rule_values(e, r, endpointTags)
        expected == {CaseFold[x] : x \in r.values}
    IN  CASE r.op \in {"eq", "in"} -> actual \cap expected # {}
          [] r.op = "neq" -> actual \cap expected = {}
          [] r.op = "contains" -> \E x \in actual, y \in expected : <<x, y>> \in Contains
          [] r.op = "starts_with" -> \E x \in actual, y \in expected : <<x, y>> \in StartsWith

_matches_filter(e, f, endpointTags) ==
    IF f.match = "all" THEN \A r \in f.rules : _matches_rule(e, r, endpointTags)
                       ELSE \E r \in f.rules : _matches_rule(e, r, endpointTags)

TagsOf(e) == {t \in Tags : <<e, t>> \in assignments}
TagValues(e) == UNION {{CaseFold[t], CaseFold[tags[t].name]} : t \in TagsOf(e)}

-----------------------------------------------------------------------------
(* Lists and previews, for a principal with these grants *)

ListTags(grants, client, location) ==
    {t \in Tags : tags[t] # NoTag
        /\ Listed(grants, "tag.read", tags[t].scope, client, location)}

(* All the tags of an endpoint, those of the global scope as well. *)
ListEndpointTags(grants, e) ==
    IF EndpointVisible(grants, "tag.read", e) THEN TagsOf(e) ELSE {}

(* _owner_clause and _is_owner: an actor is its subject and its user id.   *)
ViewVisible(grants, a, v) ==
    /\ _resource_scope_clause(grants, "saved_view.read", views[v].scope)
    /\ views[v].visibility = "shared" \/ views[v].owner = a

ListViews(grants, a, client, location) ==
    {v \in Views : views[v] # NoView
        /\ Listed(grants, "saved_view.read", views[v].scope, client, location)
        /\ ViewVisible(grants, a, v)}

ListGroups(grants, client, location) ==
    {g \in Groups : groups[g] # NoGroup
        /\ Listed(grants, "dynamic_group.read", groups[g].scope, client, location)}

(* _endpoint_scope_clause *)
InScope(scope, e) ==
    CASE scope.scope_type = "global" -> TRUE
      [] scope.scope_type = "client" -> EndpointClient(e) = scope.client
      [] scope.scope_type = "location" -> /\ EndpointClient(e) = scope.client
                                          /\ EndpointLocation[e] = scope.location

(* Mistake: the group's scope alone chooses the endpoints that are         *)
(* evaluated.                                                              *)
EvaluatedInGroup(grants, g) == {e \in Endpoints : InScope(groups[g].scope, e)}

(* The endpoints that a preview evaluates: those of the group that the     *)
(* caller may read.                                                        *)
Evaluated(grants, g) ==
    {e \in Endpoints : /\ InScope(groups[g].scope, e)
                       /\ EndpointVisible(grants, "endpoint.read", e)}

CurrentFilter(v) == versions[v][views[v].current]

(* preview_dynamic_group: the answer, or Null when there is none (403, 404 *)
(* or 413).  Items come in the order of their ids, up to the limit.        *)
Preview(grants, g) ==
    LET matching == {e \in Evaluated(grants, g) :
                        _matches_filter(e, CurrentFilter(groups[g].view), TagValues(e))}
    IN  IF /\ groups[g] # NoGroup
           /\ has_permission(grants, "endpoint.read")
           /\ _resource_scope_clause(grants, "dynamic_group.read", groups[g].scope)
           /\ Cardinality(Evaluated(grants, g)) <= MAX_GROUP_EVALUATION_ENDPOINTS
        THEN [version |-> views[groups[g].view].current,
              matched |-> Cardinality(matching),
              items |-> {e \in matching : Cardinality({x \in matching : x < e}) < Limit}]
        ELSE Null

-----------------------------------------------------------------------------
(* Operations *)

(* Role bindings change at any time (HumanIdentity).                       *)
BindActor(a, b) ==
    /\ bindings' = [bindings EXCEPT ![a] = @ \cup {b}]
    /\ b \notin bindings[a]
    /\ UNCHANGED <<tags, assignments, views, versions, groups, audit, job, served>>

UnbindActor(a, b) ==
    /\ b \in bindings[a]
    /\ bindings' = [bindings EXCEPT ![a] = @ \ {b}]
    /\ UNCHANGED <<tags, assignments, views, versions, groups, audit, job, served>>

(* The middleware and require_permission: the handler works with the       *)
(* grants of this moment.                                                  *)
Authenticate(w, a) ==
    /\ job[w] = Free
    /\ served < MaxRequests
    /\ served' = served + 1
    /\ job' = [job EXCEPT ![w] = [Free EXCEPT !.pc = "handle", !.actor = a,
                                              !.held = bindings[a]]]
    /\ UNCHANGED <<bindings, tags, assignments, views, versions, groups, audit>>

Reply(w) == job' = [job EXCEPT ![w] = Free]

create_tag(w, t, name, scope) ==
    /\ job[w].pc = "handle"
    /\ tags[t] = NoTag
    /\ _require_requested_scope(Grants(job[w].held), "tag.manage", scope)
    /\ \A u \in Tags : tags[u] # NoTag /\ tags[u].scope = scope
                           => CaseFold[tags[u].name] # CaseFold[name]
    /\ tags' = [tags EXCEPT ![t] = [scope |-> scope, name |-> name]]
    /\ Reply(w)
    /\ UNCHANGED <<bindings, assignments, views, versions, groups, audit, served>>

(* assign_endpoint_tag up to the read of the assignment; an assignment     *)
(* that is there is the answer.                                            *)
assign_endpoint_tag(w, e, t) ==
    /\ job[w].pc = "handle"
    /\ EndpointVisible(Grants(job[w].held), "tag.manage", e)
    /\ tags[t] # NoTag
    /\ _resource_scope_clause(Grants(job[w].held), "tag.manage", tags[t].scope)
    /\ FitsEndpoint(tags[t].scope, e)
    /\ IF <<e, t>> \in assignments THEN Reply(w)
       ELSE job' = [job EXCEPT ![w].pc = "assign", ![w].endpoint = e, ![w].tag = t]
    /\ UNCHANGED <<bindings, tags, assignments, views, versions, groups, audit, served>>

Event(w, kind) ==
    audit' = [audit EXCEPT ![<<job[w].endpoint, job[w].tag>>][kind] = @ + 1]

(* The insert: the primary key refuses a second row, and the request with  *)
(* its audit event fails.                                                  *)
InsertAssignment(w) ==
    LET pair == <<job[w].endpoint, job[w].tag>>
    IN  /\ job[w].pc = "assign"
        /\ IF pair \in assignments THEN UNCHANGED <<assignments, audit>>
           ELSE assignments' = assignments \cup {pair} /\ Event(w, "assigned")
        /\ Reply(w)
        /\ UNCHANGED <<bindings, tags, views, versions, groups, served>>

remove_endpoint_tag(w, e, t) ==
    /\ job[w].pc = "handle"
    /\ EndpointVisible(Grants(job[w].held), "tag.manage", e)
    /\ <<e, t>> \in assignments
    /\ job' = [job EXCEPT ![w].pc = "remove", ![w].endpoint = e, ![w].tag = t]
    /\ UNCHANGED <<bindings, tags, assignments, views, versions, groups, audit, served>>

(* Mistake: the removal leaves no audit event.                             *)
DeleteSilently(w) ==
    /\ job[w].pc = "remove"
    /\ assignments' = assignments \ {<<job[w].endpoint, job[w].tag>>}
    /\ Reply(w)
    /\ UNCHANGED <<bindings, tags, views, versions, groups, audit, served>>

(* The delete at commit.  A row that another request has deleted by then   *)
(* is no error: the audit event is written all the same.                   *)
DeleteAssignment(w) ==
    /\ job[w].pc = "remove"
    /\ assignments' = assignments \ {<<job[w].endpoint, job[w].tag>>}
    /\ Event(w, "removed")
    /\ Reply(w)
    /\ UNCHANGED <<bindings, tags, views, versions, groups, served>>

create_saved_view(w, v, scope, visibility, f) ==
    /\ job[w].pc = "handle"
    /\ views[v] = NoView
    /\ ValidFilter(f)
    /\ _require_requested_scope(Grants(job[w].held), "saved_view.manage", scope)
    /\ views' = [views EXCEPT ![v] = [scope |-> scope, owner |-> job[w].actor,
                                      visibility |-> visibility, current |-> 1]]
    /\ versions' = [versions EXCEPT ![v] = <<f>>]
    /\ Reply(w)
    /\ UNCHANGED <<bindings, tags, assignments, groups, audit, served>>

(* update_saved_view up to the insert of the version: only the owner, and  *)
(* not for the filter that is current.                                     *)
update_saved_view(w, v, f) ==
    /\ job[w].pc = "handle"
    /\ views[v] # NoView
    /\ ValidFilter(f)
    /\ _resource_scope_clause(Grants(job[w].held), "saved_view.manage", views[v].scope)
    /\ views[v].owner = job[w].actor
    /\ IF CurrentFilter(v) = f THEN Reply(w)
       ELSE job' = [job EXCEPT ![w].pc = "update", ![w].view = v, ![w].filter = f,
                               ![w].version = views[v].current + 1]
    /\ UNCHANGED <<bindings, tags, assignments, views, versions, groups, audit, served>>

(* Mistake: the version gets the next free number when it is inserted, the *)
(* view the number that was read.                                          *)
InsertNextVersion(w) ==
    LET v == job[w].view
    IN  /\ job[w].pc = "update"
        /\ versions' = [versions EXCEPT ![v] = Append(@, job[w].filter)]
        /\ views' = [views EXCEPT ![v].current = job[w].version]
        /\ Reply(w)
        /\ UNCHANGED <<bindings, tags, assignments, groups, audit, served>>

(* The insert and the new current_version.  The primary key refuses a      *)
(* version number that is taken, and uq_saved_view_versions_content a      *)
(* filter that any version of the view has: the request fails.             *)
InsertVersion(w) ==
    LET v == job[w].view
        f == job[w].filter
    IN  /\ job[w].pc = "update"
        /\ IF job[w].version \in DOMAIN versions[v] \/ \E i \in DOMAIN versions[v] : versions[v][i] = f
           THEN UNCHANGED <<views, versions>>
           ELSE /\ versions' = [versions EXCEPT ![v] = Append(@, f)]
                /\ views' = [views EXCEPT ![v].current = job[w].version]
        /\ Reply(w)
        /\ UNCHANGED <<bindings, tags, assignments, groups, audit, served>>

create_dynamic_group(w, g, v) ==
    /\ job[w].pc = "handle"
    /\ groups[g] = NoGroup
    /\ views[v] # NoView
    /\ ViewVisible(Grants(job[w].held), job[w].actor, v)
    /\ _require_requested_scope(Grants(job[w].held), "dynamic_group.manage", views[v].scope)
    /\ groups' = [groups EXCEPT ![g] = [scope |-> views[v].scope, view |-> v]]
    /\ Reply(w)
    /\ UNCHANGED <<bindings, tags, assignments, views, versions, audit, served>>

(* A request that the handler refuses, and one that only reads.            *)
AnswerOnly(w) ==
    /\ job[w].pc = "handle"
    /\ Reply(w)
    /\ UNCHANGED <<bindings, tags, assignments, views, versions, groups, audit, served>>

FleetNext ==
    \/ \E a \in Actors, b \in Bindable : BindActor(a, b) \/ UnbindActor(a, b)
    \/ \E w \in Workers :
        \/ \E a \in Actors : Authenticate(w, a)
        \/ \E t \in Tags, n \in Names, s \in Scopes : create_tag(w, t, n, s)
        \/ \E e \in Endpoints, t \in Tags :
               assign_endpoint_tag(w, e, t) \/ remove_endpoint_tag(w, e, t)
        \/ InsertAssignment(w) \/ DeleteAssignment(w)
        \/ \E v \in Views, s \in Scopes, p \in {"private", "shared"}, f \in Filters :
               create_saved_view(w, v, s, p, f)
        \/ \E v \in Views, f \in Filters : update_saved_view(w, v, f)
        \/ InsertVersion(w)
        \/ \E g \in Groups, v \in Views : create_dynamic_group(w, g, v)
        \/ AnswerOnly(w)

FleetSpec == FleetInit /\ [][FleetNext]_fleetVars

-----------------------------------------------------------------------------
(* Properties *)

(* The versions of a saved view are numbered from 1 without gaps, the view *)
(* points at the last one, and no filter is stored twice, whatever the     *)
(* order of concurrent updates (update_saved_view, saved_view_versions).   *)
VersionsInOrder ==
    \A v \in Views : views[v] # NoView =>
        /\ DOMAIN versions[v] = 1..views[v].current
        /\ \A i, j \in DOMAIN versions[v] : versions[v][i] = versions[v][j] => i = j

(* The grants that the middleware read for the request worker w handles.   *)
Granted(w) == Grants(job[w].held)

(* A dynamic group never widens what its reader may see: a preview shows   *)
(* only endpoints of the group's scope in which the request was granted    *)
(* endpoint.read, whoever made the group and its view, and whatever has    *)
(* changed since the grants were read (preview_dynamic_group).             *)
PreviewWithinAuthority ==
    \A w \in Workers, g \in Groups :
        job[w].pc = "handle" /\ Preview(Granted(w), g) # Null =>
            \A e \in Preview(Granted(w), g).items :
                /\ permits_scope(Granted(w), "endpoint.read",
                                 EndpointClient(e), EndpointLocation[e])
                /\ InScope(groups[g].scope, e)

(* A request granted authority at one location only is shown no tag, view  *)
(* or group of another client, of another location or of the global scope, *)
(* and the tags of no endpoint elsewhere.  On an endpoint of the location  *)
(* it is shown the global tags as well, and no tag of another scope        *)
(* (the list handlers).                                                    *)
NothingForeignListed ==
    \A w \in Workers, l \in Locations :
        job[w].pc = "handle" /\ (\A b \in job[w].held : b.scope = LocationScope(LocationClient[l], l)) =>
            LET own == {ClientScope(LocationClient[l]), LocationScope(LocationClient[l], l)}
            IN  /\ \A c \in Clients \cup {Null} :
                       /\ \A t \in ListTags(Granted(w), c, Null) : tags[t].scope \in own
                       /\ \A v \in ListViews(Granted(w), job[w].actor, c, Null) : views[v].scope \in own
                       /\ \A g \in ListGroups(Granted(w), c, Null) : groups[g].scope \in own
                /\ \A e \in Endpoints : \A t \in ListEndpointTags(Granted(w), e) :
                       EndpointLocation[e] = l /\ tags[t].scope \in own \cup {GlobalScope}

(* Every endpoint that has a tag lies in the tag's scope, so that a tag of *)
(* one client selects no endpoint of another (assign_endpoint_tag).        *)
TaggedWithinScope ==
    \A p \in assignments : InScope(tags[p[2]].scope, p[1])

(* No tag, view or group reaches outside its scope or what the request     *)
(* that reads it was granted, while role bindings and rows change under    *)
(* the requests (the list handlers, preview_dynamic_group,                 *)
(* assign_endpoint_tag).                                                   *)
ScopesContain ==
    /\ FleetTypeOK
    /\ PreviewWithinAuthority
    /\ NothingForeignListed
    /\ TaggedWithinScope

(* A tag assignment that has gone left an audit event: for each endpoint   *)
(* and tag the assignments recorded exceed the removals by one at most,    *)
(* and only while the tag is assigned (assign_endpoint_tag,                *)
(* remove_endpoint_tag).                                                   *)
RemovalsAudited ==
    \A p \in Endpoints \X Tags :
        audit[p].assigned <= audit[p].removed + (IF p \in assignments THEN 1 ELSE 0)
=============================================================================
