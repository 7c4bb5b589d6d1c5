----------------------------- MODULE FleetProofs -----------------------------
(***************************************************************************)
(* Theorems about authorization and about tags, saved views and dynamic    *)
(* groups, for every set of callers, clients, locations, endpoints, role   *)
(* bindings and filters.                                                   *)
(***************************************************************************)
EXTENDS FleetMetadata, TLAPS, SequenceTheorems

-----------------------------------------------------------------------------
(* The inductive invariant *)

(* The versions of view v, numbered from 1 to the current one. *)
ViewSound(v) ==
    views[v] # NoView =>
        /\ Len(versions[v]) = views[v].current
        /\ \A i, j \in 1..Len(versions[v]) : versions[v][i] = versions[v][j] => i = j

(* What a handler read before it writes: tags and views are never deleted, *)
(* and a view's number only grows.                                         *)
JobSound(w) ==
    LET o == job[w] IN
    /\ o.pc # "free" => o.actor \in Actors
    /\ o.pc \in {"assign", "remove"} => o.endpoint \in Endpoints /\ o.tag \in Tags
    /\ o.pc = "assign" => tags[o.tag] # NoTag /\ FitsEndpoint(tags[o.tag].scope, o.endpoint)
    /\ o.pc = "update" =>
           /\ o.view \in Views /\ o.filter \in Filters
           /\ views[o.view] # NoView
           /\ o.version \in 1..(views[o.view].current + 1)

FleetInv ==
    /\ FleetTypeOK
    /\ \A v \in Views : ViewSound(v)
    /\ TaggedWithinScope
    /\ RemovalsAudited
    /\ \A w \in Workers : JobSound(w)
-----------------------------------------------------------------------------
(* Authorization *)

ScopeTypes == {"global", "client", "location"}

(* The WHERE clause of a query and the check of a handler are one rule: a  *)
(* row is returned exactly if the same grants let the caller act on it     *)
(* (scope_clause against permits_scope).                                   *)
THEOREM ClauseIsCheck ==
    ASSUME NEW grants, \A g \in grants : g.scope_type \in ScopeTypes,
           NEW permission, NEW client, NEW location
    PROVE  scope_clause(grants, permission, client, location)
           <=> permits_scope(grants, permission, client, location)
  BY DEF ScopeTypes, scope_clause, permits_scope, permits, Equals

(* A list of clients shows a client exactly if the caller may act on the   *)
(* client or on something at one of its locations (client_scope_clause).   *)
THEOREM ClientClauseIsReach ==
    ASSUME NEW grants,
           \A g \in grants : /\ g.scope_type \in ScopeTypes
                             /\ g.scope_type # "global" => g.client # Null
                             /\ g.scope_type = "location" => g.location # Null,
           NEW permission, NEW client, client # Null
    PROVE  client_scope_clause(grants, permission, client)
           <=> \E location : permits_scope(grants, permission, client, location)
  <1>1. ASSUME client_scope_clause(grants, permission, client)
        PROVE  \E location : permits_scope(grants, permission, client, location)
    <2>1. PICK g \in grants : /\ permission \in g.permissions
                              /\ g.scope_type = "global" \/ client = g.client
      BY <1>1 DEF client_scope_clause
    <2>2. permits(g, permission, client, g.location)
      BY <2>1 DEF permits, Equals, ScopeTypes
    <2>3. QED
      BY <2>2 DEF permits_scope
  <1>2. ASSUME NEW location, permits_scope(grants, permission, client, location)
        PROVE  client_scope_clause(grants, permission, client)
    BY <1>2 DEF client_scope_clause, permits_scope, permits, Equals
  <1>3. QED
    BY <1>1, <1>2

(* A tag's scope key and the endpoint's columns describe one containment. *)
LEMMA FitsIsInScope ==
    ASSUME NEW scope \in Scopes, NEW e \in Endpoints
    PROVE  FitsEndpoint(scope, e) <=> InScope(scope, e)
  <1>1. CASE scope = GlobalScope
    BY <1>1 DEF GlobalScope, FitsEndpoint, InScope
  <1>2. ASSUME NEW c \in Clients, scope = ClientScope(c)
        PROVE  FitsEndpoint(scope, e) <=> InScope(scope, e)
    <2>1. scope.scope_type = "client" /\ scope.client = c
      BY <1>2 DEF ClientScope
    <2>2. FitsEndpoint(scope, e) => EndpointClient(e) = c
      BY <2>1 DEF FitsEndpoint, GlobalScope, ClientScope, LocationScope
    <2>3. EndpointClient(e) = c => FitsEndpoint(scope, e)
      BY <1>2 DEF FitsEndpoint
    <2>4. InScope(scope, e) <=> EndpointClient(e) = c
      BY <2>1 DEF InScope
    <2>5. QED
      BY <2>2, <2>3, <2>4
  <1>3. ASSUME NEW l \in Locations, scope = LocationScope(LocationClient[l], l)
        PROVE  FitsEndpoint(scope, e) <=> InScope(scope, e)
    <2>1. /\ scope.scope_type = "location" /\ scope.client = LocationClient[l]
          /\ scope.location = l
      BY <1>3 DEF LocationScope
    <2>2. FitsEndpoint(scope, e) => EndpointLocation[e] = l
      BY <2>1 DEF FitsEndpoint, GlobalScope, ClientScope, LocationScope
    <2>3. EndpointLocation[e] = l => FitsEndpoint(scope, e) /\ EndpointClient(e) = scope.client
      BY <1>3, <2>1 DEF FitsEndpoint, EndpointClient
    <2>4. InScope(scope, e) <=> EndpointClient(e) = scope.client /\ EndpointLocation[e] = l
      BY <2>1 DEF InScope
    <2>5. QED
      BY <2>2, <2>3, <2>4
  <1>4. QED
    BY <1>1, <1>2, <1>3 DEF Scopes

(* The grants of role bindings have the scopes of the bindings. *)
LEMMA GrantShape ==
    ASSUME NEW held \in SUBSET Bindable, NEW g \in Grants(held)
    PROVE  /\ g.scope_type \in ScopeTypes
           /\ \E b \in held : /\ g.scope_type = b.scope.scope_type
                              /\ g.client = b.scope.client /\ g.location = b.scope.location
  <1>1. PICK b \in held : g = ScopeGrant(b.scope, RolePermissions[b.role])
    BY DEF Grants
  <1>2. b.scope \in Scopes
    BY FleetAssumption
  <1>3. b.scope.scope_type \in ScopeTypes
    BY <1>2 DEF Scopes, GlobalScope, ClientScope, LocationScope, ScopeTypes
  <1>4. QED
    BY <1>1, <1>3 DEF ScopeGrant
-----------------------------------------------------------------------------
(* What lists and previews show *)

LEMMA PreviewSafe == FleetTypeOK => PreviewWithinAuthority
  <1> SUFFICES ASSUME FleetTypeOK, NEW w \in Workers, NEW g \in Groups,
                      Preview(Granted(w), g) # Null, NEW e \in Preview(Granted(w), g).items
               PROVE  /\ permits_scope(Granted(w), "endpoint.read",
                                       EndpointClient(e), EndpointLocation[e])
                      /\ InScope(groups[g].scope, e)
    BY DEF PreviewWithinAuthority
  <1>1. e \in Evaluated(Granted(w), g)
    BY DEF Preview
  <1>2. /\ InScope(groups[g].scope, e)
        /\ scope_clause(Grants(job[w].held), "endpoint.read",
                        EndpointClient(e), EndpointLocation[e])
    BY <1>1 DEF Evaluated, EndpointVisible, Granted
  <1>3. job[w].held \in SUBSET Bindable
    BY DEF FleetTypeOK, Jobs
  <1>4. QED
    BY <1>2, <1>3, GrantShape, ClauseIsCheck DEF Granted

(* What the grants of bindings at one location show. *)
LEMMA LocationShows ==
    ASSUME NEW held \in SUBSET Bindable, NEW l \in Locations,
           \A b \in held : b.scope = LocationScope(LocationClient[l], l),
           NEW permission
    PROVE  /\ \A scope \in Scopes : _resource_scope_clause(Grants(held), permission, scope) =>
                  scope \in {ClientScope(LocationClient[l]), LocationScope(LocationClient[l], l)}
           /\ \A e \in Endpoints : EndpointVisible(Grants(held), permission, e) =>
                  EndpointLocation[e] = l
  <1>1. \A g \in Grants(held) : g.scope_type = "location" /\ g.client = LocationClient[l]
                                /\ g.location = l
    BY GrantShape DEF LocationScope
  <1>2. ASSUME NEW scope \in Scopes, _resource_scope_clause(Grants(held), permission, scope)
        PROVE  scope \in {ClientScope(LocationClient[l]), LocationScope(LocationClient[l], l)}
    <2>1. /\ scope.client = LocationClient[l]
          /\ \/ scope.scope_type = "client"
             \/ scope.scope_type = "location" /\ scope.location = l
      BY <1>1, <1>2 DEF _resource_scope_clause, Equals
    <2>2. QED
      BY <2>1 DEF Scopes, GlobalScope, ClientScope, LocationScope
  <1>3. ASSUME NEW e \in Endpoints, EndpointVisible(Grants(held), permission, e)
        PROVE  EndpointLocation[e] = l
    BY <1>1, <1>3 DEF EndpointVisible, scope_clause, Equals
  <1>4. QED
    BY <1>2, <1>3

LEMMA ListsSafe == FleetTypeOK /\ TaggedWithinScope => NothingForeignListed
  <1> SUFFICES ASSUME FleetTypeOK, TaggedWithinScope, NEW w \in Workers, NEW l \in Locations,
                      \A b \in job[w].held : b.scope = LocationScope(LocationClient[l], l)
               PROVE  LET own == {ClientScope(LocationClient[l]),
                                  LocationScope(LocationClient[l], l)}
                      IN  /\ \A c \in Clients \cup {Null} :
                                 /\ \A t \in ListTags(Granted(w), c, Null) : tags[t].scope \in own
                                 /\ \A v \in ListViews(Granted(w), job[w].actor, c, Null) :
                                        views[v].scope \in own
                                 /\ \A g \in ListGroups(Granted(w), c, Null) :
                                        groups[g].scope \in own
                          /\ \A e \in Endpoints : \A t \in ListEndpointTags(Granted(w), e) :
                                 /\ EndpointLocation[e] = l
                                 /\ tags[t].scope \in own \cup {GlobalScope}
    BY DEF NothingForeignListed
  <1> DEFINE own == {ClientScope(LocationClient[l]), LocationScope(LocationClient[l], l)}
  <1>0. job[w].held \in SUBSET Bindable
    BY DEF FleetTypeOK, Jobs
  <1>1. ASSUME NEW permission, NEW scope \in Scopes,
               _resource_scope_clause(Granted(w), permission, scope)
        PROVE  scope \in own
    BY <1>0, <1>1, LocationShows DEF Granted
  <1>2. ASSUME NEW c \in Clients \cup {Null}
        PROVE  /\ \A t \in ListTags(Granted(w), c, Null) : tags[t].scope \in own
               /\ \A v \in ListViews(Granted(w), job[w].actor, c, Null) : views[v].scope \in own
               /\ \A g \in ListGroups(Granted(w), c, Null) : groups[g].scope \in own
    <2>1. \A t \in ListTags(Granted(w), c, Null) : tags[t].scope \in own
      BY <1>1 DEF ListTags, Listed, FleetTypeOK, TagRows
    <2>2. \A v \in ListViews(Granted(w), job[w].actor, c, Null) : views[v].scope \in own
      BY <1>1 DEF ListViews, ViewVisible, Listed, FleetTypeOK, ViewRows
    <2>3. \A g \in ListGroups(Granted(w), c, Null) : groups[g].scope \in own
      BY <1>1 DEF ListGroups, Listed, FleetTypeOK, GroupRows
    <2>4. QED
      BY <2>1, <2>2, <2>3
  <1>3. ASSUME NEW e \in Endpoints, NEW t \in ListEndpointTags(Granted(w), e)
        PROVE  EndpointLocation[e] = l /\ tags[t].scope \in own \cup {GlobalScope}
    <2>1. EndpointLocation[e] = l
      BY <1>0, <1>3, LocationShows DEF ListEndpointTags, Granted
    <2>2. t \in Tags /\ <<e, t>> \in assignments
      BY <1>3 DEF ListEndpointTags, TagsOf
    <2>3. InScope(tags[t].scope, e) /\ tags[t].scope \in Scopes
      BY <2>2 DEF TaggedWithinScope, FleetTypeOK, TagRows
    <2>4. FitsEndpoint(tags[t].scope, e)
      BY <2>3, FitsIsInScope
    <2>5. QED
      BY <2>1, <2>4 DEF FitsEndpoint, EndpointClient
  <1>4. QED
    BY <1>2, <1>3
-----------------------------------------------------------------------------
(* What a step does to each table *)

TablesKept == UNCHANGED <<tags, assignments, views, versions, groups, audit>>

(* The steps that write a table. *)
LEMMA FleetCases ==
    ASSUME [FleetNext]_fleetVars
    PROVE  \/ TablesKept
           \/ \E w \in Workers, t \in Tags, n \in Names, s \in Scopes : create_tag(w, t, n, s)
           \/ \E w \in Workers : InsertAssignment(w) \/ DeleteAssignment(w) \/ InsertVersion(w)
           \/ \E w \in Workers, v \in Views, s \in Scopes, p \in {"private", "shared"},
                 f \in Filters : create_saved_view(w, v, s, p, f)
           \/ \E w \in Workers, g \in Groups, v \in Views : create_dynamic_group(w, g, v)
  <1>1. (\E a \in Actors, b \in Bindable : BindActor(a, b) \/ UnbindActor(a, b)) => TablesKept
    BY DEF BindActor, UnbindActor, TablesKept
  <1>2. ASSUME NEW w \in Workers
        PROVE  /\ (\E a \in Actors : Authenticate(w, a)) \/ AnswerOnly(w) => TablesKept
               /\ (\E v \in Views, f \in Filters : update_saved_view(w, v, f)) => TablesKept
               /\ (\E e \in Endpoints, t \in Tags :
                      assign_endpoint_tag(w, e, t) \/ remove_endpoint_tag(w, e, t)) => TablesKept
    <2>1. (\E a \in Actors : Authenticate(w, a)) \/ AnswerOnly(w) => TablesKept
      BY DEF Authenticate, AnswerOnly, TablesKept
    <2>2. (\E v \in Views, f \in Filters : update_saved_view(w, v, f)) => TablesKept
      BY DEF update_saved_view, TablesKept
    <2>3. (\E e \in Endpoints, t \in Tags : assign_endpoint_tag(w, e, t)) => TablesKept
      BY DEF assign_endpoint_tag, TablesKept
    <2>4. (\E e \in Endpoints, t \in Tags : remove_endpoint_tag(w, e, t)) => TablesKept
      BY DEF remove_endpoint_tag, TablesKept
    <2>5. QED
      BY <2>1, <2>2, <2>3, <2>4
  <1>3. UNCHANGED fleetVars => TablesKept
    BY DEF fleetVars, TablesKept
  <1>4. QED
    BY <1>1, <1>2, <1>3 DEF FleetNext

(* Tags are made and never changed. *)
LEMMA TagStep ==
    ASSUME FleetInv, [FleetNext]_fleetVars
    PROVE  /\ tags' \in [Tags -> {NoTag} \cup TagRows]
           /\ \A t \in Tags : tags[t] # NoTag => tags'[t] = tags[t]
  <1>0. tags \in [Tags -> {NoTag} \cup TagRows]
    BY DEF FleetInv, FleetTypeOK
  <1>1. CASE UNCHANGED tags
    BY <1>0, <1>1
  <1>2. ASSUME NEW w \in Workers, NEW t \in Tags, NEW n \in Names, NEW s \in Scopes,
               create_tag(w, t, n, s)
        PROVE  /\ tags' \in [Tags -> {NoTag} \cup TagRows]
               /\ \A u \in Tags : tags[u] # NoTag => tags'[u] = tags[u]
    <2>1. [scope |-> s, name |-> n] \in TagRows
      BY DEF TagRows
    <2>2. QED
      BY <1>0, <1>2, <2>1 DEF create_tag
  <1>3. UNCHANGED tags \/ \E w \in Workers, t \in Tags, n \in Names, s \in Scopes :
                              create_tag(w, t, n, s)
    BY FleetCases DEF TablesKept, InsertAssignment, DeleteAssignment, create_saved_view,
                      InsertVersion, create_dynamic_group
  <1>4. QED
    BY <1>1, <1>2, <1>3

ViewsPersist ==
    \A v \in Views : views[v] # NoView =>
        /\ views'[v] # NoView /\ views'[v].scope = views[v].scope
        /\ views'[v].current >= views[v].current

ViewsGoal ==
    /\ views' \in [Views -> {NoView} \cup ViewRows]
    /\ versions' \in [Views -> Seq(Filters)]
    /\ \A v \in Views : ViewSound(v)'
    /\ ViewsPersist

(* A row of saved_views is not the absent one. *)
LEMMA ViewRowPresent == \A row \in ViewRows : row # NoView
  BY DEF ViewRows, NoView

(* A view whose row and versions stay keeps what is known of it. *)
LEMMA SameViewSound ==
    ASSUME FleetInv, NEW u \in Views, views'[u] = views[u], versions'[u] = versions[u]
    PROVE  ViewSound(u)'
  <1>1. ViewSound(u)
    BY DEF FleetInv
  <1>2. QED
    BY <1>1, Zenon DEF ViewSound

LEMMA CreateViewStep ==
    ASSUME FleetInv, NEW w \in Workers, NEW v \in Views, NEW s \in Scopes,
           NEW p \in {"private", "shared"}, NEW f \in Filters, create_saved_view(w, v, s, p, f)
    PROVE  ViewsGoal
  <1> DEFINE row == [scope |-> s, owner |-> job[w].actor, visibility |-> p, current |-> 1]
  <1>0. /\ views \in [Views -> {NoView} \cup ViewRows] /\ versions \in [Views -> Seq(Filters)]
        /\ job[w].actor \in Actors
    BY DEF FleetInv, FleetTypeOK, JobSound, create_saved_view
  <1>1. row \in ViewRows
    BY <1>0 DEF ViewRows
  <1>2. /\ views' = [views EXCEPT ![v] = row] /\ versions' = [versions EXCEPT ![v] = <<f>>]
        /\ views[v] = NoView
    BY DEF create_saved_view
  <1>3. <<f>> \in Seq(Filters) /\ Len(<<f>>) = 1
    OBVIOUS
  <1>4. /\ views' \in [Views -> {NoView} \cup ViewRows] /\ versions' \in [Views -> Seq(Filters)]
        /\ views'[v] = row /\ versions'[v] = <<f>>
        /\ \A u \in Views \ {v} : views'[u] = views[u] /\ versions'[u] = versions[u]
    <2> HIDE DEF row
    <2>1. /\ views' \in [Views -> {NoView} \cup ViewRows] /\ views'[v] = row
          /\ \A u \in Views \ {v} : views'[u] = views[u]
      BY <1>0, <1>1, <1>2
    <2>2. /\ versions' \in [Views -> Seq(Filters)] /\ versions'[v] = <<f>>
          /\ \A u \in Views \ {v} : versions'[u] = versions[u]
      BY <1>0, <1>2, <1>3
    <2>3. QED
      BY <2>1, <2>2
  <1>5. ViewSound(v)'
    BY <1>3, <1>4 DEF ViewSound
  <1>6. \A u \in Views \ {v} : ViewSound(u)'
    BY <1>4, SameViewSound
  <1>7. ViewsPersist
    BY <1>0, <1>2, <1>4 DEF ViewsPersist, ViewRows
  <1>8. QED
    BY <1>4, <1>5, <1>6, <1>7 DEF ViewsGoal

(* The primary key makes a late update fail: what it inserts is the number *)
(* after the current one.                                                  *)
LEMMA InsertVersionStep ==
    ASSUME FleetInv, NEW w \in Workers, InsertVersion(w), ~UNCHANGED <<views, versions>>,
           NEW v, NEW f, NEW n, job[w].view = v, job[w].filter = f, job[w].version = n
    PROVE  ViewsGoal
  <1>0. /\ views \in [Views -> {NoView} \cup ViewRows] /\ versions \in [Views -> Seq(Filters)]
        /\ v \in Views /\ f \in Filters /\ views[v] # NoView
        /\ n \in 1..(views[v].current + 1)
        /\ ViewSound(v)
    BY DEF FleetInv, FleetTypeOK, JobSound, InsertVersion
  <1>1. /\ n \notin DOMAIN versions[v] /\ \A i \in DOMAIN versions[v] : versions[v][i] # f
        /\ versions' = [versions EXCEPT ![v] = Append(versions[v], f)]
        /\ views' = [views EXCEPT ![v] = [views[v] EXCEPT !.current = n]]
    BY DEF InsertVersion
  <1>2. /\ views[v] \in ViewRows /\ versions[v] \in Seq(Filters)
        /\ views[v].current \in Nat
        /\ DOMAIN versions[v] = 1..Len(versions[v])
        /\ Len(versions[v]) = views[v].current
    BY <1>0 DEF ViewSound, ViewRows
  <1>3. n = views[v].current + 1 /\ n \in Nat \ {0}
    BY <1>0, <1>1, <1>2
  <1> DEFINE row == [views[v] EXCEPT !.current = n]
             seq == Append(versions[v], f)
  <1>4. /\ row \in ViewRows /\ row # NoView /\ row.current = n
        /\ row.scope = views[v].scope
    BY <1>2, <1>3, ViewRowPresent DEF ViewRows
  <1>5. /\ seq \in Seq(Filters) /\ Len(seq) = n
        /\ \A i \in 1..(n - 1) : seq[i] = versions[v][i]
        /\ seq[n] = f
    BY <1>0, <1>2, <1>3
  <1>6. /\ views' \in [Views -> {NoView} \cup ViewRows] /\ versions' \in [Views -> Seq(Filters)]
        /\ views'[v] = row /\ versions'[v] = seq
        /\ \A u \in Views \ {v} : views'[u] = views[u] /\ versions'[u] = versions[u]
    BY <1>0, <1>1, <1>4, <1>5
  <1>7. ASSUME NEW i \in 1..n, NEW j \in 1..n, seq[i] = seq[j]
        PROVE  i = j
    <2>1. CASE i < n /\ j < n
      BY <1>0, <1>2, <1>3, <1>5, <1>7, <2>1 DEF ViewSound
    <2>2. CASE i = n /\ j < n
      BY <1>1, <1>2, <1>3, <1>5, <1>7, <2>2
    <2>3. CASE i < n /\ j = n
      BY <1>1, <1>2, <1>3, <1>5, <1>7, <2>3
    <2>4. CASE i = n /\ j = n
      BY <2>4
    <2>5. QED
      BY <1>3, <2>1, <2>2, <2>3, <2>4
  <1>8. ViewSound(v)'
    BY <1>4, <1>5, <1>6, <1>7 DEF ViewSound
  <1>9. \A u \in Views \ {v} : ViewSound(u)'
    BY <1>6, SameViewSound
  <1>10. ViewsPersist
    <2>1. \A u \in Views : views[u] # NoView => views[u].current \in Nat
      BY <1>0 DEF ViewRows
    <2>2. /\ views'[v] # NoView /\ views'[v].scope = views[v].scope
          /\ views'[v].current >= views[v].current
      <3>1. views'[v].current = n /\ views'[v] # NoView /\ views'[v].scope = views[v].scope
        BY <1>4, <1>6
      <3>2. QED
        BY <1>2, <1>3, <3>1
    <2>3. \A u \in Views \ {v} : views[u] # NoView =>
              /\ views'[u] # NoView /\ views'[u].scope = views[u].scope
              /\ views'[u].current >= views[u].current
      BY <1>6, <2>1
    <2>4. QED
      BY <2>2, <2>3 DEF ViewsPersist
  <1>11. QED
    BY <1>6, <1>8, <1>9, <1>10 DEF ViewsGoal

LEMMA ViewStep ==
    ASSUME FleetInv, [FleetNext]_fleetVars
    PROVE  ViewsGoal
  <1>1. CASE UNCHANGED <<views, versions>>
    <2>1. \A v \in Views : views[v] # NoView => views[v].current \in Nat
      BY DEF FleetInv, FleetTypeOK, ViewRows
    <2>2. QED
      BY <1>1, <2>1 DEF ViewsGoal, ViewsPersist, FleetInv, FleetTypeOK, ViewSound
  <1>2. \/ UNCHANGED <<views, versions>>
        \/ \E w \in Workers, v \in Views, s \in Scopes, p \in {"private", "shared"}, f \in Filters :
               create_saved_view(w, v, s, p, f)
        \/ \E w \in Workers : InsertVersion(w)
    BY FleetCases DEF TablesKept, InsertAssignment, DeleteAssignment, create_tag,
                      create_dynamic_group
  <1>3. QED
    BY <1>1, <1>2, CreateViewStep, InsertVersionStep

(* A group keeps the view and the scope it was made with. *)
LEMMA GroupStep ==
    ASSUME FleetInv, [FleetNext]_fleetVars
    PROVE  /\ groups' \in [Groups -> {NoGroup} \cup GroupRows]
           /\ \A g \in Groups : groups'[g] # NoGroup =>
                  /\ views'[groups'[g].view] # NoView
                  /\ groups'[g].scope = views'[groups'[g].view].scope
  <1> DEFINE Goal == /\ groups' \in [Groups -> {NoGroup} \cup GroupRows]
                     /\ \A g \in Groups : groups'[g] # NoGroup =>
                            /\ views'[groups'[g].view] # NoView
                            /\ groups'[g].scope = views'[groups'[g].view].scope
  <1>0. /\ groups \in [Groups -> {NoGroup} \cup GroupRows]
        /\ views \in [Views -> {NoView} \cup ViewRows]
        /\ \A g \in Groups : groups[g] # NoGroup =>
               /\ groups[g].view \in Views /\ views[groups[g].view] # NoView
               /\ groups[g].scope = views[groups[g].view].scope
    BY DEF FleetInv, FleetTypeOK, GroupRows
  <1>1. ViewsPersist
    BY ViewStep DEF ViewsGoal
  <1>2. CASE UNCHANGED groups
    BY <1>0, <1>1, <1>2 DEF ViewsPersist
  <1>3. ASSUME NEW w \in Workers, NEW h \in Groups, NEW v \in Views,
               create_dynamic_group(w, h, v)
        PROVE  Goal
    <2> DEFINE row == [scope |-> views[v].scope, view |-> v]
    <2>1. row \in GroupRows
      BY <1>0, <1>3 DEF create_dynamic_group, GroupRows, ViewRows
    <2>2. /\ groups' = [groups EXCEPT ![h] = row] /\ views[v] # NoView
          /\ views' = views
      BY <1>3 DEF create_dynamic_group
    <2>3. QED
      BY <1>0, <2>1, <2>2
  <1>4. UNCHANGED groups \/ \E w \in Workers, g \in Groups, v \in Views :
                                create_dynamic_group(w, g, v)
    BY FleetCases DEF TablesKept, InsertAssignment, DeleteAssignment, create_tag,
                      create_saved_view, InsertVersion
  <1>5. QED
    BY <1>2, <1>3, <1>4

AuditRows == [assigned : Nat, removed : Nat]

(* An assignment and its audit event are written together, or neither. *)
LEMMA AssignmentStep ==
    ASSUME FleetInv, [FleetNext]_fleetVars
    PROVE  /\ assignments' \subseteq Endpoints \X {t \in Tags : tags'[t] # NoTag}
           /\ audit' \in [Endpoints \X Tags -> AuditRows]
           /\ TaggedWithinScope' /\ RemovalsAudited'
  <1> DEFINE Goal == /\ assignments' \subseteq Endpoints \X {t \in Tags : tags'[t] # NoTag}
                     /\ audit' \in [Endpoints \X Tags -> AuditRows]
                     /\ TaggedWithinScope' /\ RemovalsAudited'
  <1>0. /\ assignments \subseteq Endpoints \X {t \in Tags : tags[t] # NoTag}
        /\ audit \in [Endpoints \X Tags -> AuditRows]
        /\ TaggedWithinScope /\ RemovalsAudited
        /\ tags \in [Tags -> {NoTag} \cup TagRows]
        /\ job \in [Workers -> Jobs]
    BY DEF FleetInv, FleetTypeOK, AuditRows
  <1>1. \A t \in Tags : tags[t] # NoTag => tags'[t] = tags[t]
    BY TagStep
  <1>2. CASE UNCHANGED <<assignments, audit>>
    <2>1. \A p \in assignments : InScope(tags'[p[2]].scope, p[1])
      BY <1>0, <1>1 DEF TaggedWithinScope
    <2>2. QED
      BY <1>0, <1>1, <1>2, <2>1 DEF TaggedWithinScope, RemovalsAudited, InScope
  <1>3. ASSUME NEW w \in Workers, InsertAssignment(w), ~UNCHANGED <<assignments, audit>>,
               NEW e, NEW t, job[w].endpoint = e, job[w].tag = t
        PROVE  Goal
    <2>1. /\ e \in Endpoints /\ t \in Tags /\ tags[t] # NoTag
          /\ FitsEndpoint(tags[t].scope, e)
      BY <1>3 DEF InsertAssignment, FleetInv, JobSound
    <2>2. /\ <<e, t>> \notin assignments
          /\ assignments' = assignments \cup {<<e, t>>}
          /\ audit' = [audit EXCEPT ![<<e, t>>]["assigned"] = @ + 1]
          /\ tags' = tags
      BY <1>3 DEF InsertAssignment, Event
    <2>3. InScope(tags[t].scope, e)
      BY <1>0, <2>1, FitsIsInScope DEF TagRows
    <2>4. TaggedWithinScope'
      <3>1. \A p \in assignments : InScope(tags[p[2]].scope, p[1])
        BY <1>0 DEF TaggedWithinScope
      <3>2. \A p \in {<<e, t>>} : InScope(tags[p[2]].scope, p[1])
        BY <2>3
      <3>3. \A p \in assignments' : InScope(tags[p[2]].scope, p[1])
        BY <2>2, <3>1, <3>2
      <3>4. QED
        BY <2>2, <3>3 DEF TaggedWithinScope, InScope
    <2>5. /\ audit' \in [Endpoints \X Tags -> AuditRows]
          /\ audit'[<<e, t>>].assigned = audit[<<e, t>>].assigned + 1
          /\ audit'[<<e, t>>].removed = audit[<<e, t>>].removed
          /\ \A p \in (Endpoints \X Tags) \ {<<e, t>>} : audit'[p] = audit[p]
      BY <1>0, <2>1, <2>2 DEF AuditRows
    <2>6. RemovalsAudited'
      BY <1>0, <2>1, <2>2, <2>5 DEF RemovalsAudited, AuditRows
    <2>7. QED
      BY <1>0, <2>1, <2>2, <2>4, <2>5, <2>6
  <1>4. ASSUME NEW w \in Workers, DeleteAssignment(w),
               NEW e, NEW t, job[w].endpoint = e, job[w].tag = t
        PROVE  Goal
    <2>1. e \in Endpoints /\ t \in Tags
      BY <1>4 DEF DeleteAssignment, FleetInv, JobSound
    <2>2. /\ assignments' = assignments \ {<<e, t>>}
          /\ audit' = [audit EXCEPT ![<<e, t>>]["removed"] = @ + 1]
          /\ tags' = tags
      BY <1>4 DEF DeleteAssignment, Event
    <2>3. TaggedWithinScope'
      BY <1>0, <2>2 DEF TaggedWithinScope, InScope
    <2>4. /\ audit' \in [Endpoints \X Tags -> AuditRows]
          /\ audit'[<<e, t>>].assigned = audit[<<e, t>>].assigned
          /\ audit'[<<e, t>>].removed = audit[<<e, t>>].removed + 1
          /\ \A p \in (Endpoints \X Tags) \ {<<e, t>>} : audit'[p] = audit[p]
      BY <1>0, <2>1, <2>2 DEF AuditRows
    <2>5. RemovalsAudited'
      BY <1>0, <2>1, <2>2, <2>4 DEF RemovalsAudited, AuditRows
    <2>6. QED
      BY <1>0, <2>2, <2>3, <2>4, <2>5
  <1>5. UNCHANGED <<assignments, audit>>
        \/ \E w \in Workers : InsertAssignment(w) \/ DeleteAssignment(w)
    <2>1. TablesKept => UNCHANGED <<assignments, audit>>
      BY DEF TablesKept
    <2>2. \A w, t, n, s : create_tag(w, t, n, s) => UNCHANGED <<assignments, audit>>
      BY Zenon DEF create_tag
    <2>3. \A w, v, s, p, f : create_saved_view(w, v, s, p, f) => UNCHANGED <<assignments, audit>>
      BY Zenon DEF create_saved_view
    <2>4. \A w : InsertVersion(w) => UNCHANGED <<assignments, audit>>
      BY Zenon DEF InsertVersion
    <2>5. \A w, g, v : create_dynamic_group(w, g, v) => UNCHANGED <<assignments, audit>>
      BY Zenon DEF create_dynamic_group
    <2>6. QED
      BY FleetCases, <2>1, <2>2, <2>3, <2>4, <2>5, Zenon
  <1>6. QED
    BY <1>2, <1>3, <1>4, <1>5
-----------------------------------------------------------------------------
(* The inductive step *)

LEMMA FreeJob == Free \in Jobs /\ Free.pc = "free"
  BY DEF Free, Jobs

(* The jobs that the handlers of a tag and of a view leave. *)
LEMMA AssignJob ==
    ASSUME NEW j \in Jobs, NEW e \in Endpoints, NEW t \in Tags
    PROVE  [j EXCEPT !.pc = "assign", !.endpoint = e, !.tag = t] \in Jobs
  BY DEF Jobs

LEMMA RemoveJob ==
    ASSUME NEW j \in Jobs, NEW e \in Endpoints, NEW t \in Tags
    PROVE  [j EXCEPT !.pc = "remove", !.endpoint = e, !.tag = t] \in Jobs
  BY DEF Jobs

LEMMA UpdateJob ==
    ASSUME NEW j \in Jobs, NEW u \in Views, NEW f \in Filters, NEW n \in Nat
    PROVE  [j EXCEPT !.pc = "update", !.view = u, !.filter = f, !.version = n] \in Jobs
  BY DEF Jobs

(* What a handler read is still so after any step. *)
LEMMA JobKept ==
    ASSUME FleetInv, [FleetNext]_fleetVars, NEW v \in Workers, job'[v] = job[v]
    PROVE  JobSound(v)'
  <1> DEFINE o == job[v]
  <1>0. JobSound(v) /\ views \in [Views -> {NoView} \cup ViewRows]
        /\ views' \in [Views -> {NoView} \cup ViewRows]
    BY ViewStep DEF FleetInv, FleetTypeOK, ViewsGoal
  <1>1. \A t \in Tags : tags[t] # NoTag => tags'[t] = tags[t]
    BY TagStep
  <1>2. o.pc = "assign" => tags'[o.tag] = tags[o.tag] /\ tags[o.tag] # NoTag
                           /\ FitsEndpoint(tags[o.tag].scope, o.endpoint)
    BY <1>0, <1>1 DEF JobSound
  <1>3. ASSUME o.pc = "update"
        PROVE  views'[o.view] # NoView /\ o.version \in 1..(views'[o.view].current + 1)
    <2>1. o.view \in Views /\ views[o.view] # NoView /\ o.version \in 1..(views[o.view].current + 1)
      BY <1>0, <1>3 DEF JobSound
    <2>2. /\ views'[o.view] # NoView /\ views'[o.view].current >= views[o.view].current
      BY <2>1, ViewStep DEF ViewsGoal, ViewsPersist
    <2>3. views[o.view].current \in Nat /\ views'[o.view].current \in Nat
      BY <1>0, <2>1, <2>2 DEF ViewRows
    <2>4. QED
      BY <2>1, <2>2, <2>3
  <1>4. QED
    BY <1>0, <1>2, <1>3 DEF JobSound, FitsEndpoint

(* One worker's job changes, to a job that is sound. *)
LEMMA JobChange ==
    ASSUME FleetInv, [FleetNext]_fleetVars, NEW w \in Workers, NEW o \in Jobs,
           job' = [job EXCEPT ![w] = o],
           o.pc # "free" => o.actor \in Actors,
           o.pc \in {"assign", "remove"} => o.endpoint \in Endpoints /\ o.tag \in Tags,
           o.pc = "assign" => tags'[o.tag] # NoTag
                              /\ FitsEndpoint(tags'[o.tag].scope, o.endpoint),
           o.pc = "update" => /\ o.view \in Views /\ o.filter \in Filters
                              /\ views'[o.view] # NoView
                              /\ o.version \in 1..(views'[o.view].current + 1)
    PROVE  job' \in [Workers -> Jobs] /\ \A v \in Workers : JobSound(v)'
  <1>0. job \in [Workers -> Jobs]
    BY DEF FleetInv, FleetTypeOK
  <1>1. job' \in [Workers -> Jobs] /\ job'[w] = o /\ \A v \in Workers \ {w} : job'[v] = job[v]
    BY <1>0
  <1>2. JobSound(w)'
    BY <1>1 DEF JobSound, FitsEndpoint
  <1>3. \A v \in Workers \ {w} : JobSound(v)'
    BY <1>1, JobKept
  <1>4. QED
    BY <1>1, <1>2, <1>3

LEMMA JobStep ==
    ASSUME FleetInv, [FleetNext]_fleetVars
    PROVE  job' \in [Workers -> Jobs] /\ \A v \in Workers : JobSound(v)'
  <1> DEFINE Goal == job' \in [Workers -> Jobs] /\ \A v \in Workers : JobSound(v)'
  <1>0. /\ job \in [Workers -> Jobs] /\ bindings \in [Actors -> SUBSET Bindable]
        /\ views \in [Views -> {NoView} \cup ViewRows]
        /\ \A w \in Workers : JobSound(w)
    BY DEF FleetInv, FleetTypeOK
  <1>1. CASE UNCHANGED job
    BY <1>0, <1>1, JobKept
  <1>2. ASSUME NEW w \in Workers, Reply(w)
        PROVE  Goal
    BY <1>2, FreeJob, JobChange DEF Reply
  <1>3. ASSUME NEW w \in Workers, NEW a \in Actors, Authenticate(w, a)
        PROVE  Goal
    <2> DEFINE o == [Free EXCEPT !.pc = "handle", !.actor = a, !.held = bindings[a]]
    <2>1. o \in Jobs /\ o.pc = "handle" /\ o.actor = a
      BY <1>0, FreeJob DEF Jobs
    <2>2. job' = [job EXCEPT ![w] = o]
      BY <1>3 DEF Authenticate
    <2> HIDE DEF o
    <2>3. QED
      BY <2>1, <2>2, JobChange
  <1>4. ASSUME NEW w \in Workers, NEW e \in Endpoints, NEW t \in Tags,
               assign_endpoint_tag(w, e, t)
        PROVE  Goal
    <2> DEFINE o == [job[w] EXCEPT !.pc = "assign", !.endpoint = e, !.tag = t]
    <2>1. /\ job[w].actor \in Actors /\ tags' = tags /\ tags[t] # NoTag
          /\ FitsEndpoint(tags[t].scope, e)
      BY <1>0, <1>4 DEF assign_endpoint_tag, JobSound
    <2>2. o \in Jobs /\ o.pc = "assign" /\ o.actor \in Actors /\ o.endpoint = e /\ o.tag = t
      <3>1. o \in Jobs
        BY <1>0, AssignJob
      <3>2. o.pc = "assign" /\ o.actor = job[w].actor /\ o.endpoint = e /\ o.tag = t
        BY <1>0 DEF Jobs
      <3>3. QED
        BY <2>1, <3>1, <3>2
    <2>3. Reply(w) \/ job' = [job EXCEPT ![w] = o]
      BY <1>4 DEF assign_endpoint_tag
    <2> HIDE DEF o
    <2>4. QED
      BY <1>2, <2>1, <2>2, <2>3, JobChange
  <1>5. ASSUME NEW w \in Workers, NEW e \in Endpoints, NEW t \in Tags,
               remove_endpoint_tag(w, e, t)
        PROVE  Goal
    <2> DEFINE o == [job[w] EXCEPT !.pc = "remove", !.endpoint = e, !.tag = t]
    <2>1. job[w].actor \in Actors
      BY <1>0, <1>5 DEF remove_endpoint_tag, JobSound
    <2>2. o \in Jobs /\ o.pc = "remove" /\ o.actor \in Actors /\ o.endpoint = e /\ o.tag = t
      <3>1. o \in Jobs
        BY <1>0, RemoveJob
      <3>2. o.pc = "remove" /\ o.actor = job[w].actor /\ o.endpoint = e /\ o.tag = t
        BY <1>0 DEF Jobs
      <3>3. QED
        BY <2>1, <3>1, <3>2
    <2>3. job' = [job EXCEPT ![w] = o]
      BY <1>5 DEF remove_endpoint_tag
    <2> HIDE DEF o
    <2>4. QED
      BY <2>2, <2>3, JobChange
  <1>6. ASSUME NEW w \in Workers, NEW u \in Views, NEW f \in Filters, update_saved_view(w, u, f)
        PROVE  Goal
    <2> DEFINE n == views[u].current + 1
               o == [job[w] EXCEPT !.pc = "update", !.view = u, !.filter = f, !.version = n]
    <2>1. job[w].actor \in Actors /\ views' = views /\ views[u] # NoView
      BY <1>0, <1>6 DEF update_saved_view, JobSound
    <2>2. n \in Nat /\ n \in 1..n
      BY <1>0, <2>1 DEF ViewRows
    <2>3. /\ o \in Jobs /\ o.pc = "update" /\ o.actor \in Actors
          /\ o.view = u /\ o.filter = f /\ o.version = n
      <3>1. o \in Jobs
        BY <1>0, <2>2, UpdateJob
      <3>2. o.pc = "update" /\ o.actor = job[w].actor
            /\ o.view = u /\ o.filter = f /\ o.version = n
        BY <1>0 DEF Jobs
      <3>3. QED
        BY <2>1, <3>1, <3>2
    <2>4. Reply(w) \/ job' = [job EXCEPT ![w] = o]
      BY <1>6 DEF update_saved_view
    <2> HIDE DEF o
    <2>5. QED
      BY <1>2, <2>1, <2>2, <2>3, <2>4, JobChange
  <1>7. ASSUME NEW w \in Workers
        PROVE  /\ (\E t \in Tags, n \in Names, s \in Scopes : create_tag(w, t, n, s)) => Reply(w)
               /\ InsertAssignment(w) \/ DeleteAssignment(w) \/ InsertVersion(w) \/ AnswerOnly(w)
                  => Reply(w)
               /\ (\E u \in Views, s \in Scopes, p \in {"private", "shared"}, f \in Filters :
                      create_saved_view(w, u, s, p, f)) => Reply(w)
               /\ (\E g \in Groups, u \in Views : create_dynamic_group(w, g, u)) => Reply(w)
    <2>1. (\E t \in Tags, n \in Names, s \in Scopes : create_tag(w, t, n, s)) => Reply(w)
      BY DEF create_tag
    <2>2. InsertAssignment(w) \/ DeleteAssignment(w) \/ InsertVersion(w) \/ AnswerOnly(w)
          => Reply(w)
      BY DEF InsertAssignment, DeleteAssignment, InsertVersion, AnswerOnly
    <2>3. (\E u \in Views, s \in Scopes, p \in {"private", "shared"}, f \in Filters :
              create_saved_view(w, u, s, p, f)) => Reply(w)
      BY DEF create_saved_view
    <2>4. (\E g \in Groups, u \in Views : create_dynamic_group(w, g, u)) => Reply(w)
      BY DEF create_dynamic_group
    <2>5. QED
      BY <2>1, <2>2, <2>3, <2>4
  <1>8. (\E a \in Actors, b \in Bindable : BindActor(a, b) \/ UnbindActor(a, b)) => UNCHANGED job
    BY DEF BindActor, UnbindActor
  <1>9. UNCHANGED fleetVars => UNCHANGED job
    BY DEF fleetVars
  <1>10. QED
    BY <1>1, <1>2, <1>3, <1>4, <1>5, <1>6, <1>7, <1>8, <1>9 DEF FleetNext

(* Who is bound to what, and the bound on the requests. *)
LEMMA BindingStep ==
    ASSUME FleetInv, [FleetNext]_fleetVars
    PROVE  bindings' \in [Actors -> SUBSET Bindable] /\ served' \in Nat
  <1>0. bindings \in [Actors -> SUBSET Bindable] /\ served \in Nat
    BY DEF FleetInv, FleetTypeOK
  <1>1. ASSUME NEW a \in Actors, NEW b \in Bindable, BindActor(a, b) \/ UnbindActor(a, b)
        PROVE  bindings' \in [Actors -> SUBSET Bindable] /\ served' \in Nat
    BY <1>0, <1>1 DEF BindActor, UnbindActor
  <1>2. ASSUME NEW w \in Workers, NEW a \in Actors, Authenticate(w, a)
        PROVE  bindings' \in [Actors -> SUBSET Bindable] /\ served' \in Nat
    <2>1. served' = served + 1 /\ bindings' = bindings
      BY <1>2 DEF Authenticate
    <2>2. QED
      BY <1>0, <2>1
  <1>3. ASSUME NEW w \in Workers
        PROVE  /\ (\E t \in Tags, n \in Names, s \in Scopes : create_tag(w, t, n, s))
                  => UNCHANGED <<bindings, served>>
               /\ (\E e \in Endpoints, t \in Tags :
                      assign_endpoint_tag(w, e, t) \/ remove_endpoint_tag(w, e, t))
                  => UNCHANGED <<bindings, served>>
               /\ InsertAssignment(w) \/ DeleteAssignment(w) \/ InsertVersion(w) \/ AnswerOnly(w)
                  => UNCHANGED <<bindings, served>>
               /\ (\E u \in Views, s \in Scopes, p \in {"private", "shared"}, f \in Filters :
                      create_saved_view(w, u, s, p, f)) => UNCHANGED <<bindings, served>>
               /\ (\E u \in Views, f \in Filters : update_saved_view(w, u, f))
                  => UNCHANGED <<bindings, served>>
               /\ (\E g \in Groups, u \in Views : create_dynamic_group(w, g, u))
                  => UNCHANGED <<bindings, served>>
    <2>1. (\E t \in Tags, n \in Names, s \in Scopes : create_tag(w, t, n, s))
          => UNCHANGED <<bindings, served>>
      BY DEF create_tag
    <2>2. (\E e \in Endpoints, t \in Tags :
              assign_endpoint_tag(w, e, t) \/ remove_endpoint_tag(w, e, t))
          => UNCHANGED <<bindings, served>>
      BY DEF assign_endpoint_tag, remove_endpoint_tag
    <2>3. InsertAssignment(w) \/ DeleteAssignment(w) \/ InsertVersion(w) \/ AnswerOnly(w)
          => UNCHANGED <<bindings, served>>
      BY DEF InsertAssignment, DeleteAssignment, InsertVersion, AnswerOnly
    <2>4. (\E u \in Views, s \in Scopes, p \in {"private", "shared"}, f \in Filters :
              create_saved_view(w, u, s, p, f)) => UNCHANGED <<bindings, served>>
      BY DEF create_saved_view
    <2>5. (\E u \in Views, f \in Filters : update_saved_view(w, u, f))
          => UNCHANGED <<bindings, served>>
      BY DEF update_saved_view
    <2>6. (\E g \in Groups, u \in Views : create_dynamic_group(w, g, u))
          => UNCHANGED <<bindings, served>>
      BY DEF create_dynamic_group
    <2>7. QED
      BY <2>1, <2>2, <2>3, <2>4, <2>5, <2>6
  <1>4. UNCHANGED fleetVars => UNCHANGED <<bindings, served>>
    BY DEF fleetVars
  <1>5. UNCHANGED <<bindings, served>> =>
            bindings' \in [Actors -> SUBSET Bindable] /\ served' \in Nat
    BY <1>0
  <1>6. QED
    BY <1>1, <1>2, <1>3, <1>4, <1>5 DEF FleetNext

LEMMA FleetStart == FleetInit => FleetInv
  <1> SUFFICES ASSUME FleetInit
               PROVE  FleetInv
    OBVIOUS
  <1>1. FleetTypeOK
    <2>1. << >> \in Seq(Filters)
      OBVIOUS
    <2>2. bindings \in [Actors -> SUBSET Bindable] /\ tags \in [Tags -> {NoTag} \cup TagRows]
          /\ views \in [Views -> {NoView} \cup ViewRows] /\ versions \in [Views -> Seq(Filters)]
          /\ groups \in [Groups -> {NoGroup} \cup GroupRows] /\ served \in Nat
      BY <2>1 DEF FleetInit
    <2>3. audit \in [Endpoints \X Tags -> [assigned : Nat, removed : Nat]]
      BY DEF FleetInit
    <2>4. job \in [Workers -> Jobs]
      BY FreeJob DEF FleetInit
    <2>5. /\ assignments = {} /\ \A v \in Views : views[v] = NoView
          /\ \A g \in Groups : groups[g] = NoGroup
      BY DEF FleetInit
    <2>6. QED
      BY <2>2, <2>3, <2>4, <2>5 DEF FleetTypeOK
  <1>2. \A v \in Views : ViewSound(v)
    BY DEF FleetInit, ViewSound
  <1>3. TaggedWithinScope
    BY DEF FleetInit, TaggedWithinScope
  <1>4. RemovalsAudited
    BY DEF FleetInit, RemovalsAudited
  <1>5. \A w \in Workers : JobSound(w)
    BY FreeJob DEF FleetInit, JobSound
  <1>6. QED
    BY <1>1, <1>2, <1>3, <1>4, <1>5 DEF FleetInv

LEMMA FleetStep == FleetInv /\ [FleetNext]_fleetVars => FleetInv'
  <1> SUFFICES ASSUME FleetInv, [FleetNext]_fleetVars
               PROVE  FleetInv'
    OBVIOUS
  <1>1. \A v \in Views : views'[v] # NoView => views'[v].current \in DOMAIN versions'[v]
    <2> SUFFICES ASSUME NEW v \in Views, views'[v] # NoView
                 PROVE  views'[v].current \in DOMAIN versions'[v]
      OBVIOUS
    <2>1. /\ views'[v] \in ViewRows /\ versions'[v] \in Seq(Filters)
          /\ Len(versions'[v]) = views'[v].current
      BY ViewStep DEF ViewsGoal, ViewSound
    <2>2. QED
      BY <2>1 DEF ViewRows
  <1>2. FleetTypeOK'
    BY <1>1, BindingStep, TagStep, ViewStep, GroupStep, AssignmentStep, JobStep
       DEF FleetTypeOK, ViewsGoal, AuditRows
  <1>3. QED
    BY <1>2, ViewStep, AssignmentStep, JobStep DEF FleetInv, ViewsGoal

LEMMA FleetInvAlways == FleetSpec => []FleetInv
  BY FleetStart, FleetStep, PTL DEF FleetSpec
-----------------------------------------------------------------------------
(* Theorems *)

(* Whatever the order of concurrent updates, the versions of a saved view  *)
(* are numbered without gaps, the view points at the last, and no filter   *)
(* is stored twice (update_saved_view, saved_view_versions).               *)
THEOREM VersionsInOrderAlways == FleetSpec => []VersionsInOrder
  <1>1. FleetInv => VersionsInOrder
    <2> SUFFICES ASSUME FleetInv, NEW v \in Views, views[v] # NoView
                 PROVE  /\ DOMAIN versions[v] = 1..views[v].current
                        /\ \A i, j \in DOMAIN versions[v] :
                               versions[v][i] = versions[v][j] => i = j
      BY DEF VersionsInOrder
    <2>1. versions[v] \in Seq(Filters) /\ ViewSound(v)
      BY DEF FleetInv, FleetTypeOK
    <2>2. QED
      BY <2>1 DEF ViewSound
  <1>2. QED
    BY <1>1, FleetInvAlways, PTL

(* Every removal of a tag is on record, also when two requests remove or   *)
(* assign the same one (assign_endpoint_tag, remove_endpoint_tag).         *)
THEOREM RemovalsAuditedAlways == FleetSpec => []RemovalsAudited
  <1>1. FleetInv => RemovalsAudited
    BY DEF FleetInv
  <1>2. QED
    BY <1>1, FleetInvAlways, PTL

(* Nobody sees or tags anything outside the scopes that were read for his  *)
(* request, but the global tags of an endpoint he sees, and a dynamic      *)
(* group never widens what its reader may see, whatever roles are bound    *)
(* and unbound meanwhile (the list handlers, preview_dynamic_group,        *)
(* assign_endpoint_tag).                                                   *)
THEOREM ScopesContainAlways == FleetSpec => []ScopesContain
  <1>1. FleetInv => ScopesContain
    BY PreviewSafe, ListsSafe DEF FleetInv, ScopesContain
  <1>2. QED
    BY <1>1, FleetInvAlways, PTL
=============================================================================
