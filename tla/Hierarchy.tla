------------------------------ MODULE Hierarchy ------------------------------
(***************************************************************************)
(* Clients, their locations and the installer profiles filed under them    *)
(* (backend/app/hierarchy.py, api/endpoints/hierarchy.py and               *)
(* api/endpoints/installers.py), and the aliases tenant_id and site_id by  *)
(* which legacy callers name them.                                         *)
(*                                                                         *)
(* The tables start as migration 20260717_0005 leaves them.  A worker runs *)
(* one request: the reads of the handler are one step, its inserts, which  *)
(* commit together or fail on a constraint, another.  A request that is    *)
(* refused when it reads changes nothing and is not a step.  Nothing       *)
(* archives a client or a location, or changes or deletes a row.           *)
(***************************************************************************)
EXTENDS Authorization, FiniteSets

CONSTANTS
    Keys,            \* alias strings
    LegacyPairs,     \* <<tenant_id, site_id>> of the rows that 0005 found
    LegacyProfiles,  \* profiles that 0005 found: id -> [pair, platform, name]
    ClientIds, LocationIds, ProfileIds,  \* ids the service generates
    Platforms, Names,
    CallerGrants,    \* the grants of each possible caller
    Workers

ASSUME HierarchyAssumption ==
    /\ Null \notin Keys
    /\ LegacyPairs \subseteq (Keys \cup {Null}) \X (Keys \cup {Null})
    /\ \A p \in DOMAIN LegacyProfiles : LegacyProfiles[p].pair \in LegacyPairs

VARIABLES
    clients,    \* rows of clients, by client_id
    locations,  \* rows of locations, by location_id
    profiles,   \* rows of installer_profiles, by id
    audit,      \* audit events of this module
    job         \* the request each worker runs

hierarchyVars == <<clients, locations, profiles, audit, job>>

-----------------------------------------------------------------------------
(* The rows of migration 20260717_0005 *)

_client_id(tenant) == <<tenant>>
_location_id(tenant, site) == <<tenant, site>>

QUARANTINE_CLIENT_ID == _client_id(Null)
QUARANTINE_LOCATION_ID == _location_id(Null, Null)

MigratedClients ==
    [c \in {_client_id(p[1]) : p \in LegacyPairs} \cup {QUARANTINE_CLIENT_ID} |->
        [key |-> c[1], state |-> IF c[1] = Null THEN "migration_quarantine" ELSE "active"]]

MigratedLocations ==
    [l \in {_location_id(p[1], p[2]) : p \in LegacyPairs} \cup {QUARANTINE_LOCATION_ID} |->
        [client |-> _client_id(l[1]), key |-> l[2],
         state |-> IF Null \in {l[1], l[2]} THEN "migration_quarantine" ELSE "active"]]

(* No id is NULL.  A grant is that of a role binding or of a token: it has *)
(* one of three scope types, and every role and token that may read        *)
(* installer profiles may read the hierarchy.                              *)
ASSUME CallersAssumption ==
    /\ Null \notin DOMAIN MigratedClients \cup ClientIds
    /\ \A grants \in CallerGrants : \A g \in grants :
           /\ g.scope_type \in {"global", "client", "location"}
           /\ "installer_profile.read" \in g.permissions => "hierarchy.read" \in g.permissions

(* _backfill_table: the row of a pair belongs to the ids made from it.     *)
Backfilled(pair) ==
    [client |-> _client_id(pair[1]), location |-> _location_id(pair[1], pair[2]),
     tenant |-> pair[1], site |-> pair[2]]

(* A table with one more row; an id that is taken keeps its row.           *)
Added(table, id, row) ==
    [i \in DOMAIN table \cup {id} |-> IF i \in DOMAIN table THEN table[i] ELSE row]

Profile(scope, platform, name) == [scope |-> scope, platform |-> platform, name |-> name]

Idle == [pc |-> "idle"]

HierarchyInit ==
    /\ clients = MigratedClients
    /\ locations = MigratedLocations
    /\ profiles = [p \in DOMAIN LegacyProfiles |->
                     Profile(Backfilled(LegacyProfiles[p].pair),
                             LegacyProfiles[p].platform, LegacyProfiles[p].name)]
    /\ audit = {}
    /\ job = [w \in Workers |-> Idle]

HierarchyTypeOK ==
    /\ DOMAIN clients \subseteq DOMAIN MigratedClients \cup ClientIds
    /\ DOMAIN locations \subseteq DOMAIN MigratedLocations \cup LocationIds
    /\ DOMAIN profiles \subseteq DOMAIN LegacyProfiles \cup ProfileIds
    /\ \A l \in DOMAIN locations :
           /\ locations[l].client \in DOMAIN clients
           /\ locations[l].key \in Keys \cup {Null}
    /\ \A p \in DOMAIN profiles :
           LET s == profiles[p].scope IN
               s.location \in DOMAIN locations /\ locations[s.location].client = s.client

Start(w, j) ==
    /\ job[w] = Idle
    /\ job' = [job EXCEPT ![w] = j]
    /\ UNCHANGED <<clients, locations, profiles, audit>>

(* A constraint refuses the insert and the transaction is rolled back.     *)
Fail(w) ==
    /\ job' = [job EXCEPT ![w] = Idle]
    /\ UNCHANGED <<clients, locations, profiles, audit>>

-----------------------------------------------------------------------------
(* From aliases to a location *)

Scope(l, tenant, site) ==
    [client |-> locations[l].client, location |-> l, tenant |-> tenant, site |-> site]

(* The locations that the queries of resolve_scope find for aliases.  A    *)
(* NULL site_id finds the location of the client that has no key.          *)
Found(tenant, site) ==
    {l \in DOMAIN locations :
        /\ locations[l].key = site
        /\ IF tenant # Null
           THEN clients[locations[l].client].key = tenant
           ELSE site # Null /\ locations[l].client = QUARANTINE_CLIENT_ID}

(* Mistake: a site that is not known becomes the client's Unassigned one.  *)
resolve_nearest(tenant, site) ==
    LET found == IF Found(tenant, site) # {} THEN Found(tenant, site) ELSE Found(tenant, Null)
    IN  {Scope(l, tenant, site) :
            l \in IF found = {} THEN {QUARANTINE_LOCATION_ID} ELSE found}

(* resolve_scope for aliases: what they name or quarantine, never a new    *)
(* client or location.                                                     *)
resolve_scope(tenant, site) ==
    {Scope(l, tenant, site) :
        l \in IF Found(tenant, site) = {} THEN {QUARANTINE_LOCATION_ID}
                                          ELSE Found(tenant, site)}

(* resolve_scope for canonical ids, with load_scope: `alias` holds the     *)
(* aliases that were supplied as well, which must be those of the ids.     *)
load_scope(c, l, alias) ==
    {s \in {Scope(k, clients[c].key, locations[k].key) :
               k \in {l} \cap {j \in DOMAIN locations : locations[j].client = c}} :
        /\ "tenant" \in DOMAIN alias => alias.tenant = s.tenant
        /\ "site" \in DOMAIN alias => alias.site = s.site}

AliasKeys == Keys \cup {Null}
Aliases == UNION {[fields -> AliasKeys] : fields \in SUBSET {"tenant", "site"}}
Given(alias, field) == IF field \in DOMAIN alias THEN alias[field] ELSE Null

-----------------------------------------------------------------------------
(* Requests *)

(* create_client, up to its check of the key. *)
create_client(w, grants, key) ==
    /\ require_global_permission(grants, "hierarchy.manage")
    /\ \A c \in DOMAIN clients : clients[c].key # key
    /\ Start(w, [pc |-> "client", key |-> key])

AddClient(w) ==
    /\ \E c \in ClientIds \ DOMAIN clients, l \in LocationIds \ DOMAIN locations :
           /\ clients' = Added(clients, c, [key |-> job[w].key, state |-> "active"])
           /\ locations' = Added(locations, l,
                  [client |-> c, key |-> Null, state |-> "migration_quarantine"])
           /\ audit' = audit \cup {<<"client_created", c>>}
    /\ job' = [job EXCEPT ![w] = Idle]
    /\ UNCHANGED profiles

(* Mistake: uq_clients_key is missing. *)
InsertClientAgain(w) == job[w].pc = "client" /\ AddClient(w)

(* Its transaction: the client with its Unassigned location.               *)
InsertClient(w) ==
    /\ job[w].pc = "client"
    /\ IF \E c \in DOMAIN clients : clients[c].key = job[w].key
       THEN Fail(w)
       ELSE AddClient(w)

LocationTaken(c, key) ==
    \E l \in DOMAIN locations : locations[l].client = c /\ locations[l].key = key

(* create_location, up to its check of the key. *)
create_location(w, grants, c, key) ==
    /\ c \in DOMAIN clients
    /\ permits_scope(grants, "hierarchy.manage", c, Null)
    /\ ~LocationTaken(c, key)
    /\ Start(w, [pc |-> "location", client |-> c, key |-> key])

AddLocation(w) ==
    /\ \E l \in LocationIds \ DOMAIN locations :
           /\ locations' = Added(locations, l,
                  [client |-> job[w].client, key |-> job[w].key, state |-> "active"])
           /\ audit' = audit \cup {<<"location_created", l>>}
    /\ job' = [job EXCEPT ![w] = Idle]
    /\ UNCHANGED <<clients, profiles>>

InsertLocation(w) ==
    /\ job[w].pc = "location"
    /\ IF LocationTaken(job[w].client, job[w].key) THEN Fail(w) ELSE AddLocation(w)

ProfileTaken(j) ==
    \E p \in DOMAIN profiles :
        /\ profiles[p].scope.client = j.scope.client
        /\ profiles[p].platform = j.platform
        /\ profiles[p].name = j.name

(* create_installer_profile, up to its check of the name: the scope comes  *)
(* from canonical ids or from aliases.                                     *)
create_installer_profile(w, grants, scope, platform, name) ==
    LET j == [pc |-> "profile", scope |-> scope, platform |-> platform, name |-> name]
    IN  /\ permits_scope(grants, "installer_profile.manage", scope.client, scope.location)
        /\ ~ProfileTaken(j)
        /\ Start(w, j)

AddProfile(w) ==
    /\ \E p \in ProfileIds \ DOMAIN profiles :
           /\ profiles' =
                  Added(profiles, p, Profile(job[w].scope, job[w].platform, job[w].name))
           /\ audit' = audit \cup {<<"installer_profile_created", p>>}
    /\ job' = [job EXCEPT ![w] = Idle]
    /\ UNCHANGED <<clients, locations>>

InsertProfile(w) ==
    /\ job[w].pc = "profile"
    /\ IF ProfileTaken(job[w]) THEN Fail(w) ELSE AddProfile(w)

Request(w) ==
    \E grants \in CallerGrants :
        \/ \E key \in Keys : create_client(w, grants, key)
        \/ \E c \in DOMAIN clients, key \in Keys : create_location(w, grants, c, key)
        \/ \E platform \in Platforms, name \in Names, alias \in Aliases :
               \E scope \in resolve_scope(Given(alias, "tenant"), Given(alias, "site"))
                             \cup UNION {load_scope(locations[l].client, l, alias) :
                                           l \in DOMAIN locations} :
                   create_installer_profile(w, grants, scope, platform, name)

HierarchyNext ==
    \E w \in Workers : Request(w) \/ InsertClient(w) \/ InsertLocation(w) \/ InsertProfile(w)

HierarchySpec == HierarchyInit /\ [][HierarchyNext]_hierarchyVars

-----------------------------------------------------------------------------
(* Lists *)

list_clients(grants) ==
    {c \in DOMAIN clients : client_scope_clause(grants, "hierarchy.read", c)}

list_locations(grants, c) ==
    {l \in DOMAIN locations :
        /\ c \in list_clients(grants)
        /\ locations[l].client = c
        /\ scope_clause(grants, "hierarchy.read", c, l)}

(* validate_scope_filter and require_scope, for a list with the filter     *)
(* client_id and, if that is given, location_id.                           *)
FilterAllowed(grants, permission, c, l) ==
    /\ c = Null => l = Null
    /\ c # Null => c \in DOMAIN clients /\ permits_scope(grants, permission, c, l)
    /\ l # Null => l \in DOMAIN locations /\ locations[l].client = c

Selected(scope, c, l) == (c # Null => scope.client = c) /\ (l # Null => scope.location = l)

list_installer_profiles(grants, c, l) ==
    {p \in DOMAIN profiles :
        /\ FilterAllowed(grants, "installer_profile.read", c, l)
        /\ scope_clause(grants, "installer_profile.read", profiles[p].scope.client,
                        profiles[p].scope.location)
        /\ Selected(profiles[p].scope, c, l)}

-----------------------------------------------------------------------------
(* Properties *)

(* Whatever aliases a legacy caller sends, resolve_scope has one answer,   *)
(* although the service does not lock a table between its check of a key   *)
(* and its insert, and a NULL key is no key to the unique constraints.     *)
AliasesResolveToOne ==
    \A tenant, site \in AliasKeys : Cardinality(resolve_scope(tenant, site)) = 1

(* Ownership is never guessed: outside the quarantine location the aliases *)
(* of a profile are the keys of the client and location it belongs to,     *)
(* whether the migration, aliases or canonical ids filed it                *)
(* (_backfill_table, resolve_scope, create_installer_profile).             *)
OwnerMatchesAliases(scope) ==
    scope.location # QUARANTINE_LOCATION_ID =>
        /\ scope.tenant = clients[scope.client].key
        /\ scope.site = locations[scope.location].key

ProfilesMatchAliases ==
    \A p \in DOMAIN profiles : OwnerMatchesAliases(profiles[p].scope)

(* The audit log tells what the API created and nothing else: a creation   *)
(* that loses a race leaves no event (create_client, create_location and   *)
(* create_installer_profile write row and event in one transaction).       *)
AuditMatchesRows ==
    /\ {e[2] : e \in {f \in audit : f[1] = "client_created"}}
           = DOMAIN clients \ DOMAIN MigratedClients
    /\ {e[2] : e \in {f \in audit : f[1] = "location_created"}}
           = {l \in DOMAIN locations \ DOMAIN MigratedLocations : locations[l].key # Null}
    /\ {e[2] : e \in {f \in audit : f[1] = "installer_profile_created"}}
           = DOMAIN profiles \ DOMAIN LegacyProfiles

(* What races between operators leave of the hierarchy: an alias has one   *)
(* meaning, owners match aliases, and the audit log tells what is there    *)
(* (create_client, create_location, create_installer_profile).             *)
HierarchySound ==
    /\ HierarchyTypeOK
    /\ AliasesResolveToOne
    /\ ProfilesMatchAliases
    /\ AuditMatchesRows

(* A caller reaches each profile within his authority by selecting its     *)
(* client in list_clients, its location in list_locations and filtering    *)
(* list_installer_profiles by both; and no list shows him another's.       *)
ListsShowAuthority ==
    \A grants \in CallerGrants, p \in DOMAIN profiles :
        LET s == profiles[p].scope
            mine == permits_scope(grants, "installer_profile.read", s.client, s.location)
        IN  /\ mine => /\ s.client \in list_clients(grants)
                       /\ s.location \in list_locations(grants, s.client)
                       /\ p \in list_installer_profiles(grants, s.client, s.location)
            /\ ~mine => \A c \in DOMAIN clients \cup {Null}, l \in DOMAIN locations \cup {Null} :
                           p \notin list_installer_profiles(grants, c, l)

=============================================================================
