---------------------------- MODULE ReportProofs ----------------------------
(***************************************************************************)
(* Theorems about clients, locations and installer profiles, and about the *)
(* endpoints, reports and exports of evidence that are filed under them,   *)
(* for every set of aliases, callers, hosts and handlers and for every     *)
(* database that migration 20260717_0005 can have left.                    *)
(***************************************************************************)
EXTENDS EndpointReports, TLAPS, FiniteSetTheorems

-----------------------------------------------------------------------------
(* The inductive invariant: the hierarchy *)

(* The rows of the migration are still there, those of the quarantine in   *)
(* particular, and every location has its client.                          *)
TablesSound ==
    /\ DOMAIN MigratedClients \subseteq DOMAIN clients
    /\ DOMAIN clients \subseteq DOMAIN MigratedClients \cup ClientIds
    /\ DOMAIN MigratedLocations \subseteq DOMAIN locations
    /\ DOMAIN locations \subseteq DOMAIN MigratedLocations \cup LocationIds
    /\ clients[QUARANTINE_CLIENT_ID].key = Null
    /\ locations[QUARANTINE_LOCATION_ID].client = QUARANTINE_CLIENT_ID
    /\ \A c \in DOMAIN clients : clients[c].key \in AliasKeys
    /\ \A l \in DOMAIN locations :
           locations[l].client \in DOMAIN clients /\ locations[l].key \in AliasKeys

(* uq_clients_key and uq_locations_client_key, which hold for the rows     *)
(* without a key as well, although the constraints do not ask it.          *)
KeysUnique ==
    /\ \A c, d \in DOMAIN clients : clients[c].key = clients[d].key => c = d
    /\ \A l, m \in DOMAIN locations :
           locations[l].client = locations[m].client /\ locations[l].key = locations[m].key
               => l = m

(* A scope that a row or a handler holds names a location and its client.  *)
ScopeSound(s) ==
    /\ s.location \in DOMAIN locations
    /\ locations[s.location].client = s.client
    /\ OwnerMatchesAliases(s)

ProfilesSound ==
    /\ DOMAIN LegacyProfiles \subseteq DOMAIN profiles
    /\ DOMAIN profiles \subseteq DOMAIN LegacyProfiles \cup ProfileIds
    /\ \A p \in DOMAIN profiles : ScopeSound(profiles[p].scope)

(* What a handler has read and checked before its insert. *)
JobSound(j) ==
    \/ j = Idle
    \/ j.pc = "client" /\ j.key \in Keys
    \/ j.pc = "location" /\ j.client \in DOMAIN clients /\ j.key \in Keys
    \/ j.pc = "profile" /\ ScopeSound(j.scope)

JobsSound == DOMAIN job = Workers /\ \A w \in Workers : JobSound(job[w])

HierarchyInv ==
    /\ TablesSound
    /\ KeysUnique
    /\ ProfilesSound
    /\ JobsSound
    /\ AuditMatchesRows

-----------------------------------------------------------------------------
(* The inductive invariant: endpoints, reports and exports *)

Columns == {"mode", "platform", "scope", "status", "protocol", "declared", "manifest"}

(* A legacy endpoint never waits for approval and has no manifest: so what *)
(* a report wrote into a row it read in legacy mode is what was there.     *)
RowSound(row) ==
    /\ DOMAIN row = Columns
    /\ row.mode \in {"legacy_shared", "device"}
    /\ row.status \in {"pending", "active"}
    /\ row.declared \in CapabilitySets \cup {Null}
    /\ row.manifest \in CapabilitySets \cup {Null}
    /\ row.mode = "device" => row.protocol = Current
    /\ row.mode = "legacy_shared" =>
           row.protocol = Legacy /\ row.status = "active" /\ row.manifest = Null
    /\ row.manifest # Null => _validate_manifest_platform(row.manifest, row.platform)

EndpointsSound ==
    /\ DOMAIN endpoints \subseteq Hosts
    /\ \A h \in DOMAIN endpoints : RowSound(endpoints[h]) /\ ScopeSound(endpoints[h].scope)

(* Controls of a report about a platform. *)
Fits(controls, platform) ==
    /\ controls # {}
    /\ controls \subseteq DOMAIN ControlPlatform
    /\ \A c \in controls : ControlPlatform[c] = platform

(* Two rows of the same endpoint differ in its capabilities only. *)
SameButCapabilities(row, old) ==
    \A c \in Columns \ {"declared", "manifest"} : row[c] = old[c]

(* What a handler has read: the row may have gone from legacy to device    *)
(* mode since, and has kept its platform.                                  *)
UpdateSound(r) ==
    /\ r.host \in DOMAIN endpoints
    /\ RowSound(r.seen) /\ RowSound(r.row)
    /\ SameButCapabilities(r.row, r.seen)
    /\ r.seen.platform = endpoints[r.host].platform
    /\ r.seen.mode = "device" => endpoints[r.host].mode = "device"

ReportSound(r) ==
    \/ r = Idle
    \/ r.pc = "insert" /\ r.host \in Hosts /\ RowSound(r.row) /\ ScopeSound(r.row.scope)
    \/ r.pc = "update" /\ UpdateSound(r)
    \/ /\ r.pc = "posture" /\ r.host \in DOMAIN endpoints /\ r.at \in Times
       /\ Fits(r.controls, endpoints[r.host].platform)

ReportsSound == DOMAIN report = Handlers /\ \A k \in Handlers : ReportSound(report[k])

SnapshotsSound ==
    /\ snapshots \in Seq([host : Hosts, at : Times])
    /\ results \in Seq(SUBSET DOMAIN ControlPlatform)
    /\ Len(results) = Len(snapshots)
    /\ \A i \in 1..Len(snapshots) :
           /\ snapshots[i].host \in DOMAIN endpoints
           /\ Fits(results[i], endpoints[snapshots[i].host].platform)

ExportSound ==
    /\ DOMAIN export = {"pc", "grants", "endpoints", "snapshots", "results"}
    /\ export.endpoints \subseteq DOMAIN endpoints
    /\ export.snapshots \subseteq 1..Len(snapshots)
    /\ ExportIsWhole

EndpointInv ==
    /\ EndpointsSound
    /\ ReportsSound
    /\ SnapshotsSound
    /\ ExportSound

-----------------------------------------------------------------------------
(* Tables that grow *)

(* Nothing changes or deletes a client or a location. *)
RowsKept ==
    /\ DOMAIN clients \subseteq DOMAIN clients'
    /\ DOMAIN locations \subseteq DOMAIN locations'
    /\ \A c \in DOMAIN clients : clients'[c] = clients[c]
    /\ \A l \in DOMAIN locations : locations'[l] = locations[l]

(* What was a sound scope stays one. *)
LEMMA ScopeKept ==
    ASSUME TablesSound, RowsKept, NEW s, ScopeSound(s)
    PROVE  ScopeSound(s)'
  BY DEF TablesSound, RowsKept, ScopeSound, OwnerMatchesAliases

LEMMA JobKept ==
    ASSUME TablesSound, RowsKept, NEW j, JobSound(j)
    PROVE  JobSound(j)'
  <1>1. CASE j.pc = "profile" /\ ScopeSound(j.scope)
    <2>1. ScopeSound(j.scope)'
      BY <1>1, ScopeKept
    <2>2. QED
      BY <1>1, <2>1 DEF JobSound
  <1>2. CASE ~(j.pc = "profile" /\ ScopeSound(j.scope))
    BY <1>2 DEF JobSound, RowsKept
  <1>3. QED
    BY <1>1, <1>2

-----------------------------------------------------------------------------
(* Aliases *)

(* An alias has at most one meaning. *)
LEMMA FoundOne ==
    ASSUME TablesSound, KeysUnique, NEW tenant, NEW site,
           NEW l \in Found(tenant, site), NEW m \in Found(tenant, site)
    PROVE  l = m
  <1>1. /\ l \in DOMAIN locations /\ m \in DOMAIN locations
        /\ locations[l].key = locations[m].key
    BY DEF Found
  <1>2. locations[l].client \in DOMAIN clients /\ locations[m].client \in DOMAIN clients
    BY <1>1 DEF TablesSound
  <1>3. locations[l].client = locations[m].client
    BY <1>1, <1>2 DEF Found, KeysUnique
  <1>4. QED
    BY <1>1, <1>3 DEF KeysUnique

LEMMA FoundSound ==
    ASSUME TablesSound, NEW tenant, NEW site, NEW l \in Found(tenant, site)
    PROVE  l \in DOMAIN locations /\ ScopeSound(Scope(l, tenant, site))
  <1>1. l \in DOMAIN locations
    BY DEF Found
  <1>2. tenant = clients[locations[l].client].key /\ site = locations[l].key
    BY DEF Found, TablesSound
  <1>3. QED
    BY <1>1, <1>2 DEF Scope, ScopeSound, OwnerMatchesAliases

LEMMA QuarantineSound ==
    ASSUME TablesSound, NEW tenant, NEW site
    PROVE  /\ QUARANTINE_LOCATION_ID \in DOMAIN locations
           /\ ScopeSound(Scope(QUARANTINE_LOCATION_ID, tenant, site))
  <1>1. QUARANTINE_LOCATION_ID \in DOMAIN locations
    BY DEF TablesSound, MigratedLocations
  <1>2. QED
    BY <1>1 DEF Scope, ScopeSound, OwnerMatchesAliases

(* resolve_scope answers with one scope, and a sound one. *)
LEMMA ResolvedToOne ==
    ASSUME TablesSound, KeysUnique, NEW tenant, NEW site
    PROVE  \E l \in DOMAIN locations :
               /\ resolve_scope(tenant, site) = {Scope(l, tenant, site)}
               /\ ScopeSound(Scope(l, tenant, site))
  <1>1. CASE Found(tenant, site) = {}
    BY <1>1, QuarantineSound DEF resolve_scope
  <1>2. CASE Found(tenant, site) # {}
    <2>1. PICK l \in Found(tenant, site) : TRUE
      BY <1>2
    <2>2. Found(tenant, site) = {l}
      BY <2>1, FoundOne
    <2>3. resolve_scope(tenant, site) = {Scope(l, tenant, site)}
      BY <1>2, <2>2 DEF resolve_scope
    <2>4. QED
      BY <2>1, <2>3, FoundSound
  <1>3. QED
    BY <1>1, <1>2

LEMMA ResolvedSound ==
    ASSUME TablesSound, KeysUnique, NEW tenant, NEW site,
           NEW s \in resolve_scope(tenant, site)
    PROVE  ScopeSound(s)
  BY ResolvedToOne

LEMMA LoadedSound ==
    ASSUME TablesSound, NEW l \in DOMAIN locations, NEW alias,
           NEW s \in load_scope(locations[l].client, l, alias)
    PROVE  ScopeSound(s)
  <1>1. s = Scope(l, clients[locations[l].client].key, locations[l].key)
    BY DEF load_scope
  <1>2. QED
    BY <1>1 DEF Scope, ScopeSound, OwnerMatchesAliases

-----------------------------------------------------------------------------
(* The audit log *)

Told(events, kind) == {e[2] : e \in {f \in events : f[1] = kind}}

LEMMA ToldMore ==
    ASSUME NEW events, NEW e
    PROVE  Told(events \cup {e}, e[1]) = Told(events, e[1]) \cup {e[2]}
  BY DEF Told

(* An event tells nothing of other kinds. *)
LEMMA ToldNoOther ==
    ASSUME NEW events, NEW e, NEW other, e[1] # other
    PROVE  Told(events \cup {e}, other) = Told(events, other)
  BY DEF Told

NewClients == DOMAIN clients \ DOMAIN MigratedClients
NewLocations == {l \in DOMAIN locations \ DOMAIN MigratedLocations : locations[l].key # Null}
NewProfiles == DOMAIN profiles \ DOMAIN LegacyProfiles

LEMMA AuditTells ==
    AuditMatchesRows <=> /\ Told(audit, "client_created") = NewClients
                         /\ Told(audit, "location_created") = NewLocations
                         /\ Told(audit, "installer_profile_created") = NewProfiles
  BY DEF AuditMatchesRows, Told, NewClients, NewLocations, NewProfiles

LEMMA AuditTellsNext ==
    AuditMatchesRows' <=> /\ Told(audit', "client_created") = NewClients'
                          /\ Told(audit', "location_created") = NewLocations'
                          /\ Told(audit', "installer_profile_created") = NewProfiles'
  BY DEF AuditMatchesRows, Told, NewClients, NewLocations, NewProfiles

-----------------------------------------------------------------------------
(* The hierarchy: initial states *)

LEMMA MigratedShape ==
    /\ QUARANTINE_CLIENT_ID \in DOMAIN MigratedClients
    /\ QUARANTINE_LOCATION_ID \in DOMAIN MigratedLocations
    /\ \A c \in DOMAIN MigratedClients : \E tenant \in AliasKeys : c = <<tenant>>
    /\ \A l \in DOMAIN MigratedLocations :
           \E tenant, site \in AliasKeys :
               l = <<tenant, site>> /\ <<tenant>> \in DOMAIN MigratedClients
    /\ \A pair \in LegacyPairs :
           /\ <<pair[1]>> \in DOMAIN MigratedClients
           /\ <<pair[1], pair[2]>> \in DOMAIN MigratedLocations
  <1>1. \A pair \in LegacyPairs : pair[1] \in AliasKeys /\ pair[2] \in AliasKeys
    BY HierarchyAssumption DEF AliasKeys
  <1>2. DOMAIN MigratedClients = {<<pair[1]>> : pair \in LegacyPairs} \cup {<<Null>>}
    BY DEF MigratedClients, _client_id, QUARANTINE_CLIENT_ID
  <1>3. DOMAIN MigratedLocations = {<<pair[1], pair[2]>> : pair \in LegacyPairs}
                                       \cup {<<Null, Null>>}
    BY DEF MigratedLocations, _location_id, QUARANTINE_LOCATION_ID
  <1>4. Null \in AliasKeys
    BY DEF AliasKeys
  <1>5. QUARANTINE_CLIENT_ID = <<Null>> /\ QUARANTINE_LOCATION_ID = <<Null, Null>>
    BY DEF _client_id, _location_id, QUARANTINE_CLIENT_ID, QUARANTINE_LOCATION_ID
  <1>6. \A c \in DOMAIN MigratedClients : \E tenant \in AliasKeys : c = <<tenant>>
    BY <1>1, <1>2, <1>4
  <1>7. \A pair \in LegacyPairs : /\ <<pair[1]>> \in DOMAIN MigratedClients
                                 /\ <<pair[1], pair[2]>> \in DOMAIN MigratedLocations
    BY <1>2, <1>3
  <1>8. <<Null>> \in DOMAIN MigratedClients /\ <<Null, Null>> \in DOMAIN MigratedLocations
    BY <1>2, <1>3
  <1>9. ASSUME NEW l \in DOMAIN MigratedLocations
        PROVE  \E tenant, site \in AliasKeys :
                   l = <<tenant, site>> /\ <<tenant>> \in DOMAIN MigratedClients
    <2>1. CASE l = <<Null, Null>>
      BY <2>1, <1>4, <1>8
    <2>2. CASE l # <<Null, Null>>
      <3>1. PICK pair \in LegacyPairs : l = <<pair[1], pair[2]>>
        BY <1>3, <2>2
      <3>2. QED
        BY <3>1, <1>1, <1>7
    <2>3. QED
      BY <2>1, <2>2
  <1>10. QED
    BY <1>5, <1>6, <1>7, <1>8, <1>9

LEMMA MigratedRows ==
    /\ \A c \in DOMAIN MigratedClients : MigratedClients[c].key = c[1]
    /\ \A l \in DOMAIN MigratedLocations :
           MigratedLocations[l].client = <<l[1]>> /\ MigratedLocations[l].key = l[2]
  BY DEF MigratedClients, MigratedLocations, _client_id

LEMMA InitTables ==
    ASSUME HierarchyInit
    PROVE  TablesSound /\ KeysUnique
  <1>1. clients = MigratedClients /\ locations = MigratedLocations
    BY DEF HierarchyInit
  <1>2. /\ clients[QUARANTINE_CLIENT_ID].key = Null
        /\ locations[QUARANTINE_LOCATION_ID].client = QUARANTINE_CLIENT_ID
    BY <1>1, MigratedShape, MigratedRows DEF QUARANTINE_CLIENT_ID, QUARANTINE_LOCATION_ID,
          _client_id, _location_id
  <1>3. \A c \in DOMAIN clients : clients[c].key \in AliasKeys
    BY <1>1, MigratedShape, MigratedRows
  <1>4. ASSUME NEW l \in DOMAIN locations
        PROVE  locations[l].client \in DOMAIN clients /\ locations[l].key \in AliasKeys
    <2>1. PICK tenant, site \in AliasKeys :
              l = <<tenant, site>> /\ <<tenant>> \in DOMAIN MigratedClients
      BY <1>1, MigratedShape
    <2>2. QED
      BY <1>1, <2>1, MigratedRows
  <1>5. \A c, d \in DOMAIN clients : clients[c].key = clients[d].key => c = d
    BY <1>1, MigratedShape, MigratedRows
  <1>6. ASSUME NEW l \in DOMAIN locations, NEW m \in DOMAIN locations,
               locations[l].client = locations[m].client, locations[l].key = locations[m].key
        PROVE  l = m
    <2>1. PICK t, s \in AliasKeys : l = <<t, s>> /\ <<t>> \in DOMAIN MigratedClients
      BY <1>1, MigratedShape
    <2>2. PICK u, v \in AliasKeys : m = <<u, v>> /\ <<u>> \in DOMAIN MigratedClients
      BY <1>1, MigratedShape
    <2>3. <<t>> = <<u>> /\ s = v
      BY <1>1, <1>6, <2>1, <2>2, MigratedRows
    <2>4. QED
      BY <2>1, <2>2, <2>3
  <1>7. QED
    BY <1>1, <1>2, <1>3, <1>4, <1>5, <1>6 DEF TablesSound, KeysUnique

LEMMA BackfilledSound ==
    ASSUME HierarchyInit, NEW pair \in LegacyPairs
    PROVE  ScopeSound(Backfilled(pair))
  <1>1. /\ <<pair[1], pair[2]>> \in DOMAIN locations
        /\ locations[<<pair[1], pair[2]>>].client = <<pair[1]>>
        /\ locations[<<pair[1], pair[2]>>].key = pair[2]
        /\ clients[<<pair[1]>>].key = pair[1]
    BY MigratedShape, MigratedRows DEF HierarchyInit
  <1>2. QED
    BY <1>1 DEF Backfilled, ScopeSound, OwnerMatchesAliases, _client_id, _location_id

LEMMA InitHierarchy ==
    ASSUME HierarchyInit
    PROVE  HierarchyInv
  <1>1. ProfilesSound
    BY HierarchyAssumption, BackfilledSound DEF HierarchyInit, ProfilesSound, Profile
  <1>2. JobsSound
    BY DEF HierarchyInit, JobsSound, JobSound
  <1>3. AuditMatchesRows
    BY DEF HierarchyInit, AuditMatchesRows
  <1>4. QED
    BY <1>1, <1>2, <1>3, InitTables DEF HierarchyInv

-----------------------------------------------------------------------------
(* The hierarchy: steps *)

HierarchyRows == <<clients, locations, profiles, audit>>

LEMMA SameRowsKept ==
    ASSUME UNCHANGED <<clients, locations>>
    PROVE  RowsKept
  BY DEF RowsKept

(* One request begins, ends or fails and no row changes. *)
LEMMA JobStep ==
    ASSUME HierarchyInv, UNCHANGED HierarchyRows, NEW w \in Workers, NEW j, JobSound(j),
           job' = [job EXCEPT ![w] = j]
    PROVE  HierarchyInv'
  <1>1. UNCHANGED <<clients, locations, profiles, audit>>
    BY DEF HierarchyRows
  <1>2. TablesSound' /\ KeysUnique' /\ AuditMatchesRows'
    BY <1>1 DEF HierarchyInv, TablesSound, KeysUnique, AuditMatchesRows
  <1>3. ProfilesSound'
    BY <1>1 DEF HierarchyInv, ProfilesSound, ScopeSound, OwnerMatchesAliases
  <1>4. RowsKept
    BY <1>1, SameRowsKept
  <1>5. ASSUME NEW v \in Workers
        PROVE  JobSound(job[v])'
    <2>1. PICK i : i = job'[v]
      OBVIOUS
    <2>2. JobSound(i)
      BY <2>1 DEF HierarchyInv, JobsSound
    <2>3. JobSound(i)'
      BY <2>2, <1>4, JobKept DEF HierarchyInv
    <2>4. QED
      BY <2>1, <2>3 DEF JobSound, ScopeSound, OwnerMatchesAliases
  <1>6. JobsSound'
    BY <1>5 DEF JobsSound, HierarchyInv
  <1>7. QED
    BY <1>2, <1>3, <1>6 DEF HierarchyInv

LEMMA FailStep ==
    ASSUME HierarchyInv, NEW w \in Workers, Fail(w)
    PROVE  HierarchyInv'
  BY JobStep DEF Fail, JobSound, HierarchyRows

LEMMA RequestStep ==
    ASSUME HierarchyInv, NEW w \in Workers, Request(w)
    PROVE  HierarchyInv' /\ UNCHANGED HierarchyRows
  <1>1. ASSUME NEW j, JobSound(j), Start(w, j)
        PROVE  HierarchyInv' /\ UNCHANGED HierarchyRows
    BY <1>1, JobStep DEF Start, HierarchyRows
  <1>2. PICK grants \in CallerGrants :
            \/ \E key \in Keys : create_client(w, grants, key)
            \/ \E c \in DOMAIN clients, key \in Keys : create_location(w, grants, c, key)
            \/ \E platform \in Platforms, name \in Names, alias \in Aliases :
                   \E scope \in resolve_scope(Given(alias, "tenant"), Given(alias, "site"))
                                 \cup UNION {load_scope(locations[l].client, l, alias) :
                                               l \in DOMAIN locations} :
                       create_installer_profile(w, grants, scope, platform, name)
    BY Zenon DEF Request
  <1>3. ASSUME NEW key \in Keys, create_client(w, grants, key)
        PROVE  HierarchyInv' /\ UNCHANGED HierarchyRows
    BY <1>1, <1>3 DEF create_client, JobSound
  <1>4. ASSUME NEW c \in DOMAIN clients, NEW key \in Keys, create_location(w, grants, c, key)
        PROVE  HierarchyInv' /\ UNCHANGED HierarchyRows
    BY <1>1, <1>4 DEF create_location, JobSound
  <1>5. ASSUME NEW platform \in Platforms, NEW name \in Names, NEW alias \in Aliases,
               NEW scope \in resolve_scope(Given(alias, "tenant"), Given(alias, "site"))
                              \cup UNION {load_scope(locations[l].client, l, alias) :
                                            l \in DOMAIN locations},
               create_installer_profile(w, grants, scope, platform, name)
        PROVE  HierarchyInv' /\ UNCHANGED HierarchyRows
    <2>1. ScopeSound(scope)
      BY ResolvedSound, LoadedSound DEF HierarchyInv
    <2>2. QED
      BY <1>1, <1>5, <2>1 DEF create_installer_profile, JobSound
  <1>6. QED
    BY <1>2, <1>3, <1>4, <1>5, Zenon

(* What rows that are kept keep. *)
LEMMA HolderKept ==
    ASSUME HierarchyInv, RowsKept, NEW w \in Workers, job' = [job EXCEPT ![w] = Idle]
    PROVE  /\ JobsSound'
           /\ profiles' = profiles => ProfilesSound'
  <1>1. ASSUME NEW v \in Workers
        PROVE  JobSound(job[v])'
    <2>1. PICK i : i = job'[v]
      OBVIOUS
    <2>2. JobSound(i)
      BY <2>1 DEF HierarchyInv, JobsSound, JobSound
    <2>3. JobSound(i)'
      BY <2>2, JobKept DEF HierarchyInv
    <2>4. QED
      BY <2>1, <2>3 DEF JobSound, ScopeSound, OwnerMatchesAliases
  <1>2. ASSUME profiles' = profiles
        PROVE  ProfilesSound'
    BY <1>2, ScopeKept DEF ProfilesSound, HierarchyInv
  <1>3. QED
    BY <1>1, <1>2 DEF JobsSound, HierarchyInv

LEMMA AddClientStep ==
    ASSUME HierarchyInv, NEW w \in Workers, job[w].pc = "client",
           \A c \in DOMAIN clients : clients[c].key # job[w].key, AddClient(w)
    PROVE  HierarchyInv' /\ RowsKept
  <1> DEFINE key == job[w].key
  <1>1. PICK c \in ClientIds \ DOMAIN clients, l \in LocationIds \ DOMAIN locations :
            /\ clients' = Added(clients, c, [key |-> key, state |-> "active"])
            /\ locations' = Added(locations, l,
                   [client |-> c, key |-> Null, state |-> "migration_quarantine"])
            /\ audit' = audit \cup {<<"client_created", c>>}
    BY DEF AddClient
  <1>2. profiles' = profiles /\ job' = [job EXCEPT ![w] = Idle]
    BY DEF AddClient
  <1>3. key \in Keys
    BY DEF HierarchyInv, JobsSound, JobSound, Idle
  <1>4. /\ DOMAIN clients' = DOMAIN clients \cup {c}
        /\ \A d \in DOMAIN clients : clients'[d] = clients[d]
        /\ clients'[c].key = key
    BY <1>1 DEF Added
  <1>5. /\ DOMAIN locations' = DOMAIN locations \cup {l}
        /\ \A m \in DOMAIN locations : locations'[m] = locations[m]
        /\ locations'[l].client = c /\ locations'[l].key = Null
    BY <1>1 DEF Added
  <1> HIDE DEF key
  <1>6. RowsKept
    BY <1>4, <1>5 DEF RowsKept
  <1>7. TablesSound'
    <2>1. TablesSound
      BY DEF HierarchyInv
    <2>2. QUARANTINE_CLIENT_ID \in DOMAIN clients /\ QUARANTINE_LOCATION_ID \in DOMAIN locations
      BY <2>1, MigratedShape DEF TablesSound
    <2>3. QED
      BY <1>1, <1>3, <1>4, <1>5, <2>1, <2>2 DEF TablesSound, AliasKeys
  <1>8. KeysUnique'
    <2>1. \A m \in DOMAIN locations : locations[m].client # c
      BY <1>1 DEF HierarchyInv, TablesSound
    <2>2. \A d \in DOMAIN clients : clients[d].key # key
      BY DEF key
    <2>3. QED
      BY <1>1, <1>4, <1>5, <2>1, <2>2 DEF HierarchyInv, KeysUnique
  <1>9. AuditMatchesRows'
    <2> DEFINE e == <<"client_created", c>>
    <2>1. audit' = audit \cup {e} /\ e[1] = "client_created" /\ e[2] = c
      BY <1>1
    <2> HIDE DEF e
    <2>2. Told(audit', "client_created") = NewClients'
      <3>1. c \notin DOMAIN MigratedClients
        BY <1>1 DEF HierarchyInv, TablesSound
      <3>2. Told(audit, "client_created") = NewClients
        BY AuditTells DEF HierarchyInv
      <3>3. Told(audit', "client_created") = Told(audit, "client_created") \cup {c}
        BY <2>1, ToldMore
      <3>4. QED
        BY <1>4, <3>1, <3>2, <3>3 DEF NewClients
    <2>3. Told(audit', "location_created") = NewLocations'
      <3>1. Told(audit', "location_created") = NewLocations
        BY <2>1, AuditTells, ToldNoOther DEF HierarchyInv
      <3>2. QED
        BY <1>5, <3>1 DEF NewLocations
    <2>4. Told(audit', "installer_profile_created") = NewProfiles'
      <3>1. Told(audit', "installer_profile_created") = NewProfiles
        BY <2>1, AuditTells, ToldNoOther DEF HierarchyInv
      <3>2. QED
        BY <1>2, <3>1 DEF NewProfiles
    <2>5. QED
      BY <2>2, <2>3, <2>4, AuditTellsNext
  <1>10. QED
    BY <1>2, <1>6, <1>7, <1>8, <1>9, HolderKept DEF HierarchyInv

LEMMA AddLocationStep ==
    ASSUME HierarchyInv, NEW w \in Workers, job[w].pc = "location",
           ~LocationTaken(job[w].client, job[w].key), AddLocation(w)
    PROVE  HierarchyInv' /\ RowsKept
  <1> DEFINE c == job[w].client
             key == job[w].key
  <1>1. PICK l \in LocationIds \ DOMAIN locations :
            /\ locations' = Added(locations, l,
                   [client |-> c, key |-> key, state |-> "active"])
            /\ audit' = audit \cup {<<"location_created", l>>}
    BY DEF AddLocation
  <1>2. clients' = clients /\ profiles' = profiles /\ job' = [job EXCEPT ![w] = Idle]
    BY DEF AddLocation
  <1>3. key \in Keys /\ c \in DOMAIN clients
    BY DEF HierarchyInv, JobsSound, JobSound, Idle
  <1>4. /\ DOMAIN locations' = DOMAIN locations \cup {l}
        /\ \A m \in DOMAIN locations : locations'[m] = locations[m]
        /\ locations'[l].client = c /\ locations'[l].key = key
    BY <1>1 DEF Added
  <1>5. \A m \in DOMAIN locations : ~(locations[m].client = c /\ locations[m].key = key)
    BY DEF LocationTaken
  <1> HIDE DEF c, key
  <1>6. RowsKept
    BY <1>2, <1>4 DEF RowsKept
  <1>7. TablesSound'
    <2>1. TablesSound
      BY DEF HierarchyInv
    <2>2. QUARANTINE_LOCATION_ID \in DOMAIN locations
      BY <2>1, MigratedShape DEF TablesSound
    <2>3. QED
      BY <1>1, <1>2, <1>3, <1>4, <2>1, <2>2 DEF TablesSound, AliasKeys
  <1>8. KeysUnique'
    BY <1>1, <1>2, <1>4, <1>5 DEF HierarchyInv, KeysUnique
  <1>9. AuditMatchesRows'
    <2> DEFINE e == <<"location_created", l>>
    <2>1. audit' = audit \cup {e} /\ e[1] = "location_created" /\ e[2] = l
      BY <1>1
    <2> HIDE DEF e
    <2>2. Told(audit', "location_created") = NewLocations'
      <3>1. l \notin DOMAIN MigratedLocations
        BY <1>1 DEF HierarchyInv, TablesSound
      <3>2. Told(audit, "location_created") = NewLocations
        BY AuditTells DEF HierarchyInv
      <3>3. Told(audit', "location_created") = Told(audit, "location_created") \cup {l}
        BY <2>1, ToldMore
      <3>4. key # Null
        BY <1>3, HierarchyAssumption
      <3>5. QED
        BY <1>1, <1>4, <3>1, <3>2, <3>3, <3>4 DEF NewLocations
    <2>3. Told(audit', "client_created") = NewClients'
      <3>1. Told(audit', "client_created") = NewClients
        BY <2>1, AuditTells, ToldNoOther DEF HierarchyInv
      <3>2. QED
        BY <1>2, <3>1 DEF NewClients
    <2>4. Told(audit', "installer_profile_created") = NewProfiles'
      <3>1. Told(audit', "installer_profile_created") = NewProfiles
        BY <2>1, AuditTells, ToldNoOther DEF HierarchyInv
      <3>2. QED
        BY <1>2, <3>1 DEF NewProfiles
    <2>5. QED
      BY <2>2, <2>3, <2>4, AuditTellsNext
  <1>10. QED
    BY <1>2, <1>6, <1>7, <1>8, <1>9, HolderKept DEF HierarchyInv

LEMMA AddProfileStep ==
    ASSUME HierarchyInv, NEW w \in Workers, job[w].pc = "profile", AddProfile(w)
    PROVE  HierarchyInv' /\ RowsKept
  <1> DEFINE s == job[w].scope
  <1>1. PICK p \in ProfileIds \ DOMAIN profiles :
            /\ profiles' = Added(profiles, p, Profile(s, job[w].platform, job[w].name))
            /\ audit' = audit \cup {<<"installer_profile_created", p>>}
    BY DEF AddProfile
  <1>2. clients' = clients /\ locations' = locations /\ job' = [job EXCEPT ![w] = Idle]
    BY DEF AddProfile
  <1>3. ScopeSound(s)
    BY DEF HierarchyInv, JobsSound, JobSound, Idle
  <1>4. /\ DOMAIN profiles' = DOMAIN profiles \cup {p}
        /\ \A q \in DOMAIN profiles : profiles'[q] = profiles[q]
        /\ profiles'[p].scope = s
    BY <1>1 DEF Added, Profile
  <1> HIDE DEF s
  <1>5. RowsKept
    BY <1>2, SameRowsKept
  <1>6. TablesSound' /\ KeysUnique'
    BY <1>2 DEF HierarchyInv, TablesSound, KeysUnique
  <1>7. ProfilesSound'
    <2>1. ASSUME NEW q \in DOMAIN profiles'
          PROVE  ScopeSound(profiles[q].scope)'
      <3>1. ScopeSound(profiles'[q].scope)
        BY <1>3, <1>4 DEF HierarchyInv, ProfilesSound
      <3>2. QED
        BY <1>2, <3>1 DEF ScopeSound, OwnerMatchesAliases
    <2>2. QED
      BY <1>1, <1>4, <2>1 DEF HierarchyInv, ProfilesSound
  <1>8. AuditMatchesRows'
    <2> DEFINE e == <<"installer_profile_created", p>>
    <2>1. audit' = audit \cup {e} /\ e[1] = "installer_profile_created" /\ e[2] = p
      BY <1>1
    <2> HIDE DEF e
    <2>2. Told(audit', "installer_profile_created") = NewProfiles'
      <3>1. p \notin DOMAIN LegacyProfiles
        BY <1>1 DEF HierarchyInv, ProfilesSound
      <3>2. Told(audit, "installer_profile_created") = NewProfiles
        BY AuditTells DEF HierarchyInv
      <3>3. Told(audit', "installer_profile_created")
                = Told(audit, "installer_profile_created") \cup {p}
        BY <2>1, ToldMore
      <3>4. QED
        BY <1>4, <3>1, <3>2, <3>3 DEF NewProfiles
    <2>3. Told(audit', "client_created") = NewClients'
      <3>1. Told(audit', "client_created") = NewClients
        BY <2>1, AuditTells, ToldNoOther DEF HierarchyInv
      <3>2. QED
        BY <1>2, <3>1 DEF NewClients
    <2>4. Told(audit', "location_created") = NewLocations'
      <3>1. Told(audit', "location_created") = NewLocations
        BY <2>1, AuditTells, ToldNoOther DEF HierarchyInv
      <3>2. QED
        BY <1>2, <3>1 DEF NewLocations
    <2>5. QED
      BY <2>2, <2>3, <2>4, AuditTellsNext
  <1>9. QED
    BY <1>2, <1>5, <1>6, <1>7, <1>8, HolderKept DEF HierarchyInv

(* Whatever the operators of the hierarchy do, in whatever order. *)
LEMMA HierarchyStep ==
    ASSUME HierarchyInv, HierarchyNext
    PROVE  HierarchyInv' /\ RowsKept
  <1>1. PICK w \in Workers :
            Request(w) \/ InsertClient(w) \/ InsertLocation(w) \/ InsertProfile(w)
    BY Zenon DEF HierarchyNext
  <1>2. CASE Request(w)
    BY <1>2, RequestStep, SameRowsKept DEF HierarchyRows
  <1>3. ASSUME Fail(w)
        PROVE  HierarchyInv' /\ RowsKept
    BY <1>3, FailStep, SameRowsKept DEF Fail
  <1>4. CASE InsertClient(w)
    BY <1>3, <1>4, AddClientStep DEF InsertClient
  <1>5. CASE InsertLocation(w)
    BY <1>3, <1>5, AddLocationStep DEF InsertLocation
  <1>6. CASE InsertProfile(w)
    BY <1>3, <1>6, AddProfileStep DEF InsertProfile
  <1>7. QED
    BY <1>1, <1>2, <1>4, <1>5, <1>6, Zenon

-----------------------------------------------------------------------------
(* The hierarchy: what the invariant gives *)

LEMMA SoundHierarchy ==
    ASSUME HierarchyInv
    PROVE  HierarchySound
  <1>1. HierarchyTypeOK
    BY DEF HierarchyInv, TablesSound, ProfilesSound, ScopeSound, HierarchyTypeOK, AliasKeys
  <1>2. ASSUME NEW tenant \in AliasKeys, NEW site \in AliasKeys
        PROVE  Cardinality(resolve_scope(tenant, site)) = 1
    <2>1. PICK s : resolve_scope(tenant, site) = {s}
      BY ResolvedToOne DEF HierarchyInv
    <2>2. QED
      BY <2>1, FS_Singleton
  <1>3. ProfilesMatchAliases
    BY DEF HierarchyInv, ProfilesSound, ScopeSound, ProfilesMatchAliases
  <1>4. QED
    BY <1>1, <1>2, <1>3 DEF HierarchyInv, HierarchySound, AliasesResolveToOne

(* The WHERE clause of a query is the check of the handlers. *)
LEMMA ClauseChecks ==
    ASSUME NEW grants \in CallerGrants, NEW permission, NEW client, NEW location
    PROVE  scope_clause(grants, permission, client, location)
           <=> permits_scope(grants, permission, client, location)
  BY CallersAssumption DEF scope_clause, permits_scope, permits, Equals

(* Who may read a profile somewhere may read the hierarchy there. *)
LEMMA ReachesHierarchy ==
    ASSUME NEW grants \in CallerGrants, NEW c, NEW l,
           permits_scope(grants, "installer_profile.read", c, l)
    PROVE  /\ permits_scope(grants, "hierarchy.read", c, l)
           /\ client_scope_clause(grants, "hierarchy.read", c)
  <1>1. PICK g \in grants : permits(g, "installer_profile.read", c, l)
    BY DEF permits_scope
  <1>2. "hierarchy.read" \in g.permissions
    BY <1>1, CallersAssumption DEF permits
  <1>3. permits(g, "hierarchy.read", c, l)
    BY <1>1, <1>2 DEF permits
  <1>4. QED
    BY <1>1, <1>2, <1>3 DEF permits_scope, permits, Equals, client_scope_clause

LEMMA ListsShow ==
    ASSUME HierarchyInv
    PROVE  ListsShowAuthority
  <1> SUFFICES ASSUME NEW grants \in CallerGrants, NEW p \in DOMAIN profiles
               PROVE  LET s == profiles[p].scope
                          mine == permits_scope(grants, "installer_profile.read",
                                                s.client, s.location)
                      IN  /\ mine =>
                                 /\ s.client \in list_clients(grants)
                                 /\ s.location \in list_locations(grants, s.client)
                                 /\ p \in list_installer_profiles(grants, s.client, s.location)
                          /\ ~mine =>
                                 \A c \in DOMAIN clients \cup {Null},
                                    l \in DOMAIN locations \cup {Null} :
                                        p \notin list_installer_profiles(grants, c, l)
    BY DEF ListsShowAuthority
  <1> DEFINE s == profiles[p].scope
             mine == permits_scope(grants, "installer_profile.read", s.client, s.location)
  <1>1. /\ s.location \in DOMAIN locations /\ locations[s.location].client = s.client
        /\ s.client \in DOMAIN clients
    BY DEF HierarchyInv, ProfilesSound, ScopeSound, TablesSound
  <1>2. s.client # Null
    BY <1>1, CallersAssumption DEF HierarchyInv, TablesSound
  <1>3. ASSUME mine
        PROVE  /\ s.client \in list_clients(grants)
               /\ s.location \in list_locations(grants, s.client)
    BY <1>1, <1>3, ReachesHierarchy, ClauseChecks DEF list_clients, list_locations
  <1>4. ASSUME mine
        PROVE  p \in list_installer_profiles(grants, s.client, s.location)
    <2>1. FilterAllowed(grants, "installer_profile.read", s.client, s.location)
      BY <1>1, <1>2, <1>4 DEF FilterAllowed
    <2>2. Selected(profiles[p].scope, s.client, s.location)
      BY DEF Selected
    <2>3. QED
      BY <1>4, <2>1, <2>2, ClauseChecks DEF list_installer_profiles
  <1>5. ASSUME ~mine, NEW c, NEW l
        PROVE  p \notin list_installer_profiles(grants, c, l)
    BY <1>5, ClauseChecks DEF list_installer_profiles
  <1>6. QED
    BY <1>3, <1>4, <1>5

-----------------------------------------------------------------------------
(* Endpoints: rows and reports that stay sound *)

(* Endpoints are added, and keep platform, scope and device mode. *)
EndpointsKept ==
    /\ DOMAIN endpoints \subseteq DOMAIN endpoints'
    /\ \A h \in DOMAIN endpoints :
           /\ endpoints'[h].platform = endpoints[h].platform
           /\ endpoints'[h].scope = endpoints[h].scope
           /\ endpoints[h].mode = "device" => endpoints'[h].mode = "device"

LEMMA ReportKept ==
    ASSUME TablesSound, RowsKept, EndpointsKept, NEW r, ReportSound(r)
    PROVE  ReportSound(r)'
  <1>1. CASE r = Idle
    BY <1>1 DEF ReportSound
  <1>2. CASE r.pc = "insert" /\ r.host \in Hosts /\ RowSound(r.row) /\ ScopeSound(r.row.scope)
    <2>1. ScopeSound(r.row.scope)'
      BY <1>2, ScopeKept
    <2>2. RowSound(r.row)'
      BY <1>2 DEF RowSound
    <2>3. QED
      BY <1>2, <2>1, <2>2 DEF ReportSound
  <1>3. CASE r.pc = "update" /\ UpdateSound(r)
    BY <1>3 DEF ReportSound, UpdateSound, EndpointsKept, RowSound
  <1>4. CASE /\ r.pc = "posture" /\ r.host \in DOMAIN endpoints /\ r.at \in Times
             /\ Fits(r.controls, endpoints[r.host].platform)
    BY <1>4 DEF ReportSound, EndpointsKept, Fits
  <1>5. QED
    BY <1>1, <1>2, <1>3, <1>4 DEF ReportSound

LEMMA SnapshotsKept ==
    ASSUME SnapshotsSound, EndpointsKept, UNCHANGED <<snapshots, results>>
    PROVE  SnapshotsSound'
  BY DEF SnapshotsSound, EndpointsKept, Fits

LEMMA ExportKept ==
    ASSUME ExportSound, EndpointsKept, UNCHANGED <<export, snapshots, results>>
    PROVE  ExportSound'
  <1>1. ExportIsWhole'
    BY DEF ExportSound, ExportIsWhole, EndpointsKept
  <1>2. QED
    BY <1>1 DEF ExportSound, EndpointsKept

(* A step that changes no endpoint, report, snapshot or export. *)
LEMMA QuietStep ==
    ASSUME TablesSound, RowsKept, EndpointInv, UNCHANGED reportVars
    PROVE  EndpointInv' /\ EndpointsKept
  <1>1. UNCHANGED <<endpoints, snapshots, results, report, export>>
    BY DEF reportVars
  <1>2. EndpointsKept
    BY <1>1 DEF EndpointsKept
  <1>3. EndpointsSound'
    <2>1. ASSUME NEW h \in DOMAIN endpoints
          PROVE  ScopeSound(endpoints[h].scope)'
      <3>1. PICK s : s = endpoints[h].scope
        OBVIOUS
      <3>2. ScopeSound(s)'
        BY <3>1, ScopeKept DEF EndpointInv, EndpointsSound
      <3>3. QED
        BY <1>1, <3>1, <3>2 DEF ScopeSound, OwnerMatchesAliases
    <2>2. QED
      BY <1>1, <2>1 DEF EndpointInv, EndpointsSound, RowSound
  <1>4. ReportsSound'
    <2>1. ASSUME NEW k \in Handlers
          PROVE  ReportSound(report[k])'
      <3>1. PICK r : r = report[k]
        OBVIOUS
      <3>2. ReportSound(r)'
        BY <1>2, <3>1, ReportKept DEF EndpointInv, ReportsSound
      <3>3. QED
        BY <1>1, <3>1, <3>2
    <2>2. QED
      BY <1>1, <2>1 DEF EndpointInv, ReportsSound
  <1>5. QED
    BY <1>1, <1>2, <1>3, <1>4, SnapshotsKept, ExportKept DEF EndpointInv

-----------------------------------------------------------------------------
(* Endpoints: steps *)

(* A step that approves nobody leaves who waits waiting. *)
PendingKept ==
    \A h \in DOMAIN endpoints :
        endpoints[h].status = "pending" => endpoints'[h].status = "pending"

(* Snapshots are appended. *)
SnapshotsGrow ==
    /\ Len(snapshots) <= Len(snapshots')
    /\ \A i \in 1..Len(snapshots) : snapshots'[i] = snapshots[i]

LEMMA SameEndpoints ==
    ASSUME UNCHANGED endpoints
    PROVE  EndpointsKept /\ PendingKept
  BY DEF EndpointsKept, PendingKept

LEMMA SameSnapshots ==
    ASSUME EndpointInv, UNCHANGED snapshots
    PROVE  SnapshotsGrow
  BY DEF EndpointInv, SnapshotsSound, SnapshotsGrow

LEMMA ReportsNext ==
    ASSUME TablesSound, RowsKept, EndpointsKept, DOMAIN report' = Handlers,
           \A k \in Handlers : ReportSound(report'[k])
    PROVE  ReportsSound'
  <1>1. ASSUME NEW k \in Handlers
        PROVE  ReportSound(report[k])'
    <2>1. PICK r : r = report'[k]
      OBVIOUS
    <2>2. ReportSound(r)'
      BY <2>1, ReportKept
    <2>3. QED
      BY <2>1, <2>2
  <1>2. QED
    BY <1>1 DEF ReportsSound

(* One report begins or ends. *)
LEMMA ReportSet ==
    ASSUME TablesSound, RowsKept, EndpointsKept, ReportsSound,
           NEW k \in Handlers, NEW r, ReportSound(r), report' = [report EXCEPT ![k] = r]
    PROVE  ReportsSound'
  <1>1. DOMAIN report' = Handlers
    BY DEF ReportsSound
  <1>2. \A j \in Handlers : ReportSound(report'[j])
    BY DEF ReportsSound
  <1>3. QED
    BY <1>1, <1>2, ReportsNext

LEMMA ReportEnds ==
    ASSUME TablesSound, RowsKept, EndpointsKept, ReportsSound, NEW k \in Handlers, End(k)
    PROVE  ReportsSound'
  <1>1. ReportSound(Idle)
    BY DEF ReportSound
  <1>2. QED
    BY <1>1, ReportSet DEF End

(* Rows of endpoints that are checked one by one. *)
LEMMA EndpointsNext ==
    ASSUME TablesSound, RowsKept, DOMAIN endpoints' \subseteq Hosts,
           \A h \in DOMAIN endpoints' :
               RowSound(endpoints'[h]) /\ ScopeSound(endpoints'[h].scope)
    PROVE  EndpointsSound'
  <1>1. ASSUME NEW h \in DOMAIN endpoints'
        PROVE  RowSound(endpoints[h])' /\ ScopeSound(endpoints[h].scope)'
    <2>1. PICK s : s = endpoints'[h].scope
      OBVIOUS
    <2>2. ScopeSound(s)'
      BY <2>1, ScopeKept
    <2>3. RowSound(endpoints[h])'
      BY DEF RowSound
    <2>4. QED
      BY <2>1, <2>2, <2>3 DEF ScopeSound, OwnerMatchesAliases
  <1>2. QED
    BY <1>1 DEF EndpointsSound

LEMMA BeginStep ==
    ASSUME TablesSound, EndpointInv, NEW k \in Handlers, NEW r, ReportSound(r), Begin(k, r)
    PROVE  EndpointInv'
  <1>1. /\ report' = [report EXCEPT ![k] = r]
        /\ UNCHANGED <<clients, locations, endpoints, snapshots, results, export>>
    BY DEF Begin, hierarchyVars
  <1>2. RowsKept /\ EndpointsKept
    BY <1>1, SameRowsKept, SameEndpoints
  <1>3. EndpointsSound'
    BY <1>1, <1>2, EndpointsNext DEF EndpointInv, EndpointsSound
  <1>4. ReportsSound'
    BY <1>1, <1>2, ReportSet DEF EndpointInv
  <1>5. QED
    BY <1>1, <1>2, <1>3, <1>4, SnapshotsKept, ExportKept DEF EndpointInv

-----------------------------------------------------------------------------
(* Reports that begin *)

LEMMA EndpointShape ==
    ASSUME NEW mode \in {"legacy_shared", "device"}, NEW platform, NEW scope,
           NEW status \in {"pending", "active"}, mode = "legacy_shared" => status = "active"
    PROVE  LET row == Endpoint(mode, platform, scope, status) IN
           /\ RowSound(row)
           /\ row.scope = scope /\ row.platform = platform
           /\ row.mode = mode /\ row.status = status
  <1> DEFINE row == Endpoint(mode, platform, scope, status)
  <1>1. /\ DOMAIN row = Columns
        /\ row.scope = scope /\ row.platform = platform /\ row.mode = mode
        /\ row.status = status
        /\ row.declared = Null /\ row.manifest = Null
        /\ row.protocol = IF mode = "device" THEN Current ELSE Legacy
    BY DEF Endpoint, Columns
  <1> HIDE DEF row
  <1>2. RowSound(row)
    BY <1>1 DEF RowSound
  <1>3. QED
    BY <1>1, <1>2 DEF row

LEMMA UpdateBegins ==
    ASSUME EndpointInv, NEW h \in DOMAIN endpoints, NEW row, RowSound(row),
           SameButCapabilities(row, endpoints[h])
    PROVE  ReportSound(Update(h, row))
  <1> DEFINE r == Update(h, row)
  <1>1. r.pc = "update" /\ r.host = h /\ r.seen = endpoints[h] /\ r.row = row
    BY DEF Update
  <1> HIDE DEF r
  <1>2. RowSound(endpoints[h])
    BY DEF EndpointInv, EndpointsSound
  <1>3. UpdateSound(r)
    BY <1>1, <1>2 DEF UpdateSound
  <1>4. QED
    BY <1>1, <1>3 DEF ReportSound, r

(* The rows that handlers assign to what they read. *)
EnrolledRow(old) == [old EXCEPT !.protocol = Legacy, !.status = "active"]
LegacyRow(old, declared) ==
    [old EXCEPT !.protocol = Legacy, !.declared = declared, !.manifest = Null,
                !.status = Alive(old)]
DeviceRow(old, declared) ==
    [old EXCEPT !.protocol = Current, !.declared = declared, !.manifest = declared,
                !.status = Alive(old)]

(* enroll_endpoint and heartbeat_endpoint of a legacy reporter assign what *)
(* is there already, but for the declared capabilities.                    *)
LEMMA EnrollWrites ==
    ASSUME NEW old, RowSound(old), old.mode # "device"
    PROVE  /\ RowSound(EnrolledRow(old))
           /\ SameButCapabilities(EnrolledRow(old), old)
  <1> DEFINE new == EnrolledRow(old)
  <1>1. /\ DOMAIN old = Columns /\ old.protocol = Legacy /\ old.status = "active"
    BY DEF RowSound
  <1>2. DOMAIN new = Columns /\ \A c \in Columns : new[c] = old[c]
    BY <1>1 DEF EnrolledRow, Columns
  <1> HIDE DEF new
  <1>3. /\ new.mode = old.mode /\ new.protocol = old.protocol /\ new.status = old.status
        /\ new.declared = old.declared /\ new.manifest = old.manifest
        /\ new.platform = old.platform
    BY <1>2 DEF Columns
  <1>4. RowSound(new)
    BY <1>2, <1>3 DEF RowSound
  <1>5. QED
    BY <1>2, <1>4 DEF SameButCapabilities, new

LEMMA LegacyWrites ==
    ASSUME NEW old, RowSound(old), old.mode # "device", NEW declared \in CapabilitySets
    PROVE  /\ RowSound(LegacyRow(old, declared))
           /\ SameButCapabilities(LegacyRow(old, declared), old)
  <1> DEFINE new == LegacyRow(old, declared)
  <1>1. /\ DOMAIN old = Columns /\ old.mode = "legacy_shared"
        /\ old.protocol = Legacy /\ old.status = "active" /\ old.manifest = Null
    BY DEF RowSound
  <1>2. Alive(old) = "active"
    BY <1>1 DEF Alive
  <1>3. /\ DOMAIN new = Columns
        /\ \A c \in Columns \ {"declared", "manifest"} : new[c] = old[c]
        /\ new.declared = declared /\ new.manifest = Null
    BY <1>1, <1>2 DEF Columns, LegacyRow
  <1> HIDE DEF new
  <1>4. /\ new.mode = "legacy_shared" /\ new.protocol = Legacy /\ new.status = "active"
    BY <1>1, <1>3 DEF Columns
  <1>5. RowSound(new)
    BY <1>3, <1>4 DEF RowSound
  <1>6. QED
    BY <1>3, <1>5 DEF SameButCapabilities, new

LEMMA DeviceWrites ==
    ASSUME NEW old, RowSound(old), old.mode = "device", NEW declared \in CapabilitySets,
           _validate_manifest_platform(declared, old.platform)
    PROVE  /\ RowSound(DeviceRow(old, declared))
           /\ SameButCapabilities(DeviceRow(old, declared), old)
  <1> DEFINE new == DeviceRow(old, declared)
  <1>1. /\ DOMAIN old = Columns /\ old.protocol = Current
        /\ old.status \in {"pending", "active"}
    BY DEF RowSound
  <1>2. Alive(old) = old.status
    BY <1>1 DEF Alive
  <1>3. /\ DOMAIN new = Columns
        /\ \A c \in Columns \ {"declared", "manifest"} : new[c] = old[c]
        /\ new.declared = declared /\ new.manifest = declared
    BY <1>1, <1>2 DEF Columns, DeviceRow
  <1> HIDE DEF new
  <1>4. /\ new.mode = "device" /\ new.protocol = Current /\ new.status = old.status
        /\ new.platform = old.platform
    BY <1>1, <1>3 DEF Columns
  <1>5. RowSound(new)
    BY <1>1, <1>3, <1>4 DEF RowSound
  <1>6. QED
    BY <1>3, <1>5 DEF SameButCapabilities, new

LEMMA EnrollStep ==
    ASSUME HierarchyInv, EndpointInv, NEW k \in Handlers, EnrollRequest(k)
    PROVE  EndpointInv' /\ UNCHANGED <<hierarchyVars, endpoints, snapshots>>
  <1>1. TablesSound /\ KeysUnique
    BY DEF HierarchyInv
  <1>2. ASSUME NEW r, ReportSound(r), Begin(k, r)
        PROVE  EndpointInv' /\ UNCHANGED <<hierarchyVars, endpoints, snapshots>>
    BY <1>1, <1>2, BeginStep DEF Begin
  <1>3. PICK h \in Hosts, platform \in Platforms, alias \in Aliases :
            EnrollNew(k, h, platform, alias) \/ EnrollAgain(k, h, platform, alias)
    BY Zenon DEF EnrollRequest
  <1>4. CASE EnrollNew(k, h, platform, alias)
    <2>1. PICK scope \in resolve_scope(Given(alias, "tenant"), Given(alias, "site")) :
              Begin(k, Insert(h, Endpoint("legacy_shared", platform, scope, "active")))
      BY <1>4 DEF EnrollNew
    <2> DEFINE row == Endpoint("legacy_shared", platform, scope, "active")
               r == Insert(h, row)
    <2>2. RowSound(row) /\ row.scope = scope
      BY EndpointShape
    <2>3. ScopeSound(scope)
      BY <1>1, ResolvedSound
    <2>4. Begin(k, r)
      BY <2>1
    <2> HIDE DEF row
    <2>5. r.pc = "insert" /\ r.host = h /\ r.row = row
      BY DEF Insert
    <2> HIDE DEF r
    <2>6. ReportSound(r)
      BY <2>2, <2>3, <2>5 DEF ReportSound
    <2>7. QED
      BY <1>2, <2>4, <2>6
  <1>5. CASE EnrollAgain(k, h, platform, alias)
    <2> DEFINE row == EnrolledRow(endpoints[h])
    <2>1. /\ h \in DOMAIN endpoints /\ endpoints[h].mode # "device"
          /\ Begin(k, Update(h, row))
      BY <1>5 DEF EnrollAgain, EnrolledRow
    <2>2. RowSound(endpoints[h])
      BY <2>1 DEF EndpointInv, EndpointsSound
    <2>3. /\ RowSound(row)
          /\ SameButCapabilities(row, endpoints[h])
      BY <2>1, <2>2, EnrollWrites
    <2> HIDE DEF row
    <2>4. ReportSound(Update(h, row))
      BY <2>1, <2>3, UpdateBegins
    <2>5. QED
      BY <1>2, <2>1, <2>4
  <1>6. QED
    BY <1>3, <1>4, <1>5

(* The controls of a report are those of the platform that was read. *)
LEMMA ControlsFit ==
    ASSUME NEW keys, keys # {}, NEW platform,
           \A key \in keys : normalize_observation_control_id(key, platform) # {}
    PROVE  Fits({ControlOf[key] : key \in keys}, platform)
  <1>1. ASSUME NEW key \in keys
        PROVE  /\ ControlOf[key] \in DOMAIN ControlPlatform
               /\ ControlPlatform[ControlOf[key]] = platform
    BY DEF normalize_observation_control_id
  <1>2. QED
    BY <1>1 DEF Fits

LEMMA ReportStep ==
    ASSUME HierarchyInv, EndpointInv, NEW k \in Handlers, ReportRequest(k)
    PROVE  EndpointInv' /\ UNCHANGED <<hierarchyVars, endpoints, snapshots>>
  <1>1. TablesSound
    BY DEF HierarchyInv
  <1>2. ASSUME NEW r, ReportSound(r), Begin(k, r)
        PROVE  EndpointInv' /\ UNCHANGED <<hierarchyVars, endpoints, snapshots>>
    BY <1>1, <1>2, BeginStep DEF Begin
  <1>3. PICK h \in DOMAIN endpoints :
            \/ \E declared \in CapabilitySets :
                   LegacyHeartbeat(k, h, declared) \/ DeviceHeartbeat(k, h, declared)
            \/ \E keys \in Observations, at \in Times :
                   Len(snapshots) < MaxSnapshots /\ create_posture_snapshot(k, h, keys, at)
    BY Zenon DEF ReportRequest
  <1>4. RowSound(endpoints[h])
    BY DEF EndpointInv, EndpointsSound
  <1>5. ASSUME NEW declared \in CapabilitySets, LegacyHeartbeat(k, h, declared)
        PROVE  EndpointInv' /\ UNCHANGED <<hierarchyVars, endpoints, snapshots>>
    <2> DEFINE row == LegacyRow(endpoints[h], declared)
    <2>1. endpoints[h].mode # "device" /\ Begin(k, Update(h, row))
      BY <1>5 DEF LegacyHeartbeat, LegacyRow
    <2>2. /\ RowSound(row)
          /\ SameButCapabilities(row, endpoints[h])
      BY <1>4, <2>1, LegacyWrites
    <2> HIDE DEF row
    <2>3. ReportSound(Update(h, row))
      BY <2>2, UpdateBegins
    <2>4. QED
      BY <1>2, <2>1, <2>3
  <1>6. ASSUME NEW declared \in CapabilitySets, DeviceHeartbeat(k, h, declared)
        PROVE  EndpointInv' /\ UNCHANGED <<hierarchyVars, endpoints, snapshots>>
    <2> DEFINE row == DeviceRow(endpoints[h], declared)
    <2>1. /\ endpoints[h].mode = "device" /\ Begin(k, Update(h, row))
          /\ _validate_manifest_platform(declared, endpoints[h].platform)
      BY <1>6 DEF DeviceHeartbeat, DeviceRow
    <2>2. /\ RowSound(row)
          /\ SameButCapabilities(row, endpoints[h])
      BY <1>4, <2>1, DeviceWrites
    <2> HIDE DEF row
    <2>3. ReportSound(Update(h, row))
      BY <2>2, UpdateBegins
    <2>4. QED
      BY <1>2, <2>1, <2>3
  <1>7. ASSUME NEW keys \in Observations, NEW at \in Times,
               create_posture_snapshot(k, h, keys, at)
        PROVE  EndpointInv' /\ UNCHANGED <<hierarchyVars, endpoints, snapshots>>
    <2> DEFINE controls == {ControlOf[key] : key \in keys}
               r == [pc |-> "posture", host |-> h, at |-> at, controls |-> controls]
    <2>1. Begin(k, r) /\ Fits(controls, endpoints[h].platform)
      BY <1>7, ControlsFit DEF create_posture_snapshot
    <2> HIDE DEF controls
    <2>2. r.pc = "posture" /\ r.host = h /\ r.at = at /\ r.controls = controls
      OBVIOUS
    <2> HIDE DEF r
    <2>3. ReportSound(r)
      BY <2>1, <2>2 DEF ReportSound
    <2>4. QED
      BY <1>2, <2>1, <2>3
  <1>8. QED
    BY <1>3, <1>5, <1>6, <1>7, Zenon

-----------------------------------------------------------------------------
(* Reports that are written *)

LEMMA InsertStep ==
    ASSUME HierarchyInv, EndpointInv, NEW k \in Handlers, InsertEndpoint(k)
    PROVE  EndpointInv' /\ EndpointsKept /\ PendingKept
  <1> DEFINE h == report[k].host
             row == report[k].row
  <1>1. /\ endpoints' = Added(endpoints, h, row)
        /\ UNCHANGED <<clients, locations, snapshots, results, export>>
        /\ End(k) /\ report[k].pc = "insert"
    BY DEF InsertEndpoint, hierarchyVars
  <1>2. h \in Hosts /\ RowSound(row) /\ ScopeSound(row.scope)
    <2>1. ReportSound(report[k])
      BY DEF EndpointInv, ReportsSound
    <2>2. QED
      BY <1>1, <2>1 DEF ReportSound, Idle
  <1>3. /\ DOMAIN endpoints' = DOMAIN endpoints \cup {h}
        /\ \A g \in DOMAIN endpoints : endpoints'[g] = endpoints[g]
        /\ h \notin DOMAIN endpoints => endpoints'[h] = row
    BY <1>1 DEF Added
  <1> HIDE DEF h, row
  <1>4. TablesSound /\ RowsKept
    BY <1>1, SameRowsKept DEF HierarchyInv
  <1>5. EndpointsKept /\ PendingKept
    BY <1>3 DEF EndpointsKept, PendingKept
  <1>6. EndpointsSound'
    <2>1. ASSUME NEW g \in DOMAIN endpoints'
          PROVE  RowSound(endpoints'[g]) /\ ScopeSound(endpoints'[g].scope)
      BY <1>2, <1>3 DEF EndpointInv, EndpointsSound
    <2>2. DOMAIN endpoints' \subseteq Hosts
      BY <1>2, <1>3 DEF EndpointInv, EndpointsSound
    <2>3. QED
      BY <1>4, <2>1, <2>2, EndpointsNext
  <1>7. ReportsSound'
    BY <1>1, <1>4, <1>5, ReportEnds DEF EndpointInv
  <1>8. QED
    BY <1>1, <1>5, <1>6, <1>7, SnapshotsKept, ExportKept DEF EndpointInv

(* The columns a late write changes, whatever became of the row since.     *)
LEMMA WrittenRow ==
    ASSUME NEW old, NEW seen, NEW row, RowSound(old), RowSound(seen), RowSound(row),
           SameButCapabilities(row, seen),
           seen.platform = old.platform, seen.mode = "device" => old.mode = "device", NEW new,
           new = [c \in DOMAIN old |->
                    IF c \in {d \in DOMAIN row : row[d] # seen[d]} THEN row[c] ELSE old[c]]
    PROVE  /\ RowSound(new)
           /\ SameButCapabilities(new, old)
  <1>1. DOMAIN new = Columns /\ DOMAIN old = Columns /\ DOMAIN row = Columns
    BY DEF RowSound
  <1>2. SameButCapabilities(new, old)
    BY <1>1 DEF SameButCapabilities
  <1>3. /\ new.mode = old.mode /\ new.platform = old.platform /\ new.status = old.status
        /\ new.protocol = old.protocol
    BY <1>2 DEF Columns, SameButCapabilities
  <1>4. new.declared \in {row.declared, old.declared}
    BY <1>1 DEF Columns
  <1>5. /\ new.manifest \in {row.manifest, old.manifest}
        /\ row.manifest = seen.manifest => new.manifest = old.manifest
    BY <1>1 DEF Columns
  <1>6. row.mode = seen.mode /\ row.platform = old.platform
    BY DEF Columns, SameButCapabilities
  <1>7. old.mode # "device" => new.manifest = Null
    BY <1>5, <1>6 DEF RowSound
  <1>8. new.manifest # Null => _validate_manifest_platform(new.manifest, new.platform)
    BY <1>3, <1>5, <1>6 DEF RowSound
  <1>9. RowSound(new)
    BY <1>1, <1>3, <1>4, <1>5, <1>7, <1>8 DEF RowSound
  <1>10. QED
    BY <1>2, <1>9

LEMMA UpdateStep ==
    ASSUME HierarchyInv, EndpointInv, NEW k \in Handlers, UpdateEndpoint(k)
    PROVE  EndpointInv' /\ EndpointsKept /\ PendingKept
  <1> DEFINE r == report[k]
             old == endpoints[r.host]
             new == [c \in DOMAIN old |->
                       IF c \in {d \in DOMAIN r.row : r.row[d] # r.seen[d]}
                       THEN r.row[c] ELSE old[c]]
  <1>1. /\ endpoints' = [endpoints EXCEPT ![r.host] = new]
        /\ UNCHANGED <<clients, locations, snapshots, results, export>>
        /\ End(k) /\ r.pc = "update"
    BY DEF UpdateEndpoint, hierarchyVars
  <1>2. UpdateSound(r)
    <2>1. ReportSound(report[k])
      BY DEF EndpointInv, ReportsSound
    <2>2. QED
      BY <1>1, <2>1 DEF ReportSound, Idle
  <1>3. r.host \in DOMAIN endpoints /\ RowSound(old) /\ ScopeSound(old.scope)
    BY <1>2 DEF UpdateSound, EndpointInv, EndpointsSound
  <1>4. RowSound(new) /\ SameButCapabilities(new, old)
    BY <1>2, <1>3, WrittenRow DEF UpdateSound
  <1> HIDE DEF new
  <1>5. /\ new.mode = old.mode /\ new.platform = old.platform /\ new.status = old.status
        /\ new.scope = old.scope
    BY <1>4 DEF Columns, SameButCapabilities
  <1>6. /\ DOMAIN endpoints' = DOMAIN endpoints
        /\ \A h \in DOMAIN endpoints : h # r.host => endpoints'[h] = endpoints[h]
        /\ endpoints'[r.host] = new
    BY <1>1, <1>3
  <1>7. TablesSound /\ RowsKept
    BY <1>1, SameRowsKept DEF HierarchyInv
  <1> HIDE DEF r
  <1>8. EndpointsKept /\ PendingKept
    BY <1>5, <1>6 DEF EndpointsKept, PendingKept
  <1>9. EndpointsSound'
    <2>1. ASSUME NEW g \in DOMAIN endpoints'
          PROVE  RowSound(endpoints'[g]) /\ ScopeSound(endpoints'[g].scope)
      BY <1>3, <1>4, <1>5, <1>6 DEF EndpointInv, EndpointsSound
    <2>2. QED
      BY <1>6, <1>7, <2>1, EndpointsNext DEF EndpointInv, EndpointsSound
  <1>10. ReportsSound'
    BY <1>1, <1>7, <1>8, ReportEnds DEF EndpointInv
  <1>11. QED
    BY <1>1, <1>8, <1>9, <1>10, SnapshotsKept, ExportKept DEF EndpointInv

LEMMA SnapshotStep ==
    ASSUME HierarchyInv, EndpointInv, NEW k \in Handlers, InsertSnapshot(k)
    PROVE  EndpointInv' /\ SnapshotsGrow
  <1> DEFINE r == report[k]
             row == [host |-> r.host, at |-> r.at]
             n == Len(snapshots)
  <1>1. /\ snapshots' = Append(snapshots, row) /\ results' = Append(results, r.controls)
        /\ UNCHANGED <<clients, locations, endpoints, export>>
        /\ End(k) /\ r.pc = "posture"
    BY DEF InsertSnapshot, hierarchyVars
  <1>2. /\ r.host \in DOMAIN endpoints /\ r.at \in Times
        /\ Fits(r.controls, endpoints[r.host].platform)
    <2>1. ReportSound(report[k])
      BY DEF EndpointInv, ReportsSound
    <2>2. QED
      BY <1>1, <2>1 DEF ReportSound, Idle
  <1>3. /\ row \in [host : Hosts, at : Times] /\ row.host = r.host
        /\ r.controls \in SUBSET DOMAIN ControlPlatform
    BY <1>2 DEF EndpointInv, EndpointsSound, Fits
  <1>4. /\ snapshots \in Seq([host : Hosts, at : Times])
        /\ results \in Seq(SUBSET DOMAIN ControlPlatform)
        /\ Len(results) = n /\ n \in Nat
    BY DEF EndpointInv, SnapshotsSound
  <1> HIDE DEF r, row
  <1>5. /\ snapshots' \in Seq([host : Hosts, at : Times])
        /\ Len(snapshots') = n + 1 /\ snapshots'[n + 1] = row
        /\ \A i \in 1..n : snapshots'[i] = snapshots[i]
    BY <1>1, <1>3, <1>4
  <1>6. /\ results' \in Seq(SUBSET DOMAIN ControlPlatform)
        /\ Len(results') = n + 1 /\ results'[n + 1] = r.controls
        /\ \A i \in 1..n : results'[i] = results[i]
    BY <1>1, <1>3, <1>4
  <1>7. TablesSound /\ RowsKept /\ EndpointsKept
    BY <1>1, SameRowsKept, SameEndpoints DEF HierarchyInv
  <1>8. SnapshotsSound'
    <2>1. ASSUME NEW i \in 1..(n + 1)
          PROVE  /\ snapshots'[i].host \in DOMAIN endpoints
                 /\ Fits(results'[i], endpoints[snapshots'[i].host].platform)
      <3>1. CASE i = n + 1
        BY <1>2, <1>3, <1>5, <1>6, <3>1
      <3>2. CASE i # n + 1
        <4>1. i \in 1..n
          BY <1>4, <3>2
        <4>2. QED
          BY <1>5, <1>6, <4>1 DEF EndpointInv, SnapshotsSound
      <3>3. QED
        BY <3>1, <3>2
    <2>2. ASSUME NEW i \in 1..(n + 1)
          PROVE  Fits(results[i], endpoints[snapshots[i].host].platform)'
      BY <1>1, <2>1 DEF Fits
    <2>3. QED
      BY <1>1, <1>5, <1>6, <2>1, <2>2 DEF SnapshotsSound
  <1>9. EndpointsSound'
    BY <1>1, <1>7, EndpointsNext DEF EndpointInv, EndpointsSound
  <1>10. ReportsSound'
    BY <1>1, <1>7, ReportEnds DEF EndpointInv
  <1>11. ExportSound'
    <2>1. export.snapshots \subseteq 1..n /\ 1..n \subseteq 1..(n + 1)
      BY <1>4 DEF EndpointInv, ExportSound
    <2>2. ExportIsWhole'
      BY <1>1, <1>5, <1>6, <2>1 DEF EndpointInv, ExportSound, ExportIsWhole
    <2>3. QED
      BY <1>1, <1>5, <2>1, <2>2 DEF EndpointInv, ExportSound
  <1>12. SnapshotsGrow
    BY <1>4, <1>5 DEF SnapshotsGrow
  <1>13. QED
    BY <1>8, <1>9, <1>10, <1>11, <1>12 DEF EndpointInv

-----------------------------------------------------------------------------
(* Exchange, approval and export *)

(* A row becomes another one of the same endpoint, or a new one. *)
LEMMA RowSet ==
    ASSUME TablesSound, RowsKept, EndpointInv, NEW h \in Hosts, NEW row, RowSound(row),
           ScopeSound(row.scope),
           h \in DOMAIN endpoints =>
               /\ row.platform = endpoints[h].platform /\ row.scope = endpoints[h].scope
               /\ endpoints[h].mode = "device" => row.mode = "device",
           DOMAIN endpoints' = DOMAIN endpoints \cup {h}, endpoints'[h] = row,
           \A g \in DOMAIN endpoints : g # h => endpoints'[g] = endpoints[g],
           UNCHANGED <<snapshots, results, report, export>>
    PROVE  EndpointInv' /\ EndpointsKept
  <1>1. EndpointsKept
    BY DEF EndpointsKept
  <1>2. EndpointsSound'
    <2>1. ASSUME NEW g \in DOMAIN endpoints'
          PROVE  RowSound(endpoints'[g]) /\ ScopeSound(endpoints'[g].scope)
      BY DEF EndpointInv, EndpointsSound
    <2>2. DOMAIN endpoints' \subseteq Hosts
      BY DEF EndpointInv, EndpointsSound
    <2>3. QED
      BY <2>1, <2>2, EndpointsNext
  <1>3. ReportsSound'
    BY <1>1, ReportsNext DEF EndpointInv, ReportsSound
  <1>4. QED
    BY <1>1, <1>2, <1>3, SnapshotsKept, ExportKept DEF EndpointInv

LEMMA ExchangeStep ==
    ASSUME HierarchyInv, EndpointInv, NEW h \in Hosts, NEW platform,
           NEW l \in DOMAIN locations, NEW policy, Exchange(h, platform, l, policy)
    PROVE  EndpointInv' /\ EndpointsKept /\ PendingKept
  <1> DEFINE status == IF policy = "approved" THEN "active" ELSE "pending"
             here == Scope(l, clients[locations[l].client].key, locations[l].key)
             scope == IF h \in DOMAIN endpoints THEN endpoints[h].scope ELSE here
             row == Endpoint("device", platform, scope, status)
  <1>1. /\ endpoints' = [Added(endpoints, h, row) EXCEPT ![h] = row]
        /\ UNCHANGED <<clients, locations, snapshots, results, report, export>>
        /\ h \in DOMAIN endpoints => /\ endpoints[h].mode = "legacy_shared"
                                     /\ endpoints[h].platform = platform
    BY DEF Exchange, hierarchyVars
  <1>2. ScopeSound(here)
    BY DEF Scope, ScopeSound, OwnerMatchesAliases
  <1>3. ScopeSound(scope)
    BY <1>2 DEF EndpointInv, EndpointsSound
  <1>4. /\ RowSound(row) /\ row.scope = scope /\ row.platform = platform
        /\ row.mode = "device"
    BY EndpointShape
  <1> HIDE DEF row
  <1>5. /\ DOMAIN endpoints' = DOMAIN endpoints \cup {h} /\ endpoints'[h] = row
        /\ \A g \in DOMAIN endpoints : g # h => endpoints'[g] = endpoints[g]
    BY <1>1 DEF Added
  <1>6. TablesSound /\ RowsKept
    BY <1>1, SameRowsKept DEF HierarchyInv
  <1>7. h \in DOMAIN endpoints => scope = endpoints[h].scope
    OBVIOUS
  <1> HIDE DEF scope
  <1>8. EndpointInv' /\ EndpointsKept
    BY <1>1, <1>3, <1>4, <1>5, <1>6, <1>7, RowSet
  <1>9. PendingKept
    BY <1>1, <1>5 DEF PendingKept, EndpointInv, EndpointsSound, RowSound
  <1>10. QED
    BY <1>8, <1>9

LEMMA ApproveStep ==
    ASSUME HierarchyInv, EndpointInv, NEW grants, NEW h \in DOMAIN endpoints,
           approve_pending_endpoint(grants, h)
    PROVE  /\ EndpointInv' /\ EndpointsKept
           /\ \A g \in DOMAIN endpoints : g # h => endpoints'[g] = endpoints[g]
  <1> DEFINE old == endpoints[h]
             row == [old EXCEPT !.status = IF @ = "pending" THEN "active" ELSE @]
  <1>1. /\ endpoints' = [endpoints EXCEPT ![h] = row]
        /\ UNCHANGED <<clients, locations, snapshots, results, report, export>>
    BY DEF approve_pending_endpoint
  <1>2. RowSound(old) /\ ScopeSound(old.scope) /\ h \in Hosts
    BY DEF EndpointInv, EndpointsSound
  <1>3. /\ DOMAIN row = Columns
        /\ \A c \in Columns \ {"status"} : row[c] = old[c]
        /\ row.status = "active"
    BY <1>2 DEF RowSound, Columns
  <1> HIDE DEF row
  <1>4. /\ row.mode = old.mode /\ row.platform = old.platform /\ row.scope = old.scope
        /\ row.protocol = old.protocol /\ row.declared = old.declared
        /\ row.manifest = old.manifest
    BY <1>3 DEF Columns
  <1>5. RowSound(row)
    BY <1>2, <1>3, <1>4 DEF RowSound
  <1>6. /\ DOMAIN endpoints' = DOMAIN endpoints \cup {h} /\ endpoints'[h] = row
        /\ \A g \in DOMAIN endpoints : g # h => endpoints'[g] = endpoints[g]
    BY <1>1
  <1>7. TablesSound /\ RowsKept
    BY <1>1, SameRowsKept DEF HierarchyInv
  <1>8. QED
    BY <1>1, <1>2, <1>4, <1>5, <1>6, <1>7, RowSet

(* Only the export changes. *)
LEMMA ExportSet ==
    ASSUME HierarchyInv, EndpointInv, ExportSound',
           UNCHANGED <<clients, locations, endpoints, snapshots, results, report>>
    PROVE  EndpointInv'
  <1>1. TablesSound /\ RowsKept /\ EndpointsKept
    BY SameRowsKept, SameEndpoints DEF HierarchyInv
  <1>2. EndpointsSound'
    BY <1>1, EndpointsNext DEF EndpointInv, EndpointsSound
  <1>3. ReportsSound'
    BY <1>1, ReportsNext DEF EndpointInv, ReportsSound
  <1>4. QED
    BY <1>1, <1>2, <1>3, SnapshotsKept DEF EndpointInv

LEMMA ExportEndpointsStep ==
    ASSUME HierarchyInv, EndpointInv, NEW grants \in CallerGrants, NEW c, NEW l,
           ExportEndpoints(grants, c, l)
    PROVE  EndpointInv' /\ UNCHANGED <<hierarchyVars, endpoints, snapshots>>
  <1> DEFINE P == "compliance_evidence.export"
             chosen == {h \in DOMAIN endpoints :
                          /\ scope_clause(grants, P, endpoints[h].scope.client,
                                          endpoints[h].scope.location)
                          /\ Selected(endpoints[h].scope, c, l)}
  <1>1. /\ export' = [NoExport EXCEPT !.pc = "snapshots", !.grants = grants,
                                      !.endpoints = chosen]
        /\ UNCHANGED <<hierarchyVars, endpoints, snapshots, results, report>>
    BY DEF ExportEndpoints
  <1>2. /\ chosen \subseteq DOMAIN endpoints
        /\ \A h \in chosen : permits_scope(grants, P, endpoints[h].scope.client,
                                           endpoints[h].scope.location)
    BY ClauseChecks
  <1> HIDE DEF chosen
  <1>3. /\ DOMAIN export' = {"pc", "grants", "endpoints", "snapshots", "results"}
        /\ export'.pc = "snapshots" /\ export'.grants = grants
        /\ export'.endpoints = chosen /\ export'.snapshots = {}
    BY <1>1 DEF NoExport
  <1>4. ExportIsWhole'
    BY <1>1, <1>2, <1>3 DEF ExportIsWhole
  <1>5. ExportSound'
    BY <1>1, <1>2, <1>3, <1>4 DEF ExportSound
  <1>6. QED
    BY <1>1, <1>5, ExportSet DEF hierarchyVars

LEMMA ExportSnapshotsStep ==
    ASSUME HierarchyInv, EndpointInv, ExportSnapshots
    PROVE  EndpointInv' /\ UNCHANGED <<hierarchyVars, endpoints, snapshots>>
  <1> DEFINE chosen == {i \in DOMAIN snapshots : snapshots[i].host \in export.endpoints}
  <1>1. /\ export' = [export EXCEPT !.pc = "results", !.snapshots = chosen]
        /\ UNCHANGED <<hierarchyVars, endpoints, snapshots, results, report>>
    BY DEF ExportSnapshots
  <1>2. /\ chosen \subseteq 1..Len(snapshots)
        /\ \A i \in chosen : snapshots[i].host \in export.endpoints
    BY DEF EndpointInv, SnapshotsSound
  <1> HIDE DEF chosen
  <1>3. ExportSound
    BY DEF EndpointInv
  <1>4. /\ DOMAIN export' = {"pc", "grants", "endpoints", "snapshots", "results"}
        /\ export'.pc = "results" /\ export'.grants = export.grants
        /\ export'.endpoints = export.endpoints /\ export'.snapshots = chosen
    BY <1>1, <1>3 DEF ExportSound
  <1>5. ExportIsWhole'
    BY <1>1, <1>2, <1>3, <1>4 DEF ExportSound, ExportIsWhole
  <1>6. ExportSound'
    BY <1>1, <1>2, <1>3, <1>4, <1>5 DEF ExportSound
  <1>7. QED
    BY <1>1, <1>6, ExportSet DEF hierarchyVars

(* Results are committed with their snapshot, so none is missing. *)
LEMMA ExportResultsStep ==
    ASSUME HierarchyInv, EndpointInv, ExportResults
    PROVE  EndpointInv' /\ UNCHANGED <<endpoints, snapshots>>
  <1> DEFINE found == [i \in export.snapshots |-> results[i]]
  <1>1. /\ export' = [export EXCEPT !.pc = "done", !.results = found]
        /\ UNCHANGED <<clients, locations, endpoints, snapshots, results, report>>
    BY DEF ExportResults
  <1>2. ExportSound
    BY DEF EndpointInv
  <1>3. \A i \in export.snapshots : found[i] = results[i] /\ results[i] # {}
    BY <1>2 DEF EndpointInv, SnapshotsSound, ExportSound, Fits
  <1> HIDE DEF found
  <1>4. /\ DOMAIN export' = {"pc", "grants", "endpoints", "snapshots", "results"}
        /\ export'.grants = export.grants /\ export'.endpoints = export.endpoints
        /\ export'.snapshots = export.snapshots /\ export'.results = found
    BY <1>1, <1>2 DEF ExportSound
  <1>5. ExportIsWhole'
    BY <1>1, <1>2, <1>3, <1>4 DEF ExportSound, ExportIsWhole
  <1>6. ExportSound'
    BY <1>1, <1>2, <1>4, <1>5 DEF ExportSound
  <1>7. QED
    BY <1>1, <1>6, ExportSet

-----------------------------------------------------------------------------
(* All steps *)

(* An event about endpoints or evidence says nothing of the hierarchy. *)
LEMMA OtherEvent ==
    ASSUME HierarchyInv, UNCHANGED <<clients, locations, profiles, job>>, NEW e,
           audit' = audit \cup {e},
           e[1] \notin {"client_created", "location_created", "installer_profile_created"}
    PROVE  HierarchyInv'
  <1>1. TablesSound' /\ KeysUnique'
    BY DEF HierarchyInv, TablesSound, KeysUnique
  <1>2. ProfilesSound'
    BY DEF HierarchyInv, ProfilesSound, ScopeSound, OwnerMatchesAliases
  <1>3. JobsSound'
    BY DEF HierarchyInv, JobsSound, JobSound, ScopeSound, OwnerMatchesAliases
  <1>4. AuditMatchesRows'
    <2>1. /\ Told(audit', "client_created") = NewClients
          /\ Told(audit', "location_created") = NewLocations
          /\ Told(audit', "installer_profile_created") = NewProfiles
      BY ToldNoOther, AuditTells DEF HierarchyInv
    <2>2. QED
      BY <2>1, AuditTellsNext DEF NewClients, NewLocations, NewProfiles
  <1>5. QED
    BY <1>1, <1>2, <1>3, <1>4 DEF HierarchyInv

LEMMA SameHierarchy ==
    ASSUME HierarchyInv, UNCHANGED hierarchyVars
    PROVE  HierarchyInv'
  <1>1. UNCHANGED <<clients, locations, profiles, audit, job>>
    BY DEF hierarchyVars
  <1>2. TablesSound' /\ KeysUnique' /\ AuditMatchesRows'
    BY <1>1 DEF HierarchyInv, TablesSound, KeysUnique, AuditMatchesRows
  <1>3. ProfilesSound' /\ JobsSound'
    BY <1>1 DEF HierarchyInv, ProfilesSound, JobsSound, JobSound, ScopeSound,
          OwnerMatchesAliases
  <1>4. QED
    BY <1>2, <1>3 DEF HierarchyInv

(* A pending endpoint is approved by an operator or stays pending. *)
ApprovedOrPending ==
    \A h \in DOMAIN endpoints :
        endpoints[h].status = "pending" /\ endpoints'[h].status # "pending" =>
            \E grants \in CallerGrants : approve_pending_endpoint(grants, h)

StepSound ==
    /\ HierarchyInv' /\ EndpointInv'
    /\ EndpointsKept /\ SnapshotsGrow /\ ApprovedOrPending

LEMMA HandlerStep ==
    ASSUME HierarchyInv, EndpointInv, NEW k \in Handlers,
           \/ EnrollRequest(k) \/ ReportRequest(k)
           \/ InsertEndpoint(k) \/ UpdateEndpoint(k) \/ InsertSnapshot(k)
    PROVE  StepSound
  <1>1. ASSUME UNCHANGED hierarchyVars, EndpointInv', EndpointsKept, PendingKept, SnapshotsGrow
        PROVE  StepSound
    BY <1>1, SameHierarchy DEF StepSound, ApprovedOrPending, PendingKept
  <1>2. CASE EnrollRequest(k)
    BY <1>1, <1>2, EnrollStep, SameEndpoints, SameSnapshots
  <1>3. CASE ReportRequest(k)
    BY <1>1, <1>3, ReportStep, SameEndpoints, SameSnapshots
  <1>4. CASE InsertEndpoint(k)
    BY <1>1, <1>4, InsertStep, SameSnapshots DEF InsertEndpoint
  <1>5. CASE UpdateEndpoint(k)
    BY <1>1, <1>5, UpdateStep, SameSnapshots DEF UpdateEndpoint
  <1>6. CASE InsertSnapshot(k)
    BY <1>1, <1>6, SnapshotStep, SameEndpoints DEF InsertSnapshot
  <1>7. QED
    BY <1>2, <1>3, <1>4, <1>5, <1>6

LEMMA OperatorStep ==
    ASSUME HierarchyInv, EndpointInv, OperatorRequest
    PROVE  StepSound
  <1>1. PICK grants \in CallerGrants :
            \/ \E h \in DOMAIN endpoints : approve_pending_endpoint(grants, h)
            \/ \E c \in DOMAIN clients \cup {Null}, l \in DOMAIN locations \cup {Null} :
                   MaxSnapshots > 0 /\ ExportEndpoints(grants, c, l)
    BY Zenon DEF OperatorRequest
  <1>2. ASSUME NEW h \in DOMAIN endpoints, approve_pending_endpoint(grants, h)
        PROVE  StepSound
    <2> DEFINE e == <<"endpoint_enrollment_approved", h>>
    <2>1. /\ UNCHANGED <<clients, locations, profiles, job, snapshots>>
          /\ audit' = audit \cup {e} /\ e[1] = "endpoint_enrollment_approved"
      BY <1>2 DEF approve_pending_endpoint
    <2> HIDE DEF e
    <2>2. HierarchyInv'
      BY <2>1, OtherEvent
    <2>3. /\ EndpointInv' /\ EndpointsKept
          /\ \A g \in DOMAIN endpoints : g # h => endpoints'[g] = endpoints[g]
      BY <1>2, ApproveStep
    <2>4. ApprovedOrPending
      BY <1>2, <2>3 DEF ApprovedOrPending
    <2>5. QED
      BY <2>1, <2>2, <2>3, <2>4, SameSnapshots DEF StepSound
  <1>3. ASSUME NEW c, NEW l, ExportEndpoints(grants, c, l)
        PROVE  StepSound
    BY <1>3, ExportEndpointsStep, SameHierarchy, SameEndpoints, SameSnapshots
       DEF StepSound, ApprovedOrPending, PendingKept
  <1>4. QED
    BY <1>1, <1>2, <1>3, Zenon

LEMMA EndpointStep ==
    ASSUME HierarchyInv, EndpointInv, [EndpointNext]_endpointVars
    PROVE  StepSound
  <1>1. ASSUME NEW h \in Hosts, NEW platform \in Platforms, NEW l \in DOMAIN locations,
               NEW policy \in {"pending", "approved"}, Exchange(h, platform, l, policy)
        PROVE  StepSound
    <2>1. UNCHANGED <<hierarchyVars, snapshots>>
      BY <1>1 DEF Exchange
    <2>2. QED
      BY <1>1, <2>1, ExchangeStep, SameHierarchy, SameSnapshots
         DEF StepSound, ApprovedOrPending, PendingKept
  <1>2. CASE ExportSnapshots
    BY <1>2, ExportSnapshotsStep, SameHierarchy, SameEndpoints, SameSnapshots
       DEF StepSound, ApprovedOrPending, PendingKept
  <1>3. CASE ExportResults
    <2> DEFINE e == <<"compliance_evidence_exported", Null>>
    <2>1. /\ UNCHANGED <<clients, locations, profiles, job>>
          /\ audit' = audit \cup {e} /\ e[1] = "compliance_evidence_exported"
      BY <1>3 DEF ExportResults
    <2> HIDE DEF e
    <2>2. HierarchyInv'
      BY <2>1, OtherEvent
    <2>3. QED
      BY <1>3, <2>2, ExportResultsStep, SameEndpoints, SameSnapshots
         DEF StepSound, ApprovedOrPending, PendingKept
  <1>4. ASSUME UNCHANGED reportVars, HierarchyInv', RowsKept
        PROVE  StepSound
    <2>1. UNCHANGED <<endpoints, snapshots>>
      BY <1>4 DEF reportVars
    <2>2. EndpointInv'
      BY <1>4, QuietStep DEF HierarchyInv
    <2>3. QED
      BY <1>4, <2>1, <2>2, SameEndpoints, SameSnapshots
         DEF StepSound, ApprovedOrPending, PendingKept
  <1>5. CASE HierarchyNext /\ UNCHANGED reportVars
    BY <1>4, <1>5, HierarchyStep
  <1>6. CASE UNCHANGED endpointVars
    <2>1. UNCHANGED <<hierarchyVars, reportVars>>
      BY <1>6 DEF endpointVars
    <2>2. RowsKept
      BY <2>1, SameRowsKept DEF hierarchyVars
    <2>3. QED
      BY <1>4, <2>1, <2>2, SameHierarchy
  <1>7. CASE EndpointNext
    BY <1>1, <1>2, <1>3, <1>5, <1>7, HandlerStep, OperatorStep DEF EndpointNext
  <1>8. QED
    BY <1>6, <1>7

-----------------------------------------------------------------------------
(* Theorems *)

LEMMA InitEndpoints ==
    ASSUME EndpointInit
    PROVE  HierarchyInv /\ EndpointInv
  <1>1. HierarchyInit
    BY DEF EndpointInit
  <1>2. EndpointsSound
    <2>1. ASSUME NEW h \in DOMAIN LegacyEndpoints
          PROVE  RowSound(endpoints[h]) /\ ScopeSound(endpoints[h].scope)
      <3> DEFINE scope == Backfilled(LegacyEndpoints[h].pair)
      <3>1. ScopeSound(scope)
        BY <1>1, EndpointAssumption, BackfilledSound
      <3>2. endpoints[h] = Endpoint("legacy_shared", LegacyEndpoints[h].platform, scope,
                                    "active")
        BY DEF EndpointInit
      <3> HIDE DEF scope
      <3>3. RowSound(endpoints[h]) /\ endpoints[h].scope = scope
        BY <3>2, EndpointShape
      <3>4. QED
        BY <3>1, <3>3
    <2>2. DOMAIN endpoints = DOMAIN LegacyEndpoints
      BY DEF EndpointInit
    <2>3. QED
      BY <2>1, <2>2, EndpointAssumption DEF EndpointsSound
  <1>3. ReportsSound
    BY DEF EndpointInit, ReportsSound, ReportSound
  <1>4. SnapshotsSound
    BY DEF EndpointInit, SnapshotsSound
  <1>5. ExportSound
    BY DEF EndpointInit, NoExport, ExportSound, ExportIsWhole
  <1>6. QED
    BY <1>1, <1>2, <1>3, <1>4, <1>5, InitHierarchy DEF EndpointInv

LEMMA InvariantHolds == EndpointSpec => [](HierarchyInv /\ EndpointInv)
  <1>1. EndpointInit => HierarchyInv /\ EndpointInv
    BY InitEndpoints
  <1>2. HierarchyInv /\ EndpointInv /\ [EndpointNext]_endpointVars
            => (HierarchyInv /\ EndpointInv)'
    BY EndpointStep DEF StepSound
  <1>3. QED
    BY <1>1, <1>2, PTL DEF EndpointSpec

LEMMA ElementType ==
    ASSUME NEW S, NEW seq \in Seq(S), NEW i \in 1..Len(seq)
    PROVE  seq[i] \in S
  OBVIOUS

(* Whatever clients, locations and profiles operators create at a time: an *)
(* alias has one meaning, owners match aliases, and the audit log tells    *)
(* what was created (create_client, create_location,                       *)
(* create_installer_profile, resolve_scope).                               *)
THEOREM HierarchySoundAlways == EndpointSpec => []HierarchySound
  <1>1. HierarchyInv => HierarchySound
    BY SoundHierarchy
  <1>2. QED
    BY <1>1, InvariantHolds, PTL

(* Lists lead every caller to each profile within his authority and to no  *)
(* other (list_clients, list_locations, list_installer_profiles).          *)
THEOREM ListsShowAuthorityAlways == EndpointSpec => []ListsShowAuthority
  <1>1. HierarchyInv => ListsShowAuthority
    BY ListsShow
  <1>2. QED
    BY <1>1, InvariantHolds, PTL

(* Outside quarantine the aliases of an endpoint are the keys of its       *)
(* owner, however it was enrolled or migrated (enroll_endpoint,            *)
(* exchange_enrollment_token).                                             *)
THEOREM EndpointsMatchAliasesAlways == EndpointSpec => []EndpointsMatchAliases
  <1>1. EndpointInv => EndpointsMatchAliases
    BY DEF EndpointInv, EndpointsSound, ScopeSound, EndpointsMatchAliases
  <1>2. QED
    BY <1>1, InvariantHolds, PTL

(* Snapshots and manifests are about the platform of the endpoint they are *)
(* filed under, and an export is whole and within its caller's authority   *)
(* (create_posture_snapshot, heartbeat_endpoint,                           *)
(* export_compliance_evidence).                                            *)
THEOREM EvidenceSoundAlways == EndpointSpec => []EvidenceSound
  <1>1. ASSUME HierarchyInv, EndpointInv
        PROVE  EvidenceSound
    <2>1. DOMAIN snapshots = 1..Len(snapshots) /\ DOMAIN results = 1..Len(snapshots)
      BY <1>1 DEF EndpointInv, SnapshotsSound
    <2>2. \A i \in 1..Len(snapshots) : snapshots[i] \in [host : Hosts, at : Times]
      BY <1>1, ElementType, Zenon DEF EndpointInv, SnapshotsSound
    <2>3. \A h \in DOMAIN endpoints :
              /\ endpoints[h].mode \in {"legacy_shared", "device"}
              /\ endpoints[h].status \in {"pending", "active"}
              /\ endpoints[h].scope.location \in DOMAIN locations
              /\ endpoints[h].declared \in CapabilitySets \cup {Null}
              /\ endpoints[h].manifest \in CapabilitySets \cup {Null}
      BY <1>1 DEF EndpointInv, EndpointsSound, RowSound, ScopeSound
    <2>4. EndpointTypeOK
      BY <1>1, <2>1, <2>2, <2>3 DEF EndpointTypeOK, EndpointInv, EndpointsSound, SnapshotsSound
    <2>5. ReportsFitPlatform
      BY <1>1, <2>1 DEF ReportsFitPlatform, EndpointInv, EndpointsSound, RowSound,
            SnapshotsSound, Fits
    <2>6. QED
      BY <1>1, <2>4, <2>5 DEF EvidenceSound, EndpointInv, ExportSound
  <1>2. QED
    BY <1>1, InvariantHolds, PTL

(* An endpoint never changes its client, location or aliases, whatever     *)
(* reports, migrations and operators do in whatever order.                 *)
THEOREM EndpointsNeverMoveAlways == EndpointSpec => EndpointsNeverMove
  <1>1. HierarchyInv /\ EndpointInv /\ [EndpointNext]_endpointVars
            => [\A h \in DOMAIN endpoints :
                    endpoints'[h].scope = endpoints[h].scope]_endpointVars
    BY EndpointStep DEF StepSound, EndpointsKept
  <1>2. QED
    BY <1>1, InvariantHolds, PTL DEF EndpointSpec, EndpointsNeverMove

(* A report that was read before a migration or an approval and is written *)
(* after it undoes neither (enroll_endpoint, heartbeat_endpoint).          *)
THEOREM LateReportsUndoNothingAlways == EndpointSpec => LateReportsUndoNothing
  <1>1. ASSUME HierarchyInv, EndpointInv, [EndpointNext]_endpointVars
        PROVE  \A h \in DOMAIN endpoints :
                   /\ endpoints[h].mode = "device" =>
                          endpoints'[h].mode = "device" /\ endpoints'[h].protocol = Current
                   /\ endpoints[h].status = "pending" /\ endpoints'[h].status # "pending" =>
                          \E grants \in CallerGrants : approve_pending_endpoint(grants, h)
    <2>1. EndpointInv' /\ EndpointsKept /\ ApprovedOrPending
      BY <1>1, EndpointStep DEF StepSound
    <2>2. \A h \in DOMAIN endpoints :
              endpoints[h].mode = "device" =>
                  endpoints'[h].mode = "device" /\ endpoints'[h].protocol = Current
      BY <2>1 DEF EndpointsKept, EndpointInv, EndpointsSound, RowSound
    <2>3. QED
      BY <2>1, <2>2 DEF ApprovedOrPending
  <1>2. HierarchyInv /\ EndpointInv /\ [EndpointNext]_endpointVars
            => [\A h \in DOMAIN endpoints :
                   /\ endpoints[h].mode = "device" =>
                          endpoints'[h].mode = "device" /\ endpoints'[h].protocol = Current
                   /\ endpoints[h].status = "pending" /\ endpoints'[h].status # "pending" =>
                          \E grants \in CallerGrants :
                              approve_pending_endpoint(grants, h)]_endpointVars
    BY <1>1
  <1>3. QED
    BY <1>2, InvariantHolds, PTL DEF EndpointSpec, LateReportsUndoNothing

(* The posture shown for an endpoint never gets older, in whatever order   *)
(* reports arrive (_latest_posture).                                       *)
THEOREM PostureNeverOlderAlways == EndpointSpec => PostureNeverOlder
  <1>1. ASSUME HierarchyInv, EndpointInv, [EndpointNext]_endpointVars, NEW h,
               NEW i \in _latest_posture(h), NEW j \in _latest_posture(h)'
        PROVE  snapshots'[j].at >= snapshots[i].at
    <2>1. EndpointInv' /\ SnapshotsGrow
      BY <1>1, EndpointStep DEF StepSound
    <2>2. /\ DOMAIN snapshots = 1..Len(snapshots) /\ DOMAIN snapshots' = 1..Len(snapshots')
          /\ Len(snapshots) \in Nat /\ Len(snapshots') \in Nat
      BY <1>1, <2>1 DEF EndpointInv, SnapshotsSound
    <2>3. i \in 1..Len(snapshots) /\ snapshots[i].host = h
      BY <2>2 DEF _latest_posture, SnapshotsOf
    <2>4. snapshots'[i] = snapshots[i] /\ i \in 1..Len(snapshots')
      BY <2>1, <2>2, <2>3 DEF SnapshotsGrow
    <2>5. j \in 1..Len(snapshots') /\ snapshots'[i].at <= snapshots'[j].at
      BY <2>2, <2>3, <2>4 DEF _latest_posture, SnapshotsOf
    <2>6. snapshots'[i].at \in Nat /\ snapshots'[j].at \in Nat
      <3>1. snapshots' \in Seq([host : Hosts, at : Times])
        BY <2>1 DEF EndpointInv, SnapshotsSound
      <3>2. /\ snapshots'[i] \in [host : Hosts, at : Times]
            /\ snapshots'[j] \in [host : Hosts, at : Times]
        BY <2>4, <2>5, <3>1, ElementType, Zenon
      <3>3. QED
        BY <3>2, EndpointAssumption
    <2>7. QED
      BY <2>4, <2>5, <2>6
  <1>2. HierarchyInv /\ EndpointInv /\ [EndpointNext]_endpointVars
            => [\A h \in DOMAIN endpoints : \A i \in _latest_posture(h),
                   j \in _latest_posture(h)' : snapshots'[j].at >= snapshots[i].at]_endpointVars
    BY <1>1
  <1>3. QED
    BY <1>2, InvariantHolds, PTL DEF EndpointSpec, PostureNeverOlder
=============================================================================
