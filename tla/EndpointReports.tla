--------------------------- MODULE EndpointReports ---------------------------
(***************************************************************************)
(* What agents report and the service keeps: endpoints, their heartbeats   *)
(* and posture snapshots (backend/app/api/endpoints/endpoints.py and       *)
(* posture.py), with the registry of controls (control_registry.py), the   *)
(* enrollment exchange that moves a legacy endpoint to device mode         *)
(* (device_identity.py) and the export of evidence (evidence.py).          *)
(*                                                                         *)
(* An endpoint is named by its host: agent_fingerprint is unique.  A       *)
(* handler reads the endpoint without a lock and writes it later; what it  *)
(* writes are the columns that it assigned another value than it had read  *)
(* (SQLAlchemy sends no others).  Exchange and approval lock the row and   *)
(* are one step.  Device requests were authenticated before                *)
(* (DeviceIdentity), which asks for an endpoint in device mode.            *)
(***************************************************************************)
EXTENDS Hierarchy, Naturals, Sequences

CONSTANTS
    Hosts,
    LegacyEndpoints,   \* endpoints that 0005 found: host -> [pair, platform]
    Handlers,          \* handlers that run reports
    ControlPlatform,   \* the platform of each control of the registry
    SupportedActions,  \* the actions of each control
    ControlOf,         \* lower-case observation keys, aliases too -> control
    CapabilitySets,    \* what agents declare: sets of <<id>> and <<action, control>>
    Observations,      \* sets of observation keys that agents report
    Times,             \* observed_at of reports, set by the agent
    MaxSnapshots       \* bound on snapshots

VARIABLES
    endpoints,  \* rows of endpoints, by host
    snapshots,  \* rows of posture_snapshots in the order they were committed
    results,    \* rows of posture_results: the controls of each snapshot
    report,     \* the report each handler runs
    export      \* an export of evidence under way

reportVars == <<endpoints, snapshots, results, report, export>>
endpointVars == <<hierarchyVars, reportVars>>

ASSUME EndpointAssumption ==
    /\ DOMAIN ControlPlatform = DOMAIN SupportedActions
    /\ \A key \in DOMAIN ControlOf : ControlOf[key] \in DOMAIN ControlPlatform
    /\ DOMAIN ControlPlatform \subseteq DOMAIN ControlOf
    /\ \A c \in DOMAIN ControlPlatform : ControlOf[c] = c
    /\ Times \subseteq Nat /\ MaxSnapshots \in Nat
    /\ DOMAIN LegacyEndpoints \subseteq Hosts
    /\ \A h \in DOMAIN LegacyEndpoints : LegacyEndpoints[h].pair \in LegacyPairs

Legacy == "legacy-v1"
Current == "sha-agent-v1"

Endpoint(mode, platform, scope, status) ==
    [mode |-> mode, platform |-> platform, scope |-> scope, status |-> status,
     protocol |-> IF mode = "device" THEN Current ELSE Legacy,
     declared |-> Null, manifest |-> Null]

NoExport == [pc |-> "none", grants |-> {}, endpoints |-> {}, snapshots |-> {}, results |-> << >>]

EndpointInit ==
    /\ HierarchyInit
    /\ endpoints = [h \in DOMAIN LegacyEndpoints |->
                      Endpoint("legacy_shared", LegacyEndpoints[h].platform,
                               Backfilled(LegacyEndpoints[h].pair), "active")]
    /\ snapshots = << >>
    /\ results = << >>
    /\ report = [k \in Handlers |-> Idle]
    /\ export = NoExport

EndpointTypeOK ==
    /\ DOMAIN endpoints \subseteq Hosts
    /\ \A h \in DOMAIN endpoints :
           /\ endpoints[h].mode \in {"legacy_shared", "device"}
           /\ endpoints[h].status \in {"pending", "active"}
           /\ endpoints[h].scope.location \in DOMAIN locations
           /\ endpoints[h].declared \in CapabilitySets \cup {Null}
           /\ endpoints[h].manifest \in CapabilitySets \cup {Null}
    /\ \A i \in DOMAIN snapshots :
           snapshots[i].host \in DOMAIN endpoints /\ snapshots[i].at \in Times
    /\ DOMAIN results = DOMAIN snapshots

Begin(k, r) ==
    /\ report[k] = Idle
    /\ report' = [report EXCEPT ![k] = r]
    /\ UNCHANGED <<hierarchyVars, endpoints, snapshots, results, export>>

End(k) == report' = [report EXCEPT ![k] = Idle]

-----------------------------------------------------------------------------
(* Enrollment *)

Insert(h, row) == [pc |-> "insert", host |-> h, row |-> row]
Update(h, row) == [pc |-> "update", host |-> h, seen |-> endpoints[h], row |-> row]

(* enroll_endpoint for a fingerprint that is not known. *)
EnrollNew(k, h, platform, alias) ==
    /\ h \notin DOMAIN endpoints
    /\ \E scope \in resolve_scope(Given(alias, "tenant"), Given(alias, "site")) :
           Begin(k, Insert(h, Endpoint("legacy_shared", platform, scope, "active")))

(* The aliases that were sent still name the endpoint's owner; one that    *)
(* was not sent is the one on file.                                        *)
SameOwner(old, alias) ==
    LET Sent(field) == IF field \in DOMAIN alias THEN alias[field] ELSE old[field]
    IN  DOMAIN alias # {} => old \in resolve_scope(Sent("tenant"), Sent("site"))

(* Mistake: re-enrollment moves the endpoint to what it names. *)
EnrollAnywhere(k, h, platform, alias) ==
    /\ h \in DOMAIN endpoints
    /\ endpoints[h].mode # "device"
    /\ endpoints[h].platform = platform
    /\ \E scope \in resolve_scope(Given(alias, "tenant"), Given(alias, "site")) :
           Begin(k, Update(h, [endpoints[h] EXCEPT !.scope = scope]))

(* enroll_endpoint for a known fingerprint, up to its write. *)
EnrollAgain(k, h, platform, alias) ==
    /\ h \in DOMAIN endpoints
    /\ endpoints[h].mode # "device"
    /\ endpoints[h].platform = platform
    /\ SameOwner(endpoints[h].scope, alias)
    /\ Begin(k, Update(h, [endpoints[h] EXCEPT !.protocol = Legacy, !.status = "active"]))

(* The insert; the row of a request that was first with the fingerprint    *)
(* stays, and this one fails.                                              *)
InsertEndpoint(k) ==
    /\ report[k].pc = "insert"
    /\ endpoints' = Added(endpoints, report[k].host, report[k].row)
    /\ End(k)
    /\ UNCHANGED <<hierarchyVars, snapshots, results, export>>

(* Mistake: the handler writes the whole row it read. *)
UpdateWholeEndpoint(k) ==
    /\ report[k].pc = "update"
    /\ endpoints' = [endpoints EXCEPT ![report[k].host] = report[k].row]
    /\ End(k)
    /\ UNCHANGED <<hierarchyVars, snapshots, results, export>>

UpdateEndpoint(k) ==
    /\ report[k].pc = "update"
    /\ LET r == report[k]
           assigned == {c \in DOMAIN r.row : r.row[c] # r.seen[c]}
       IN  endpoints' = [endpoints EXCEPT ![r.host] =
                           [c \in DOMAIN @ |-> IF c \in assigned THEN r.row[c] ELSE @[c]]]
    /\ End(k)
    /\ UNCHANGED <<hierarchyVars, snapshots, results, export>>

(* exchange_enrollment_token, with a token for location l: it enrolls a    *)
(* new device or migrates the legacy endpoint of the same owner in place.  *)
Exchange(h, platform, l, policy) ==
    /\ locations[l].state = "active"
    /\ clients[locations[l].client].state = "active"
    /\ h \in DOMAIN endpoints =>
           /\ endpoints[h].mode = "legacy_shared"
           /\ endpoints[h].scope.location = l
           /\ endpoints[h].platform = platform
    /\ LET status == IF policy = "approved" THEN "active" ELSE "pending"
           scope == Scope(l, clients[locations[l].client].key, locations[l].key)
           row == Endpoint("device", platform,
                           IF h \in DOMAIN endpoints THEN endpoints[h].scope ELSE scope, status)
       IN  endpoints' = [Added(endpoints, h, row) EXCEPT ![h] = row]
    /\ UNCHANGED <<hierarchyVars, snapshots, results, report, export>>

(* approve_pending_endpoint *)
approve_pending_endpoint(grants, h) ==
    /\ scope_clause(grants, "endpoint.approve", endpoints[h].scope.client,
                    endpoints[h].scope.location)
    /\ endpoints' = [endpoints EXCEPT ![h].status = IF @ = "pending" THEN "active" ELSE @]
    /\ audit' = audit \cup {<<"endpoint_enrollment_approved", h>>}
    /\ UNCHANGED <<clients, locations, profiles, job, snapshots, results, report, export>>

-----------------------------------------------------------------------------
(* Heartbeats *)

(* require_control_action *)
require_control_action(control, platform, action) ==
    /\ control \in DOMAIN ControlPlatform
    /\ ControlPlatform[control] = platform
    /\ action \in SupportedActions[control]

(* _validate_manifest_platform *)
_validate_manifest_platform(manifest, platform) ==
    \A cap \in manifest : Len(cap) = 2 => require_control_action(cap[2], platform, cap[1])

(* The status a heartbeat leaves. *)
Alive(row) == IF row.mode # "device" \/ row.status # "pending" THEN "active" ELSE row.status

(* heartbeat_endpoint of a legacy reporter, up to its write. *)
LegacyHeartbeat(k, h, declared) ==
    /\ endpoints[h].mode # "device"
    /\ Begin(k, Update(h, [endpoints[h] EXCEPT
                             !.protocol = Legacy, !.declared = declared, !.manifest = Null,
                             !.status = Alive(endpoints[h])]))

(* heartbeat_endpoint of a device, which sends a manifest with the ids it  *)
(* declares (_validate_capability_manifest).                               *)
DeviceHeartbeat(k, h, declared) ==
    /\ endpoints[h].mode = "device"
    /\ _validate_manifest_platform(declared, endpoints[h].platform)
    /\ Begin(k, Update(h, [endpoints[h] EXCEPT
                             !.protocol = Current, !.declared = declared, !.manifest = declared,
                             !.status = Alive(endpoints[h])]))

-----------------------------------------------------------------------------
(* Posture *)

(* normalize_observation_control_id *)
normalize_observation_control_id(key, platform) ==
    {c \in DOMAIN ControlPlatform :
        /\ key \in DOMAIN ControlOf /\ ControlOf[key] = c
        /\ ControlPlatform[c] = platform}

(* create_posture_snapshot, up to its inserts.  Its principal is a device  *)
(* if and only if the endpoint is in device mode; it names every control   *)
(* at most once, under whatever key.                                       *)
create_posture_snapshot(k, h, keys, at) ==
    /\ endpoints[h].status # "pending"
    /\ keys # {}
    /\ \A key \in keys : normalize_observation_control_id(key, endpoints[h].platform) # {}
    /\ \A key, other \in keys : ControlOf[key] = ControlOf[other] => key = other
    /\ Begin(k, [pc |-> "posture", host |-> h, at |-> at,
                 controls |-> {ControlOf[key] : key \in keys}])

(* Mistake: the snapshot is committed before its results. *)
InsertSnapshotFirst(k) ==
    /\ report[k].pc = "posture"
    /\ Len(snapshots) < MaxSnapshots
    /\ snapshots' = Append(snapshots, [host |-> report[k].host, at |-> report[k].at])
    /\ results' = Append(results, {})
    /\ report' = [report EXCEPT ![k].pc = "results"]
    /\ UNCHANGED <<hierarchyVars, endpoints, export>>

(* Its transaction: the snapshot and its results. *)
InsertSnapshot(k) ==
    /\ report[k].pc = "posture"
    /\ Len(snapshots) < MaxSnapshots
    /\ snapshots' = Append(snapshots, [host |-> report[k].host, at |-> report[k].at])
    /\ results' = Append(results, report[k].controls)
    /\ End(k)
    /\ UNCHANGED <<hierarchyVars, endpoints, export>>

SnapshotsOf(h) == {i \in DOMAIN snapshots : snapshots[i].host = h}

(* Mistake: the latest posture is the one that arrived last. *)
_latest_arrival(h) == {i \in SnapshotsOf(h) : \A j \in SnapshotsOf(h) : j <= i}

(* _latest_posture: by observed_at; the ids that break a tie are random.   *)
_latest_posture(h) ==
    {i \in SnapshotsOf(h) : \A j \in SnapshotsOf(h) : snapshots[j].at <= snapshots[i].at}

-----------------------------------------------------------------------------
(* export_compliance_evidence, as far as it is about endpoints.  Each      *)
(* query sees what is committed when it runs.                              *)

ExportEndpoints(grants, c, l) ==
    /\ export = NoExport
    /\ has_permission(grants, "compliance_evidence.export")
    /\ FilterAllowed(grants, "compliance_evidence.export", c, l)
    /\ export' = [NoExport EXCEPT
                    !.pc = "snapshots", !.grants = grants,
                    !.endpoints = {h \in DOMAIN endpoints :
                        /\ scope_clause(grants, "compliance_evidence.export",
                                        endpoints[h].scope.client, endpoints[h].scope.location)
                        /\ Selected(endpoints[h].scope, c, l)}]
    /\ UNCHANGED <<hierarchyVars, endpoints, snapshots, results, report>>

ExportSnapshots ==
    /\ export.pc = "snapshots"
    /\ export' = [export EXCEPT
                    !.pc = "results",
                    !.snapshots = {i \in DOMAIN snapshots : snapshots[i].host \in export.endpoints}]
    /\ UNCHANGED <<hierarchyVars, endpoints, snapshots, results, report>>

(* The last query and the audit event, which are committed. *)
ExportResults ==
    /\ export.pc = "results"
    /\ export' = [export EXCEPT !.pc = "done", !.results = [i \in export.snapshots |-> results[i]]]
    /\ audit' = audit \cup {<<"compliance_evidence_exported", Null>>}
    /\ UNCHANGED <<clients, locations, profiles, job, endpoints, snapshots, results, report>>

-----------------------------------------------------------------------------
EnrollRequest(k) ==
    \E h \in Hosts, platform \in Platforms, alias \in Aliases :
        EnrollNew(k, h, platform, alias) \/ EnrollAgain(k, h, platform, alias)

ReportRequest(k) ==
    \E h \in DOMAIN endpoints :
        \/ \E declared \in CapabilitySets :
               LegacyHeartbeat(k, h, declared) \/ DeviceHeartbeat(k, h, declared)
        \/ \E keys \in Observations, at \in Times :
               Len(snapshots) < MaxSnapshots /\ create_posture_snapshot(k, h, keys, at)

OperatorRequest ==
    \E grants \in CallerGrants :
        \/ \E h \in DOMAIN endpoints : approve_pending_endpoint(grants, h)
        \/ \E c \in DOMAIN clients \cup {Null}, l \in DOMAIN locations \cup {Null} :
               MaxSnapshots > 0 /\ ExportEndpoints(grants, c, l)

EndpointNext ==
    \/ \E k \in Handlers : \/ EnrollRequest(k) \/ ReportRequest(k)
                           \/ InsertEndpoint(k) \/ UpdateEndpoint(k) \/ InsertSnapshot(k)
    \/ \E h \in Hosts, platform \in Platforms, l \in DOMAIN locations,
          policy \in {"pending", "approved"} : Exchange(h, platform, l, policy)
    \/ OperatorRequest
    \/ ExportSnapshots \/ ExportResults
    \/ HierarchyNext /\ UNCHANGED reportVars

EndpointSpec == EndpointInit /\ [][EndpointNext]_endpointVars

-----------------------------------------------------------------------------
(* Properties *)

(* Reports of a former legacy reporter, read before a migration or an      *)
(* approval and written after it, undo neither: an endpoint in device mode *)
(* stays so and speaks the current protocol, and a pending endpoint        *)
(* becomes active by an operator's approval and by nothing else            *)
(* (enroll_endpoint, heartbeat_endpoint, exchange_enrollment_token,        *)
(* approve_pending_endpoint).                                              *)
LateReportsUndoNothing ==
    [][\A h \in DOMAIN endpoints :
           /\ endpoints[h].mode = "device" =>
                  endpoints'[h].mode = "device" /\ endpoints'[h].protocol = Current
           /\ endpoints[h].status = "pending" /\ endpoints'[h].status # "pending" =>
                  \E grants \in CallerGrants : approve_pending_endpoint(grants, h)]_endpointVars

(* An endpoint never changes its client, location or aliases: what a       *)
(* report, a migration or an operator does leaves it where its enrollment  *)
(* put it ("re-enrollment cannot move an endpoint between clients or       *)
(* locations"; FleetMetadata relies on it).  The agent contract would let  *)
(* an explicit null clear an alias; the code refuses it with 409, see      *)
(* AliasCanBeCleared.                                                      *)
EndpointsNeverMove ==
    [][\A h \in DOMAIN endpoints : endpoints'[h].scope = endpoints[h].scope]_endpointVars

(* A legacy endpoint that enrolls again with a null for one of its aliases *)
(* is not refused ("optional nullable string; explicit `null` clears it",  *)
(* agent/docs/agent-contract.md of tenant_id and site_id; enroll_endpoint).*)
AliasCanBeCleared ==
    \A k \in Handlers, h \in DOMAIN endpoints, field \in {"tenant", "site"} :
        report[k] = Idle /\ endpoints[h].mode = "legacy_shared" =>
            ENABLED EnrollAgain(k, h, endpoints[h].platform, [x \in {field} |-> Null])

(* Outside quarantine the aliases of an endpoint are the keys of its owner *)
(* (enroll_endpoint, exchange_enrollment_token, migration 0005).           *)
EndpointsMatchAliases ==
    \A h \in DOMAIN endpoints : OwnerMatchesAliases(endpoints[h].scope)

(* What is on file for an endpoint is about its platform: every control of *)
(* its snapshots and every action of its manifest is one of the registry   *)
(* for that platform, although both were checked against a row read        *)
(* earlier (normalize_observation_control_id, require_control_action).     *)
ReportsFitPlatform ==
    /\ \A i \in DOMAIN snapshots, c \in DOMAIN ControlPlatform :
           c \in results[i] => ControlPlatform[c] = endpoints[snapshots[i].host].platform
    /\ \A h \in DOMAIN endpoints : endpoints[h].manifest # Null =>
           _validate_manifest_platform(endpoints[h].manifest, endpoints[h].platform)

(* A report that arrives late does not displace a newer one: the posture   *)
(* shown for an endpoint never gets older (_latest_posture).               *)
PostureNeverOlder ==
    [][\A h \in DOMAIN endpoints : \A i \in _latest_posture(h), j \in _latest_posture(h)' :
           snapshots'[j].at >= snapshots[i].at]_endpointVars

(* Evidence is exported whole: the snapshots of an export belong to the    *)
(* endpoints in it, all within the caller's authority, and each comes with *)
(* all its results, although reports are committed between the queries     *)
(* (export_compliance_evidence, create_posture_snapshot).                  *)
ExportIsWhole ==
    /\ \A h \in export.endpoints :
           permits_scope(export.grants, "compliance_evidence.export",
                         endpoints[h].scope.client, endpoints[h].scope.location)
    /\ \A i \in export.snapshots : snapshots[i].host \in export.endpoints
    /\ export.pc = "done" =>
           \A i \in export.snapshots : export.results[i] # {} /\ export.results[i] = results[i]

(* What is on file is about the endpoint it is filed under, and what is    *)
(* exported is whole (create_posture_snapshot, heartbeat_endpoint,         *)
(* export_compliance_evidence).                                            *)
EvidenceSound ==
    /\ EndpointTypeOK
    /\ ReportsFitPlatform
    /\ ExportIsWhole

(* The capabilities on file for a device are those of its manifest         *)
(* (_validate_capability_manifest: "capability_manifest IDs must exactly   *)
(* match declared_capabilities").                                          *)
ManifestMatchesDeclared ==
    \A h \in DOMAIN endpoints :
        endpoints[h].manifest # Null => endpoints[h].declared = endpoints[h].manifest
=============================================================================
