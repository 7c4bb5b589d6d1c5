# Verification of the SHA control plane and endpoint agent

SHA hardens endpoints under human approval. A FastAPI control plane
(`backend/app`, PostgreSQL, two or more replicas) keeps the fleet, the approval
boundary and the queue of approved work. A Go agent (`agent/cmd/sha-agent`) on
each endpoint enrolls itself, keeps a credential, reports, claims approved work
and executes it. Browser users, service tokens and legacy shared-token reporters
call the same API.

This directory holds TLA+ models of the parts where order, failure and
concurrency decide correctness, the TLC runs that check them on small instances,
and TLAPS proofs for every size of instance. Paths below are relative to the
repository.

    tlc -workers 2 -config MCActions.cfg MCResponseActions    # one run
    tlapm ApprovalProofs.tla                                  # proofs of one module

## 1. Inventory

| Component | State | Operations | What is hard |
|---|---|---|---|
| Approval boundary, `api/endpoints/approvals.py` | `approval_requests`, `approval_grants`, `approval_request_events` | create request; approve, deny, revoke; emergency grant; lists; `_sync_expired_grants` inside most of them | expiry is applied lazily by whoever comes next, from reads without locks, against a clock read before the transaction |
| Response actions, `api/endpoints/response_actions.py` | `response_actions` | create (idempotency key), claim (lease), complete | one UPDATE with a subquery hands out work to concurrent callers; completion is checked and written in two steps; grants die while work is queued |
| Device identity, server, `api/endpoints/device_identity.py`, `auth.py` | `enrollment_tokens`, `endpoints`, `device_credentials`, `enrollment_redemptions` | create and revoke token; exchange; identify (`/api/agent/me`); rotate; revoke credential | a retry must not enroll twice; authentication and execution are two transactions; last use of a token |
| Device identity, agent, `identity.go`, `state.go` | state file, config file | enroll, validate, rotate, reconcile | lost answers, late requests, crashes between network and disk, two processes on one state file |
| Endpoints, posture, evidence, `endpoints.py`, `posture.py`, `evidence.py` | `endpoints`, `posture_snapshots`, `posture_results` | legacy enrollment, heartbeats, approval, posture reports, export | legacy writes race with migration to device mode; late reports; an export made of several queries |
| Request authentication, `auth.py`, `agent_protocol.py` | none of its own | principal from session, device credential, service or legacy token | several credentials in one request; the principal is read before the handler's transaction; end of the legacy mode |
| Agent cycle and executors, `main.go`, `action_dispatch.go`, `service_windows.go` | a cycle in memory, the rollback file, the firewall | heartbeat, posture, claim, execute, report | a script that stops half way; a lost result; a restart before the report |
| Authorization, `authorization.py` | none of its own | `permits_scope`, `scope_clause`, `client_scope_clause` | two renderings of one rule, in Python and in SQL |
| Browser sessions, `authentication.py`, `browser_auth.py` | login transactions, sessions, identities | OIDC login and callback, refresh, logout | concurrent callbacks, users disabled meanwhile |
| Users, roles, bindings, `identity.py`, `bootstrap_admin.py` | users, roles, bindings | disable, bind, revoke, bootstrap | last administrator |
| Hierarchy and installer profiles, `hierarchy.py`, `installers.py` | clients, locations, profiles | create, resolve aliases, list | check and insert in two steps; NULL keys |
| Fleet metadata, `fleet_metadata.py` | tags, assignments, saved views and their versions, groups | create, update, remove, evaluate | version numbers and removals under concurrent requests; overlapping scopes |
| Database and migrations, `db.py`, `migrations.py`, `alembic/` | the revision and every table | upgrade, check, downgrade | replicas that start at once; table rebuilds on SQLite; databases in use between revisions |
| Installer text and packages, control registry, source packs | static data and files | render, sign, read | little: no shared state |
| Dashboard, deployment and install scripts | none the control plane relies on | presentation, packaging | outside the models |

**Interactions.** Operators and agents reach the control plane by HTTP. Response
actions read grants of the approval boundary and run its expiry synchronisation.
A claim needs an endpoint that is not pending; the exchange of an enrollment
token creates or migrates that endpoint, and an operator approves it. The agent
authenticates with the credential that the exchange or the last rotation made,
claims one action per cycle and executes it. Every request passes the middleware,
which makes a principal of what the request carries; the handler then limits what
it does and reads to the principal's grants. Clients and locations are what
grants, endpoints, profiles and fleet metadata are scoped by. The application
does not serve before the database is at the head revision.

**What makes each component correct.**

- Approval boundary: a grant lives exactly as long as its request is approved;
  nothing revoked or expired comes back; the history explains the status; expiry
  is never early.
- Response actions: work reaches an agent only under a live grant that a human
  approved and that covers it; one holder at a time; a finished action stays
  finished; a repeated creation creates nothing.
- Device identity: a token enrolls `max_uses` devices; a device has one identity;
  a device never loses the only credential the control plane accepts; a revoked
  device stays out; enrollment and rotation get done.
- Agent cycle: what SHA changed on a machine it can change back; an attempt fits
  its lease; every action is settled in the end.
- Endpoints and evidence: an endpoint stays with its owner; a late report undoes
  neither a migration nor an approval; evidence is whole and never gets older.
- People: one user per identity, one session per login; a revoked session stays
  revoked; authority goes back to the bootstrap.
- Authorization: lists, previews and changes stay within the caller's scope, and
  show all of it; each route is served to the kind of principal it is for.
- Migrations: rows fit the revision, evidence survives, nobody serves early.

The hazards behind these properties are listed, each at its line, in
`PROJECT.json`.

## 2. Modules

    ApprovalRules      pure rules: shapes, expiry bounds, coverage
      |
    Approvals          requests, decisions, grants, expiry     ApprovalProofs
      |
    ResponseActions    creation, leases, results               ResponseActionProofs
      :  implements
    ActionQueue        abstract: offered, leased, settled
      |
    AgentCycle         the agent's loop and executors          CycleProofs

    DeviceIdentity     tokens, endpoints, credentials (server)
      |
    AgentIdentity      the agent, its disk, the network        IdentityProofs

    Authorization      roles, grants, scopes
      |-- RequestAuth      middleware, routes, legacy reporters    AccessProofs
      |-- FleetMetadata    tags, saved views, dynamic groups       FleetProofs
      |-- Migrations       revisions, programs that apply them     MigrationProofs
      `-- Hierarchy        clients, locations, installer profiles
            |
          EndpointReports  endpoints, reports, evidence            ReportProofs

    HumanIdentity      logins, sessions, users, bindings       AccessProofs

Each module on the right extends the ones beside it and holds their theorems
(section 6). The `MC` modules give the constants their values for TLC. A definition whose
comment starts with "Mistake:" is no part of a specification: it is a plausible
programming error, kept beside the definition it would replace, and shows that
the property named in `PROJECT.json` notices it.

### ApprovalRules

`_validate_request_shape`, `_validate_manual_grant_shape`, `_approval_scope`,
`_validate_grant_expiry`, `_normalize_action_shape` and `_validate_grant_scope`
as predicates over an authority (endpoints, actions, controls, scopes), a time to
live and an action. Time is counted in ticks, `MinuteTicks` to the minute, so
that rounding up to a whole minute is visible.

### Approvals

| Code | Model |
|---|---|
| the three tables | `requests`, `grants`, `events` (the set of event types; the table's unique constraint allows one of each) |
| a running request handler | `txn[w]`: operation, clock reading `now`, the due grants it selected, the request statuses it saw |
| `utc_now()` before the transaction | `Call` |
| `_sync_expired_grants`: SELECT; `session.get` of each request; writes | `SyncSelect`; `SyncGet`; `SyncedGrants`, `SyncedRequests`, `SyncedEvents`, written with the commit |
| `decide_approval_request` | `Approve`, `Deny`, `Revoke` on top of `DecideRequest` |
| `create_approval_request`, `create_approval_grant` | `CreateRequest`, `CreateGrant` |
| list handlers | `SyncCommit` |
| HTTP 404/409/422 inside the transaction, constraint violation, deadlock victim, lost replica | `Abort` |

The database runs at READ COMMITTED. A read without a row lock is a step of its
own. What happens between taking a row lock and committing cannot be disturbed on
that row and is not visible before the commit, so lock, check and write are one
step. The synchronisation's UPDATEs name the primary key only; they apply to
whatever the row says at that moment, and the model lets them.

Left out: who asked, why, comments. The clocks of the replicas are one clock.

### ResponseActions

Extends `Approvals`. A worker that creates or claims is a `sync` handler there,
and what it does besides is in `work[w]`. `create_response_action` is
`StartCreate`, `CheckCreate`, then `InsertAction` or `ReplayCreate`;
`claim_endpoint_response_action` is `StartClaim`, `SelectCandidate` (the
snapshot the subquery reads), then `LeaseAction` or `ClaimNothing` (the UPDATE,
whose own WHERE PostgreSQL evaluates again when it has the row);
`complete_response_action` is `StartComplete`, `CheckComplete`, `WriteResult`.
Every refusal and failure is `AbandonWork`.

A lease token is named by the attempt number it is handed out with: tokens are
random and a claim increments `attempt_count` in the same UPDATE. What an agent
is told to do is `spec` (action, control, scope); requester and reason, which are
part of the idempotency comparison, are folded into it. `deliveries` and
`accepted` record what was answered; no decision of the model reads `accepted`,
and a completion can only name a lease that was delivered. `dead` is a note for a
property. The registry and the endpoint's declared capabilities are the constant
relation `Declared`. Status values the table allows and nothing writes
(`cancelled`, `stale`) do not occur. `endpointStatus` is what claims and results
ask of the endpoint's row: legacy mode, which is always active, or the status of
an endpoint in device mode. `MigrateEndpoint` is the exchange's effect on it (a
legacy endpoint that was active may be pending again) and `ApproveEndpoint` the
approval; both may come between the claim's check of the row, which takes no lock,
and its UPDATE, so a lease may reach an endpoint that has just been put on hold.
`NoLateLease` says that this needs a claim which began before the exchange.
SQLite, used in tests, runs the same statements one at a time and has fewer
behaviours.

### DeviceIdentity

Server side. Each handler is the transaction it runs under its row locks; the
authentication in `api_token_middleware` comes before and is a step of its own,
so a credential can be revoked in between. Endpoints are named by host, because
`agent_fingerprint` is unique and a host always sends the same one. Secrets are
carried by the ids they belong to. Time appears as two events, `ExpireToken` and
`ExpireCredential`; a handler that read the clock before the event goes on with
`live`. `Taken` are credential ids of devices outside the model, so that the
`409` of an id collision can happen. The exchange is `Exchange`: `Replays` (same
token, installation, host and credential as a redemption on record), `Redeems`,
`Conflicts` or an authentication failure.

### AgentIdentity

Extends `DeviceIdentity` with the agent and the network.

| Code | Model |
|---|---|
| device state file, replaced atomically by `stateStore.Save` | `disk[h]`: installation, credential, endpoint, rotation candidate |
| enrollment token in the config file | `config[h]` |
| a run of the binary | `proc[p]`: step, goal, state in memory, request under way |
| an HTTP call | `sent`, `Receive` (authenticated, clock read), `Serve` (executed), then the reaction to the answer |
| timeout, lost answer, 5xx, failed write, crash | `GiveUp`; a request already sent becomes an orphan |
| a request whose sender gave up | `ReceiveOrphan`, `ServeOrphan`, at any later time and, as agents repeat requests word for word, more than once |
| `ensureDeviceIdentity` | `Start`, `Prepare`, `AskExchange`, `AskAfterConflict`, `PromoteEnrollment`, `Validated`, `ClearBootstrap` |
| `rotateDeviceCredential`, `reconcilePendingRotation` | `NewCandidate`, `AskRotate`, `AskCandidate`, `PromoteRotation`, `DiscardCandidate` |
| every other answer | `Refused` |

An agent cycle after the identity is settled is the single step `EndSession`.
`validateIdentityResponse` is evaluated when the agent reacts; host and
installation of a credential never change, so the moment does not matter.

### ActionQueue, and the refinement

`ActionQueue` says what the queue of response actions promises, without workers,
transactions or grants: an action is created, leased for `LeaseTicks` to one
attempt after another, and settled by a result that was admitted while its
attempt held the lease. An admitted result may be recorded late: that is what the
code does (finding 1), and the abstract queue says so openly (`Record` needs no
lease). `ResponseActions` instantiates it as `Queue`; the rows are mapped by
`QueueRows` and the results that passed `CheckComplete` by `AdmittedResults`.
`QueueImplemented` is the abstract specification as a property of `ActionSpec`:
every interleaving of creations, claims and completions of two handlers is a
behaviour of the abstract queue or a stutter.

### AgentCycle

Extends `ActionQueue`, that is, the promise and not the handlers.

| Code | Model |
|---|---|
| `runAgent`, `runOnce`, `runEndpointCycle` | `agent`: `BeginCycle`, `ReadIdentity`, `Heartbeat`, `SendPosture`, `Claim` or `ClaimNothing`, an execution, `ReportResult` |
| `executeAction` | `ExecuteUnsupported`, `ExecuteLinuxRollback`, `ExecuteScript` with `ScriptEnded` or `KillScript` |
| the two PowerShell scripts | `scripts[a]`, a process with one step for each statement that changes the machine: `CheckArtifact`, `CreateArtifact`, `FillArtifact`, `SetProfile`, `EndApply`, `EndRollback` |
| a statement that throws, the last one failing | `CheckFails`, `RemoveFails`: the script ends with an error |
| `Set-Content` or `Get-NetFirewallProfile` reports an error | `SaveFails`: the script goes on with no file, or with part of one |
| rollback file, firewall profiles, legacy SSH file | `artifact`, `profiles`, `sshFile` |
| `Set-NetFirewallProfile` reports an error | `SetFails`: the error does not end the script |
| the live grant that a claim asks for | `lapsed`, `Offered`, `GrantLapses` |
| lost request, answer or result; slow handler; reboot or service stop; death of the agent alone | `LoseRequest`, `LoseResult`, `StallResult`, `Reboot`, `AgentDies` |

`faults` counts what went wrong, by kind. `done` records executors that ran to
their end and `original` the profiles as SHA found them, for the properties.

### Authorization

`RolePermissions`, `permits_scope`, `scope_clause` and `client_scope_clause` as
functions of grants and a row. No state of its own: the modules that extend it
state what the Python check and the SQL clause must agree on.

### HumanIdentity

A worker runs one browser request. The callback is `ConsumeLogin` (row lock),
`LearnSubject` (the provider's answer), `ReadIdentity` (unlocked reads), then
`LoginKnown` or `LoginNew`. Authentication of a cookie is a read and a later
write of the idle limit (`Refresh`), and the handler after it uses the principal
that was read. `SetStatus`, `CreateBinding`, revocations, logouts and the
bootstrap command are the handlers. The provider and the cookies' cryptography
are external; a provider names any subject, and `answered` keeps whom it named
for which login, for the properties.

### Hierarchy and EndpointReports

`Hierarchy` starts from the rows that migration 0005 makes. A creation is two
steps: the check of a key, and the insert with its audit event, which a unique
constraint may refuse. NULL keys are not unique. `resolve_scope` is the set of
answers the query may give; lists are operators over the state.

`EndpointReports` extends it with `endpoints` and what agents report. A legacy or
device report reads the row (`EnrollAgain`, `LegacyHeartbeat`, `DeviceHeartbeat`)
and later writes the columns that differ from what it had read
(`UpdateEndpoint`), which is what the ORM sends. `Exchange` and
`approve_pending_endpoint` hold the row lock and are one step each. The
compliance export is three queries, each over what is committed when it runs.

### FleetMetadata

Tags, their assignments, saved views with numbered versions, and dynamic groups,
for principals whose bindings change between and during requests. A request works
with the grants that the middleware read for it (`held`), its lists and previews
too, which are operators over the rows of any later moment. Filters are
evaluated as in `_matches_filter`; `CaseFold`, `Contains` and `StartsWith` give
the text functions on the values of the instance.

### RequestAuth

`api_token_middleware` as a function from deployment, credentials and route to a
principal or a status code (`Authenticate`), followed by the route's policy and
the handler (`Handle`), with sessions, credentials and the deadline changing in
between. A browser session needs the session key and, for changes, the public
origin (`browser` of a deployment); OIDC brings both, and without it they serve the
sessions that it left behind. Routes are the path segments that the middleware and
`SPECIAL_ROUTE_POLICIES` look at. `get_installer_artifact` is modelled up to the
decision to render.

### Migrations

Revisions 0001 to 0009, up and down, over a database of one row of each kind that
some revision touches; `DatabaseStore.prepare` in both modes with its advisory lock;
an application that adds rows at whatever revision the database is. On SQLite a
rebuild drops the table, which cascades as the foreign keys say
(`RebuildEndpoints` and its like), and the backup of 0007 is restored. Renaming
controls in 0002 and 0004 takes the aliases in the order of their tables
(`RenameAll`): a result gets the new name or, where its snapshot has a result under
that name, is deleted. An upgrade of the whole database is
`UpTo(9, ... UpTo(1, d))`. A crash loses the transaction.

On PostgreSQL the statements of an upgrade run at READ COMMITTED before the
transaction ends, while the application writes. So an upgrade is `Begin` (the
revision, and the snapshots that 0004's first SELECT can meet), `Migrate` (the
endpoints that 0007 meets; from here on the altered tables are locked) and `Commit`.
What the statements did not meet stays in the row's hidden columns: `unseen`
endpoints do not count for a derived scope, and a snapshot that came after `Begin`
has `missed` the first of the aliases, any number of them. `Unlocked(r)` is the lock
that an altered table holds against writes until the end. The advisory lock is freed
before that (`Unlock`), so that a second starter may `Begin` on the old revision; its
`Migrate` waits for the first's table locks and fails when that one committed.

## 3. Runs

| Run | Configuration | Shows |
|---|---|---|
| `approvals` | `MCApprovals.cfg` | `GrantFollowsRequest`, `HistoryExplainsStatus`, `ExpiryNotEarly`, `NoRevival`: two handlers decide, synchronise and create emergency grants from stale reads |
| `actions` | `MCActions.cfg` | `NoOverlappingLeases`, `DeliveriesAuthorised`, `CreationIsIdempotent`, `NoLateLease`, and `QueueImplemented`, the refinement of `ActionQueue` |
| `stale_result` | `MCStaleResult.cfg` | a violation, finding 1 |
| `identity` | `MCIdentity.cfg` | `OneIdentityPerDevice`, `DeviceHoldsActiveCredential`, `TokenUsesCounted`, `CutOffStaysCutOff`, and under fairness `EnrollmentCompletes`, `RotationResolves` |
| `cycle` | `MCCycle.cfg` | `RollbackPossible`, `LeaseCoversExecution`, and under fairness `EveryActionFinishes` |
| `sessions` | `MCSessions.cfg` | `LoginsSound`, `AuthorityTracesToBootstrap`, `RevokedSessionStaysRevoked` |
| `fleet` | `MCFleet.cfg` | `ScopesContain`, `VersionsInOrder`, `RemovalsAudited` |
| `reports` | `MCReports.cfg` | `EvidenceSound`, `EndpointsMatchAliases`, `EndpointsNeverMove`, `LateReportsUndoNothing`, `PostureNeverOlder` |
| `ownership` | `MCOwnership.cfg` | `HierarchySound`, `ListsShowAuthority` |
| `request_auth` | `MCRequestAuth.cfg` | `ServedWithinAuthority`, `CookieDecides`, `ArtifactCanReport` |
| `legacy_deadline` | `MCLegacyDeadline.cfg` | a violation, finding 2 |
| `migrations` | `MCMigrations.cfg` | `DatabaseFitsRevision`, `ServingIsCurrent`, `EvidenceSurvives` |

Type invariants are checked in `approvals`, `actions` and `identity` under their
own names and as the first conjunct of `LoginsSound`, `ScopesContain`,
`EvidenceSound`, `HierarchySound`, `ServedWithinAuthority` and
`DatabaseFitsRevision`, which join what belongs together; their parts are named
definitions and can be checked one by one.

The deadlock check is off in `sessions`, `fleet`, `reports` and `ownership`: ids
and requests run out there, and nobody has to send another request. Elsewhere
something can always happen.

### Findings

The first two have a run; the others have a configuration that makes TLC find the
violation in a few seconds, with the module in parentheses.

1. **A late result overwrites the active attempt** (`stale_result`,
   `response_actions.py:443`). `complete_response_action` checks status, token
   and lease expiry on an unlocked read and then updates by primary key. If the
   lease runs out and another attempt is leased in between, the late result
   completes that attempt. `docs/project-guide.md:69` says "Stale or mismatched
   completions cannot overwrite the active attempt."
2. **The legacy deadline never passes** (`legacy_deadline`,
   `agent_protocol.py:82`). After the deadline the shared token is still accepted
   whenever the deadline's year is 2026 or later. The roadmap lists "a
   deadline-bound centrally enforced shared-token kill switch" as delivered.
3. **A revoked request turns expired** (`MCTerminalRequestsStay.cfg`,
   `MCApprovals`; `approvals.py:368`). A synchronisation that read the request
   before a revocation writes `expired` over `revoked`.
   `agent/docs/agent-contract.md:326` calls these statuses terminal. Authority is
   not affected: `NoRevival` and `GrantFollowsRequest` hold.
4. **A grant may outlive the requested time** (`MCGrantWithinRequestedTtl.cfg`,
   `MCApprovals`; `approvals.py:70`). The latest `expires_at` is rounded up to a
   whole minute; `agent/docs/agent-contract.md:328` gives the bound without
   rounding. Theorem `GrantLifetime` bounds the excess: less than one minute.
5. **Two processes on one state file can lock a device out**
   (`MCSharedState.cfg`, `MCAgentIdentity`; `identity.go:371`).
   `agent/README.md:125` has operators run `-action rotate-credential` beside the
   service. Nothing serialises the two, while `agent/README.md:11` calls rotation
   loss-safe. With one process `DeviceHoldsActiveCredential` holds.
6. **A change that took effect is recorded as failed** (`MCRedelivery.cfg`,
   `MCAgentCycle`; `main.go:631`). When a result is lost the action is delivered
   again, finds the rollback file and refuses.
   `docs/architecture/current-runtime-contract.md:68`: "implemented mutations must
   remain idempotent and verified".
7. **A failed restore removes the rollback file** (`MCFailedRestore.cfg`,
   `MCAgentCycle`; `main.go:647`). `Set-NetFirewallProfile` reports a
   non-terminating error, the script goes on and reports success.
8. **A script that outlives its agent** (`MCOrphan.cfg`, `MCAgentCycle`;
   `main.go:673`) sets the profiles after the restarted agent has rolled back and
   removed the file. `README.md:21` promises a reversible action, for 7, 8 and 14.
9. **A login of a user who is being disabled** (`MCDisabledLogin.cfg`,
   `MCHumanIdentity`; `authentication.py:323`) opens a session that comes alive
   when the user is enabled again. `test_oidc_authorization.py:506` expects none.
10. **No way back for the last Admin** (`MCAdminRecovery.cfg`, `MCHumanIdentity`;
    `bootstrap_admin.py:61`): once disabled, nobody can enable a user, and the
    bootstrap refuses because the binding is still there. The roadmap lists
    "bootstrap-admin recovery".
11. **Declared capabilities beside another's manifest** (`MCManifest.cfg`,
    `MCEndpointReports`; `endpoints.py:532`): a legacy heartbeat's stale write
    leaves a pair that `endpoints.py:254` refuses in one request.
12. **Grants lose their request on SQLite** (`MCMigrationLinks.cfg`,
    `MCMigrations`; revision 0007, line 578): the rebuild drops
    `approval_requests`, the foreign key is SET NULL, and only missing rows are
    restored.
13. **An upgrade that never succeeds on SQLite** (`MCMigrationStuck.cfg`,
    `MCMigrations`; revision 0009, line 63), once an enrollment token refers to an
    installer profile.
14. **Profiles are changed without a rollback file** (`MCFailedSave.cfg`,
    `MCAgentCycle`; `main.go:632`). An error of `Get-NetFirewallProfile` or
    `Set-Content` does not end the script, which sets no
    `$ErrorActionPreference`; the next statement enables the profiles, and the
    action is reported as succeeded, "rollback saved".
15. **A legacy artifact without its token** (`MCTokenlessArtifact.cfg`,
    `MCRequestAuth`; `installers.py:164`). `docs/project-guide.md:63` says of the
    legacy scripts: "In protected mode they contain the shared agent token". A
    deployment that keeps the session key when OIDC is taken out serves the sessions
    left from before (`auth.py:199`), and with none of the operators' mechanisms
    left the artifact is rendered with no token. `ArtifactCanReport` leaves these
    sessions out.
16. **An alias is never cleared** (`MCAliasCleared.cfg`, `MCEndpointReports`;
    `endpoints.py:400`). `src/agent/docs/agent-contract.md:121` and `:122` say of
    `tenant_id` and `site_id`: "explicit `null` clears it, omission preserves current
    value on re-enroll". The code answers 409 when the null differs from what is on
    file; no re-enrollment changes an alias, which is what `EndpointsNeverMove` says.
17. **An old control name that stays** (`MCLateRename.cfg`, `MCMigrations`; revision
    0004, line 26). A report of the old application that is committed after 0004's
    SELECT and before 0005 locks the tables keeps its old names at head, and no later
    revision looks for them. `docs/architecture/current-runtime-contract.md:76` says of
    the revisions through head that they "normalize legacy Windows and
    operational-observation control IDs". `DatabaseFitsRevision` says that these
    results are the only ones.

## 4. Bounds

- Two workers: every hazard of the handlers is a race of two of them on one row;
  more handlers are covered by the proofs.
- `approvals`: two requests and two grants, so that one handler synchronises one
  pair while deciding on the other; `MaxClock` 3 with two ticks to the minute
  lets a grant be approved off the minute, be rounded, come due and be
  synchronised late. Times to live of 0, 1 and 2 minutes against bounds of 1 and
  1 exercise both refusals and the cap.
- `actions`: one endpoint that begins legacy, pending or active, one action under
  one idempotency key, asked for in three ways (two that the grant covers and one
  that it does not); two attempts and leases of one tick, so that a lease can
  run out, be handed out again and meet the first one's result, while the grant,
  of two ticks, comes due. Agents report success, and operators approve, revoke,
  grant and list; denials are in `approvals`, failures in `MCStaleResult.cfg`.
  Several actions of one endpoint are in the proofs.
- `identity`: one device, two credentials (an enrollment and a rotation) and a
  third id that is taken; one fault, which already leaves a late request behind a
  restarted agent, that meets every later step. Liveness is checked, so there is
  no symmetry.
- `cycle`: one tick is 30 seconds, so a lease lives 4 and a request and a command
  1 each; two profiles instead of three, an apply and a rollback, and one fault
  of any of the seven kinds, beside any lapse of the two grants. Two attempts per
  action are enough for one fault.
- `sessions`: two people, two logins, two sessions, three bindings; lives of two
  ticks, so that the idle limit meets the absolute one.
- `fleet`: two clients, three locations with an endpoint each, one tag, view and
  group, two names that fold to one, four requests in two workers, two filters
  that use every operator between them; an evaluation reads two of three
  endpoints and a preview shows one, so that both limits are met.
- `reports`: one host, two platforms, a worker that creates a location, one
  handler beside the exchange, the approval and the export, which are not
  handlers; two snapshots with two times. `MCManifest.cfg` has two handlers.
- `ownership`: two new clients, two new locations, two new profiles, two workers,
  and a caller with global authority and one with that of a location.
- `request_auth`: twelve deployments, three of them with a session key and no
  OIDC, every route that the middleware or the route
  policies tell apart, with every bearer token and edge identity alone and beside
  each other, and with a cookie beside the ones that could replace it; the clock
  passes the deadline.
- `migrations`: two starters, databases that begin empty before 0001 or, at 0006,
  empty or used: a grant with its queued action or without, enrollment tokens or
  none, so that SQLite rebuilds with an action there. One row of each kind, two
  rows added meanwhile; a report has any of a control's name and two old ones,
  each passed or failed; three endpoints in two clients, so that a scope can be a
  location, a client or quarantine. About 3 million states.
- Symmetry is used in safety runs only, over sets no definition tells apart.

## 5. Fairness

`FairIdentitySpec` assumes, besides `IdentitySpec`:

- weak fairness of `AgentStep(p)`: a running process goes on and a request that
  reached the control plane is answered. The HTTP client has a timeout, so a
  process never waits for ever; that ending is `GiveUp`, which is not fair and
  is bounded by `MaxFaults`: the network works again after some failures.
- weak fairness of `Start(p, "run")`: `runAgent` starts a cycle after a delay,
  whatever ended the last one. No fairness for an operator's rotation.
- weak fairness of `CreateToken(t)`: an enrollment token in a config file was
  created by an operator. No fairness for revocation, expiry or approval.

`CycleSpec` assumes

- weak fairness of the agent's steps (`runAgent` loops for ever and the service
  manager restarts it), of the scripts' steps and of recording a result that was
  admitted (a handler goes on; `StallResult` only delays it);
- strong fairness of `Tick`: each wait between cycles takes time, so the clock
  moves although a cycle in between disables the tick. Without it an agent could
  poll for ever at one moment and no lease would run out.

Faults are bounded by `MaxFaults`, and operators owe nothing: an endpoint that is
never approved settles nothing, which is why `EveryActionFinishes` asks for one
that is, and an action whose grant lapses before it is delivered stays queued,
which is why it asks for one whose grant does not.

## 6. Proofs

The theorems hold for every number of handlers, hosts, rows and ids, every set of
inputs and every time bound; `MaxClock`, `MaxFaults`, `MaxAttempts` and their like
may have any value, so that the bounds of the runs bound nothing here. The
assumptions are the named `ASSUME`s of the modules: constants have their types, a
minute, a lease and a login live at least one tick, `Nothing` and `Null` are no
ids. Some say what the code or its data guarantee: a deployment with an
authentication mechanism is `protected`, and one with OIDC has the session key and
the public origin (`RequestAuthAssumption`, lines 211 and 180 to 198 of `main.py`); a role that may read installer profiles may read the hierarchy
(`CallersAssumption`, true of `RolePermissions`); the endpoints and profiles that
migration 0005 finds have the pairs of aliases it derives clients from
(`EndpointAssumption`, `HierarchyAssumption`); an endpoint of a migrated database has
a location, and there are finitely many (`MigrationsAssumption`). TLC evaluates the
assumptions in every run that uses their module. Two theorems about
specifications have a hypothesis of their own, `LeaseCoversExecutionAlways` and
`DeviceHoldsActiveCredentialAlways`, explained below. Every inductive invariant was
checked by TLC on the instance of its run, or on one with more faults, before it was
proved.

| Module | Theorem | Statement |
|---|---|---|
| `ApprovalProofs` | `ManualGrantRules` | an emergency grant is accepted exactly when a request of one of the two kinds for the same authority would be |
| | `GrantLifetime` | an accepted expiry is at least `MinTtl` minutes away and less than a minute past the smaller of the requested and the global maximum, and only a request for `MinTtl` minutes or more has one |
| | `ApprovalTypeCorrect` | `ApprovalSpec => []ApprovalTypeOK` |
| | `GrantFollowsRequestAlways` | `ApprovalSpec => []GrantFollowsRequest` |
| | `NoRevivalAlways` | `ApprovalSpec => NoRevival` |
| | `HistoryExplainsStatusAlways` | `ApprovalSpec => []HistoryExplainsStatus` |
| | `ExpiryNotEarlyAlways` | `ApprovalSpec => []ExpiryNotEarly` |
| | `GrantCarriesRequestAlways` | a grant carries exactly the authority of its request, within one client |
| `ResponseActionProofs` | `ActionsKeepBoundary` | `ActionSpec => ApprovalSpec` |
| | `ActionTypeCorrect` | `ActionSpec => []ActionTypeOK` |
| | `NoOverlappingLeasesAlways` | `ActionSpec => []NoOverlappingLeases` |
| | `CreationIsIdempotentAlways` | `ActionSpec => []CreationIsIdempotent` |
| | `DeliveriesAuthorisedAlways` | `ActionSpec => []DeliveriesAuthorised` |
| | `NoLateLeaseAlways` | `ActionSpec => NoLateLease` |
| | `QueueIsImplemented` | `ActionSpec => QueueImplemented`, the refinement of `ActionQueue` |
| `CycleProofs` | `CycleKeepsQueue` | `CycleSpec => QueueSpec` |
| | `LeaseCoversExecutionAlways` | `CycleSpec => []LeaseCoversExecution`, if two requests and a command at their timeouts fit into a lease |
| | `RollbackPossibleAlways` | `CycleSpec => []RollbackPossible` |
| `IdentityProofs` | `IdentityTypeCorrect` | `IdentitySpec => []IdentityTypeOK` |
| | `TokenUsesCountedAlways` | `IdentitySpec => []TokenUsesCounted` |
| | `OneIdentityPerDeviceAlways` | `IdentitySpec => []OneIdentityPerDevice` |
| | `CutOffStaysCutOffAlways` | `IdentitySpec => CutOffStaysCutOff` |
| | `DeviceHoldsActiveCredentialAlways` | `IdentitySpec => []DeviceHoldsActiveCredential`, if no two processes share a host |
| `AccessProofs` | `LoginsSoundAlways` | `HumanSpec => []LoginsSound` |
| | `RevokedSessionStaysRevokedAlways` | `HumanSpec => RevokedSessionStaysRevoked` |
| | `AuthorityTracesToBootstrapAlways` | `HumanSpec => []AuthorityTracesToBootstrap` |
| | `ServedWithinAuthorityAlways` | `AuthSpec => []ServedWithinAuthority` |
| | `CookieDecidesAlways` | `AuthSpec => []CookieDecides` |
| | `ArtifactCanReportAlways` | `AuthSpec => ArtifactCanReport` |
| `FleetProofs` | `ClauseIsCheck` | for all grants, `scope_clause` holds of a row exactly when `permits_scope` does |
| | `ClientClauseIsReach` | for grants that name their client and location, `client_scope_clause` holds of a client exactly when something in it is permitted |
| | `VersionsInOrderAlways` | `FleetSpec => []VersionsInOrder` |
| | `RemovalsAuditedAlways` | `FleetSpec => []RemovalsAudited` |
| | `ScopesContainAlways` | `FleetSpec => []ScopesContain` |
| `ReportProofs` | `HierarchySoundAlways` | `EndpointSpec => []HierarchySound` |
| | `ListsShowAuthorityAlways` | `EndpointSpec => []ListsShowAuthority` |
| | `EndpointsMatchAliasesAlways` | `EndpointSpec => []EndpointsMatchAliases` |
| | `EvidenceSoundAlways` | `EndpointSpec => []EvidenceSound` |
| | `EndpointsNeverMoveAlways` | `EndpointSpec => EndpointsNeverMove` |
| | `LateReportsUndoNothingAlways` | `EndpointSpec => LateReportsUndoNothing` |
| | `PostureNeverOlderAlways` | `EndpointSpec => PostureNeverOlder` |
| `MigrationProofs` | `DatabaseFitsRevisionAlways` | `MigrationSpec => []DatabaseFitsRevision` |
| | `ServingIsCurrentAlways` | `MigrationSpec => []ServingIsCurrent` |
| | `EvidenceSurvivesAlways` | `MigrationSpec => EvidenceSurvives` |

### Approvals

`GrantFollowsRequest` alone is not inductive: a synchronisation writes from what
it read some time ago. `ApprovalInv` adds `ReadsStayTrue`, which says how far
those reads can be trusted: a grant selected as due still exists (so it still
belongs to the same request), and a request seen in a status other than
`approved` has not become approved since. With it, expiring a due grant and, if
it was seen approved, its request, keeps the pair together: either both move, or
the request had left `approved` and the grant with it. The lemma
`SyncConsistent` says this once for the three functions the commits share;
`ConsistentStep` uses it for each handler, `PersistStep` shows that rows only
move forward, and `ReadsStep` follows from that. `NoRevival` is a consequence of
the same facts about one step.

`HistoryInv` adds to `HistoryExplainsStatus` that a request that does not exist
has no history and that a denial is final; a stale synchronisation may turn
`revoked` into `expired` (finding 3), but only of a request that was approved.
`ExpiryInv` adds to `ExpiryNotEarly` that a handler's clock reading lies in the
past and that the grants it selected had expired by then.

### Response actions and the queue

`ActionsKeepBoundary` comes first: every step of a response-action handler is a
step of the approval boundary or none, so all of the invariants above hold here.
`ActionInv` is about rows (the lease token is the attempt count, an action that
exists names a grant that covers it), about every lease that was handed out (it is
its action's current one or has run out), and about the handlers between their
steps: what a creation or a claim read stays true until it writes, because
grants keep their authority and dead grants stay dead. The refinement maps each
step to one of the queue or to a stutter: `LeaseAction` to `Lease` at the
handler's clock reading, which `ExpiryInv` puts in the past, `CheckComplete` to
`Admit`, `WriteResult` to `Record`, `AbandonWork` to `Withdraw`; a set of results
under way can hold the same result twice, which is why `Leaves` allows both
outcomes.

### Agent cycle

`CycleKeepsQueue` closes the circle: the agent with its scripts and faults takes
only steps that the abstract queue allows, and the handlers implement the queue.
`LeaseInv` bounds, for each step of an attempt, how much of its lease is spent when
the step times out; with `TimeoutsFitLease` (30 + 30 + 30 seconds against 120 in the
code) the lease outlives the report. `RollbackInv` says what a script knows at
each of its statements: before the rollback file is whole nothing has been
changed, afterwards it holds what was found, and a restoring script has restored
what it no longer lists. It holds while no save and no setting failed and no
script outlived its agent; findings 7, 8 and 14 show that none of the three
conditions can be dropped.

### Identity

`IdentityInv` ties an active credential to one endpoint in device mode, an
installation to one endpoint, a redemption to a credential that exists and to a
use of its token, and says that whatever is in flight, from a process or left
behind by one, is well formed. The proof looks at the control plane's side of a
request once (`ServerStep`: an enrollment, a rotation, a weakening or nothing),
whichever process or orphan it comes from, so that lost, late and repeated
requests need no argument of their own.

`DeviceHoldsActiveCredential` needs more (`HoldInv`), and its hypothesis
`OneProcessPerHost`: with two processes on one state file it is false (finding 5). A
running process has in memory what its host has on disk; the ids of different
hosts are disjoint; a request that may still be executed, from a process or an
orphan, either can no longer make its credential active or names what its host
has on disk; and an answer on which the agent will forget a credential stays
true: a promoted candidate replaces a credential that is not active and that no
late enrollment can activate, since the endpoint is in device mode, and a candidate
refused with a conflict is neither active nor absent. `StatusesKept` is the
control plane's half (a credential becomes active once, for a host that holds
it), `OneAgent` the agent's half (what a step may do to the state file of its
host).

### People

`LoginInv` says what a callback and a request hold of the rows they read: a login
consumed by a callback is in no session yet and in no other callback, and a
session read by a request still exists, with the same user and the same absolute
limit. `AnswersSound` adds that a callback keeps the subject its login was answered
with and the user of that subject, which no later write changes. `AuthorityInv` says that a principal who passes for an administrator has an
Admin binding on file, revoked or not; as bindings are never deleted, the chain
behind each binding stays.

### Requests

`Identified` says what the middleware's answer rests on: for every principal that
`Authenticate` can return, which mechanism the deployment has configured, what the
request carried, and which role follows from it (`AuthenticateIdentifies`, by
cookie, proxy header and token). `AuthInv` then follows a connection through its
three stages: turned away by the middleware with nobody identified, let in with a
principal whom the route's policy allows, answered by a handler that looked at the
target again. Sessions, credentials and the clock change in between, which is why
the invariant speaks of the request and the deployment and never of what is valid
now. `ServedWithinAuthority` and `CookieDecides` are consequences;
`ArtifactCanReport` is one about the step that renders an artifact.

### Fleet metadata and authorization

`ClauseIsCheck` and `ClientClauseIsReach` are about the operators alone: the two
renderings of the scope rule agree on all grants. `FleetInv` says what a handler
that is about to write may rely on: tags and views are never deleted, and the
version it computed is at most one more than the current one, so that the primary
key of `saved_view_versions` decides races.

### Hierarchy and reports

`HierarchyInv`: rows of clients and locations are never changed or deleted, the row
of each alias is unique, also for the alias NULL, which no unique constraint covers
(only migration 0005 makes such rows, and a creation always has a key); every
profile and every profile about to be inserted has the keys of its owner as aliases
or is in quarantine; the audit log names exactly the rows created. Hence
`resolve_scope` has one answer (`ResolvedToOne`), and the lists show the authority
of each caller, with `scope_clause` as in `ClauseIsCheck`.

`EndpointInv` says what a report that has read a row may still assume when it
writes: the row has kept its platform and owner, and has at most gone from legacy to
device mode. A row in legacy mode is active, of the old protocol and without
manifest. So a late write of the columns that differ from what was read assigns
nothing but capabilities, and those it writes fit the platform; this is
`LateReportsUndoNothing` and half of `EvidenceSound`. The other half is that results
are committed with their snapshots, so that an export whose three queries see more
and more of the tables is still whole. `EndpointsNeverMove` and `PostureNeverOlder`
are about one step: owners are in no update, snapshots are only added.

### Migrations

`MigrationInv` is `Fits(db)` and `StartersSound`. `Fits` says, group of columns by
group, what a database of a revision holds: from 0004 on no old control name but
where the migration missed it, one result of a control in a snapshot,
approvals with a scope exactly from 0007 on and that scope the one of their targets,
no leased action before 0003, one profile before 0005, no Go agent profile before
0009, the role catalogue of the revision, and no row of a table that does not exist
yet. It is needed because an upgrade is defined by what it finds: `DatabaseFitsRevision`
does not say, for instance, that an event's request exists, yet a rebuild may lose
the event otherwise. Every revision is shown to change its columns, then its number
(`Renumbered`), and the SQLite rebuilds to restore what they drop
(`EndpointsRebuilt`, `ApprovalsRebuilt`). `ScopeDerived` is the argument for 0007: the
scope given to an approval is the only one its targets have in common.

`EvidenceSurvives` is about a step, but an upgrade of the whole database is up to
nine revisions in one step. A result may make way for another only when that one was
there too, under a name of the same control, and keeps its outcome. For this to be
transitive (`RenamedTwice`) every result must also come from one that was there
(`ResultsCome`), and no new control name be an old one (`AliasesAreFinal`);
`RenameKeeps` shows both of one renaming, and `OneUp` and `HeadReached` put the chain
together. `StartersSound` says that one program holds the advisory lock, that while a
migration is pending the database is of the revision it began with, and that there is
no second pending one: so what `Commit` upgrades is what `Begin` and `Migrate` read.

## 7. Only model-checked, and not modelled

Outside the prover, and left to TLC: liveness under fairness
(`EnrollmentCompletes`, `RotationResolves`, `EveryActionFinishes`). The other
properties of the passing runs are theorems.

Partly modelled:

- *Agent cycle*: the collection of posture only reads the machine and is one
  step; the lengths of the loop's delays and back-off are left open.
- *Evidence and audit reads*: the export is modelled against concurrent inserts;
  the audit list only reads.
- *Installers and packages*: creation of profiles and the decision to render an
  artifact. The rendered shell, PowerShell and Python text of
  `installer_artifacts.py` and the packaging and signing scripts turn values into
  files; no state of theirs is shared.
- *Control registry and source packs*: which control fits which platform, as the
  reports use it. The catalogue is static data.

Not modelled: the operating system's file protection (`state_posix.go`,
`state_windows.go`, `ca_bundle_posix.go`), from which the models take that a
replacement is atomic; the dashboard, which keeps no state the control plane
depends on; installation and deployment scripts; wording, formatting and logging;
password and token hashing; PostgreSQL itself, from which the models take READ
COMMITTED, row locks and unique constraints, and SQLite's transactions around
DDL, which the driver decides.

## 8. Plan

Modelling is done as far as section 7 says, and every invariant and action property
of the passing runs is proved. What is left is outside the prover's reach (liveness)
or outside the models (section 7). When the code changes, the map in `PROJECT.json`
gives the definitions to look at, and the runs come before the proofs.
