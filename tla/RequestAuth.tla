----------------------------- MODULE RequestAuth -----------------------------
(***************************************************************************)
(* Who is behind a request and which route may serve him: the middleware   *)
(* of backend/app/auth.py, the route policies of authorization.py and the  *)
(* policy for legacy reporters of agent_protocol.py, as create_app puts    *)
(* them together (main.py).                                                *)
(*                                                                         *)
(* A connection carries one request at a time.  The middleware and the     *)
(* handler are two steps; a session may end, a device credential may be    *)
(* revoked and time passes between them.  Routes are written as the path   *)
(* segments that the middleware looks at, with "id" for a parameter.       *)
(* Answers are status codes; 200 stands for every success.                 *)
(***************************************************************************)
EXTENDS Authorization, Naturals, Sequences

CONSTANTS
    Configs,   \* deployments: [tokens, browser, mode, legacy, until]
    Requests,  \* requests that arrive
    MaxTime    \* bound on the clock, in half years

VARIABLES
    config,    \* what create_app was given; it never changes
    now,
    session,   \* whether the browser session of the cookie is valid
    device,    \* whether the device credential is valid
    conn       \* the connection

authVars == <<config, now, session, device, conn>>

Mechanisms == {"operator", "agent", "readonly", "external", "hmac", "oidc"}

(* What browser sessions need: the key that their cookies are hashed with  *)
(* and the origin that changes must come from (public_base_url).  OIDC     *)
(* brings both; a deployment may have them without it, and sessions that   *)
(* were opened while it had it.                                            *)
BrowserParts == {"key", "origin"}

(* Where a mechanism is configured the mode is "protected": the service is *)
(* created without an auth_mode of its own (main.py).                      *)
ASSUME RequestAuthAssumption ==
    /\ Configs \subseteq [tokens : SUBSET Mechanisms, browser : SUBSET BrowserParts,
                          mode : {"protected", "development_open"},
                          legacy : {"disabled", "migration"}, until : Nat]
    /\ \A c \in Configs : c.tokens # {} => c.mode = "protected"
    /\ \A c \in Configs : "oidc" \in c.tokens => c.browser = BrowserParts
    /\ MaxTime \in Nat

-----------------------------------------------------------------------------
(* Routes *)

SPECIAL_ROUTE_POLICIES ==
    {<<"GET", <<"api", "auth", "session">>, "self">>,
     <<"POST", <<"api", "auth", "logout">>, "self_session">>,
     <<"POST", <<"api", "auth", "logout-all">>, "self_session">>,
     <<"POST", <<"api", "endpoints", "enroll">>, "agent">>,
     <<"POST", <<"api", "endpoints", "id", "heartbeat">>, "agent">>,
     <<"POST", <<"api", "posture-snapshots">>, "agent">>,
     <<"POST", <<"api", "endpoints", "id", "response-actions", "claim">>, "agent">>,
     <<"POST", <<"api", "response-actions", "id", "result">>, "agent">>,
     <<"POST", <<"api", "agent", "bootstrap">>, "enrollment">>,
     <<"GET", <<"api", "agent", "me">>, "device">>,
     <<"POST", <<"api", "agent", "credentials", "rotate">>, "device">>}

(* The routes with a permission, as their decorators give it. *)
HUMAN_ROUTE_POLICIES ==
    {<<"GET", <<"api", "approval-requests">>, "approval.read">>,
     <<"POST", <<"api", "approval-requests">>, "approval.request">>,
     <<"POST", <<"api", "approval-requests", "id", "decisions">>, "approval.decide">>,
     <<"GET", <<"api", "approval-grants">>, "approval.read">>,
     <<"POST", <<"api", "approval-grants">>, "approval.grant">>,
     <<"GET", <<"api", "audit-events">>, "audit.read">>,
     <<"GET", <<"api", "control-registry">>, "catalog.read">>,
     <<"GET", <<"api", "source-packs">>, "catalog.read">>,
     <<"POST", <<"api", "enrollment-tokens">>, "enrollment.manage">>,
     <<"GET", <<"api", "enrollment-tokens">>, "enrollment.read">>,
     <<"POST", <<"api", "enrollment-tokens", "id", "revoke">>, "enrollment.manage">>,
     <<"POST", <<"api", "device-credentials", "id", "revoke">>, "device_credential.manage">>,
     <<"POST", <<"api", "endpoints", "id", "approve-enrollment">>, "endpoint.approve">>,
     <<"GET", <<"api", "endpoints">>, "endpoint.read">>,
     <<"GET", <<"api", "endpoints", "id">>, "endpoint.read">>,
     <<"GET", <<"api", "compliance", "evidence">>, "compliance_evidence.export">>,
     <<"GET", <<"api", "tags">>, "tag.read">>,
     <<"POST", <<"api", "tags">>, "tag.manage">>,
     <<"GET", <<"api", "endpoints", "id", "tags">>, "tag.read">>,
     <<"POST", <<"api", "endpoints", "id", "tags">>, "tag.manage">>,
     <<"DELETE", <<"api", "endpoints", "id", "tags", "id">>, "tag.manage">>,
     <<"GET", <<"api", "saved-views">>, "saved_view.read">>,
     <<"POST", <<"api", "saved-views">>, "saved_view.manage">>,
     <<"PUT", <<"api", "saved-views", "id">>, "saved_view.manage">>,
     <<"GET", <<"api", "dynamic-groups">>, "dynamic_group.read">>,
     <<"POST", <<"api", "dynamic-groups">>, "dynamic_group.manage">>,
     <<"GET", <<"api", "dynamic-groups", "id", "preview">>, "dynamic_group.read">>,
     <<"GET", <<"api", "clients">>, "hierarchy.read">>,
     <<"POST", <<"api", "clients">>, "hierarchy.manage">>,
     <<"GET", <<"api", "clients", "id", "locations">>, "hierarchy.read">>,
     <<"POST", <<"api", "clients", "id", "locations">>, "hierarchy.manage">>,
     <<"GET", <<"api", "users">>, "identity.manage">>,
     <<"PATCH", <<"api", "users", "id">>, "identity.manage">>,
     <<"GET", <<"api", "roles">>, "identity.manage">>,
     <<"POST", <<"api", "users", "id", "role-bindings">>, "identity.manage">>,
     <<"POST", <<"api", "role-bindings", "id", "revoke">>, "identity.manage">>,
     <<"GET", <<"api", "installer-profiles">>, "installer_profile.read">>,
     <<"GET", <<"api", "installer-profiles", "id", "artifact">>, "installer_artifact.download">>,
     <<"POST", <<"api", "installer-profiles">>, "installer_profile.manage">>,
     <<"POST", <<"api", "response-actions">>, "response_action.create">>,
     <<"GET", <<"api", "endpoints", "id", "response-actions">>, "response_action.read">>}

Routes == SPECIAL_ROUTE_POLICIES \cup HUMAN_ROUTE_POLICIES

(* What a request carries: the cookie of a session, named by its user's    *)
(* role, and the token that goes with it, the proxy's word, a bearer       *)
(* token; what it asks for, and the endpoint or the kind of profile that   *)
(* this is about.                                                          *)
ASSUME RequestsAssumption ==
    Requests \subseteq
        [cookie : {"none", "viewer", "operator", "responder", "approver", "admin"},
         csrf : BOOLEAN,
         external : {"none", "operator", "readonly", "other"},
         token : {"none", "operator", "agent", "readonly", "device", "enrollment"},
         route : Routes,
         target : {"own", "other", "legacy", "go_agent", "legacy_reporter", "none"}]

Method(route) == route[1]
Path(route) == route[2]
Policy(route) == route[3]

Safe(route) == Method(route) \in {"GET", "HEAD", "OPTIONS"}

(* Mistake: the route of results is not among the agents' routes. *)
_is_agent_path_but_results(route) ==
    /\ Method(route) = "POST"
    /\ \/ Path(route) \in {<<"api", "endpoints", "enroll">>, <<"api", "posture-snapshots">>}
       \/ /\ Len(Path(route)) = 4 /\ Path(route)[2] = "endpoints"
          /\ Path(route)[4] = "heartbeat"
       \/ /\ Len(Path(route)) = 5 /\ Path(route)[2] = "endpoints"
          /\ Path(route)[4] = "response-actions" /\ Path(route)[5] = "claim"

_is_existing_agent_path(route) ==
    LET parts == Path(route) IN
    /\ Method(route) = "POST"
    /\ \/ parts = <<"api", "endpoints", "enroll">>
       \/ parts = <<"api", "posture-snapshots">>
       \/ Len(parts) = 4 /\ parts[2] = "endpoints" /\ parts[4] = "heartbeat"
       \/ Len(parts) = 5 /\ parts[2] = "endpoints" /\ parts[4] = "response-actions"
                         /\ parts[5] = "claim"
       \/ Len(parts) = 4 /\ parts[2] = "response-actions" /\ parts[4] = "result"

_is_bootstrap_path(route) ==
    Method(route) = "POST" /\ Path(route) = <<"api", "agent", "bootstrap">>

_is_device_only_path(route) ==
    \/ Path(route) = <<"api", "agent", "me">> /\ Method(route) = "GET"
    \/ Path(route) = <<"api", "agent", "credentials", "rotate">> /\ Method(route) = "POST"

_is_agent_path(route) ==
    _is_existing_agent_path(route) \/ _is_bootstrap_path(route) \/ _is_device_only_path(route)

_is_readonly_path(route) ==
    LET parts == Path(route) IN
    /\ Safe(route) /\ ~_is_agent_path(route)
    /\ ~(Len(parts) = 4 /\ parts[2] = "installer-profiles" /\ parts[4] = "artifact")

-----------------------------------------------------------------------------
(* Deployment *)

authentication_configured(c) == c.tokens # {}

Year(time) == 2025 + time \div 2

(* LegacyReporterPolicy.allows: a deadline in 2026 or later never ends.    *)
allows(c, time) ==
    /\ c.legacy = "migration"
    /\ time <= c.until \/ Year(c.until) >= 2026

-----------------------------------------------------------------------------
(* The middleware *)

(* A principal holds one global grant; `held` names its permissions.       *)
ALL_PERMISSIONS == RolePermissions.admin

PermissionsHeld ==
    [all |-> ALL_PERMISSIONS, legacy_operator |-> LEGACY_OPERATOR_PERMISSIONS,
     readonly |-> READONLY_PERMISSIONS, viewer |-> RolePermissions.viewer,
     operator |-> RolePermissions.operator, responder |-> RolePermissions.responder,
     approver |-> RolePermissions.approver, admin |-> RolePermissions.admin, none |-> {}]

Grants(p) == {synthetic_global_grant(PermissionsHeld[p.held])}

Principal(role, method, held) == [role |-> role, method |-> method, held |-> held]

Nobody == Principal("nobody", "none", "none")
Refused(status) == [status |-> status, principal |-> Nobody]
Known(principal) == [status |-> 0, principal |-> principal]

OperatorPrincipal == Principal("operator", "operator_token", "legacy_operator")

(* _browser_session_principal asks for the key and a session that holds,   *)
(* not for OIDC.                                                           *)
SessionHolds(c) == "key" \in c.browser /\ session = "valid"

_browser_csrf_valid(c, q) == Safe(q.route) \/ (q.csrf /\ "origin" \in c.browser)

(* The trusted proxy names a role and a user; "other" lacks one of them.   *)
ExternalAnswer(c, q) ==
    IF "oidc" \in c.tokens \/ q.external \notin {"operator", "readonly"}
    THEN Refused(403)
    ELSE Known(Principal(q.external, "external_proxy",
                         IF q.external = "operator" THEN "legacy_operator" ELSE "readonly"))

(* Device credentials, enrollment tokens and the shared tokens.  An        *)
(* enrollment token is looked up by its handler.                           *)
TokenAnswer(c, q) ==
    IF q.token = "device"
    THEN IF "hmac" \in c.tokens /\ device = "valid"
         THEN Known(Principal("agent", "device_credential", "none"))
         ELSE Refused(401)
    ELSE IF q.token = "enrollment"
    THEN IF _is_bootstrap_path(q.route)
         THEN Known(Principal("enrollment", "enrollment_token", "none"))
         ELSE Refused(403)
    ELSE IF q.token = "operator" /\ "operator" \in c.tokens
    THEN Known(OperatorPrincipal)
    ELSE IF q.token = "agent" /\ "agent" \in c.tokens
    THEN IF allows(c, now) THEN Known(Principal("agent", "agent_token", "none"))
                           ELSE Refused(403)
    ELSE IF q.token = "readonly" /\ "readonly" \in c.tokens
    THEN Known(Principal("readonly", "readonly_token", "readonly"))
    ELSE Refused(401)

(* Mistake: a cookie without a valid session is passed over. *)
AuthenticateBeyondCookie(c, q) ==
    IF ~authentication_configured(c)
    THEN IF c.mode # "development_open" THEN Refused(503)
         ELSE Known(Principal("operator", "development_open", "all"))
    ELSE IF q.cookie # "none" /\ SessionHolds(c)
    THEN IF _browser_csrf_valid(c, q)
         THEN Known(Principal("human", "oidc_session", q.cookie))
         ELSE Refused(403)
    ELSE IF q.external # "none" /\ "external" \in c.tokens
    THEN ExternalAnswer(c, q)
    ELSE TokenAnswer(c, q)

(* The first mechanism that the request uses decides. *)
Authenticate(c, q) ==
    IF ~authentication_configured(c)
    THEN IF c.mode # "development_open" THEN Refused(503)
         ELSE Known(Principal("operator", "development_open", "all"))
    ELSE IF q.cookie # "none"
    THEN IF ~SessionHolds(c) THEN Refused(401)
         ELSE IF _browser_csrf_valid(c, q)
         THEN Known(Principal("human", "oidc_session", q.cookie))
         ELSE Refused(403)
    ELSE IF q.external # "none" /\ "external" \in c.tokens
    THEN ExternalAnswer(c, q)
    ELSE TokenAnswer(c, q)

(* _authorize; the development principal passes it by. *)
_authorize(p, route) ==
    \/ p.method = "development_open"
    \/ p.role = "enrollment" /\ _is_bootstrap_path(route)
    \/ p.method = "device_credential" /\
          \/ _is_existing_agent_path(route) /\ Path(route) # <<"api", "endpoints", "enroll">>
          \/ _is_device_only_path(route)
    \/ p.method = "agent_token" /\ _is_existing_agent_path(route)
    \/ p.role \in {"human", "operator"} /\ ~_is_agent_path(route)
    \/ p.role = "readonly" /\ _is_readonly_path(route)

-----------------------------------------------------------------------------
(* The handlers' own checks *)

(* enforce_device_endpoint and enforce_endpoint_credential_mode, for the   *)
(* endpoint that a report is about.                                        *)
MayReport(p, target) ==
    /\ p.method = "device_credential" => target = "own"
    /\ target # "legacy" => p.method = "device_credential"

(* require_permission, require_device_principal and the checks of logout.  *)
MayHandle(p, q) ==
    LET policy == Policy(q.route) IN
    CASE policy = "self" -> TRUE
      [] policy = "self_session" -> p.method = "oidc_session"
      [] policy = "agent" -> MayReport(p, q.target)
      [] policy = "enrollment" -> p.method = "enrollment_token"
      [] policy = "device" -> p.method = "device_credential"
      [] OTHER -> p.role \notin {"agent", "enrollment"} /\ has_permission(Grants(p), policy)

OperatorAuth(c) == c.tokens \cap {"operator", "external", "oidc"} # {}

(* Mistake: the artifact is made whatever the policy says. *)
ArtifactAnyTime(c, kind) ==
    IF OperatorAuth(c) /\ "agent" \notin c.tokens THEN 503 ELSE 200

(* get_installer_artifact of a profile, by its runtime kind: a signed      *)
(* package, from a provider that is there, or a legacy reporter with the   *)
(* shared token in it.                                                     *)
get_installer_artifact(c, kind) ==
    IF kind = "go_agent" THEN 200
    ELSE IF c.mode # "development_open" /\ ~allows(c, now) THEN 410
    ELSE IF OperatorAuth(c) /\ "agent" \notin c.tokens THEN 503
    ELSE 200

-----------------------------------------------------------------------------
(* Steps *)

NoRequest == [pc |-> "idle"]

Arrive(q) ==
    /\ conn = NoRequest
    /\ LET a == Authenticate(config, q) IN
       conn' = IF a.status # 0
               THEN [pc |-> "answered", request |-> q, principal |-> Nobody, status |-> a.status]
               ELSE IF ~_authorize(a.principal, q.route)
               THEN [pc |-> "answered", request |-> q, principal |-> a.principal, status |-> 403]
               ELSE [pc |-> "handler", request |-> q, principal |-> a.principal, status |-> 0]
    /\ UNCHANGED <<config, now, session, device>>

Handle ==
    /\ conn.pc = "handler"
    /\ conn' = [conn EXCEPT
                  !.pc = "answered",
                  !.status = IF ~MayHandle(conn.principal, conn.request) THEN 403
                             ELSE IF Policy(conn.request.route) = "installer_artifact.download"
                             THEN get_installer_artifact(config, conn.request.target)
                             ELSE 200]
    /\ UNCHANGED <<config, now, session, device>>

Close ==
    /\ conn.pc = "answered"
    /\ conn' = NoRequest
    /\ UNCHANGED <<config, now, session, device>>

AuthTick ==
    /\ now < MaxTime
    /\ now' = now + 1
    /\ UNCHANGED <<config, session, device, conn>>

EndSession ==
    /\ session = "valid"
    /\ session' = "ended"
    /\ UNCHANGED <<config, now, device, conn>>

RevokeDevice ==
    /\ device = "valid"
    /\ device' = "revoked"
    /\ UNCHANGED <<config, now, session, conn>>

AuthInit ==
    /\ config \in Configs
    /\ now = 0
    /\ session = "valid"
    /\ device = "valid"
    /\ conn = NoRequest

AuthNext ==
    \/ \E q \in Requests : Arrive(q)
    \/ Handle \/ Close \/ AuthTick \/ EndSession \/ RevokeDevice

AuthSpec == AuthInit /\ [][AuthNext]_authVars

-----------------------------------------------------------------------------
(* Properties *)

AuthTypeOK ==
    /\ config \in Configs
    /\ now \in 0..MaxTime
    /\ session \in {"valid", "ended"} /\ device \in {"valid", "revoked"}
    /\ conn # NoRequest =>
           /\ conn.pc \in {"handler", "answered"}
           /\ conn.pc = "answered" => conn.status \in {200, 401, 403, 410, 503}

Served == conn.pc = "answered" /\ conn.status = 200

(* Every protected route serves the class of principal that its policy     *)
(* names and each of them reaches it: the paths that the middleware lists  *)
(* (auth.py) are the routes that SPECIAL_ROUTE_POLICIES gives to agents    *)
(* (authorization.py), for shared token and device alike, and a device     *)
(* acts for its own endpoint only.                                         *)
ServedAsClassified ==
    conn.pc # "idle" /\ authentication_configured(config) =>
    LET p == conn.principal
        q == conn.request
        policy == Policy(q.route)
    IN  /\ policy = "agent" /\ Served => p.role = "agent"
        /\ policy = "agent" /\ Served /\ q.target # "legacy" =>
               p.method = "device_credential" /\ q.target = "own"
        /\ policy = "agent" /\ p.role = "agent" /\ conn.status = 403 =>
               \/ p.method = "device_credential" /\ q.target # "own"
               \/ p.method = "agent_token" /\ q.target # "legacy"
               \/ p.method = "device_credential"
                  /\ Path(q.route) = <<"api", "endpoints", "enroll">>
        /\ policy \notin {"agent", "device", "enrollment", "self"} /\ Served =>
               p.role \in {"human", "operator", "readonly"}

(* A request with a session cookie is judged by the session: no token or   *)
(* proxy header beside it gives access once the session is over, and the   *)
(* cookie alone changes nothing (api_token_middleware,                     *)
(* _browser_csrf_valid).                                                   *)
CookieDecides ==
    conn.pc # "idle" /\ authentication_configured(config) /\ conn.request.cookie # "none"
        /\ conn.principal # Nobody =>
            /\ conn.principal.method = "oidc_session"
            /\ "key" \in config.browser
            /\ Safe(conn.request.route) \/ (conn.request.csrf /\ "origin" \in config.browser)

(* Nobody is served by a mechanism the deployment did not configure: for a *)
(* browser session this is the session key, with which sessions outlive    *)
(* the OIDC that opened them.  The development principal exists only where *)
(* none at all is ("does not silently fall back",                          *)
(* docs/architecture/security-and-platform-decisions.md;                   *)
(* api_token_middleware, create_app).                                      *)
OnlyConfiguredMechanisms ==
    Served =>
        CASE conn.principal.method = "development_open" ->
                 config.tokens = {} /\ config.mode = "development_open"
          [] conn.principal.method = "oidc_session" ->
                 "key" \in config.browser /\ config.tokens # {}
          [] conn.principal.method = "device_credential" -> "hmac" \in config.tokens
          [] conn.principal.method = "external_proxy" ->
                 "external" \in config.tokens /\ "oidc" \notin config.tokens
          [] conn.principal.method = "agent_token" -> "agent" \in config.tokens
          [] OTHER -> config.tokens # {}

(* Whoever has no more than the read permissions changes nothing: not by a *)
(* token, not through the proxy and not as a viewer in a browser, except   *)
(* his own session (READONLY_PERMISSIONS, the permissions of the routes    *)
(* and _is_readonly_path).                                                 *)
ReadersChangeNothing ==
    Served /\ (conn.principal.role = "readonly" \/ conn.request.cookie = "viewer")
           /\ authentication_configured(config) =>
        Safe(conn.request.route) \/ Policy(conn.request.route) = "self_session"

(* Identities are managed by persons: no shared token and no proxy reaches *)
(* users, roles and bindings (LEGACY_OPERATOR_PERMISSIONS, identity.py).   *)
IdentitiesManagedByPersons ==
    Served /\ Policy(conn.request.route) = "identity.manage"
           /\ authentication_configured(config) => conn.principal.method = "oidc_session"

(* Whoever is served is who the route, the deployment and the permissions  *)
(* call for (api_token_middleware, SPECIAL_ROUTE_POLICIES).                *)
ServedWithinAuthority ==
    /\ AuthTypeOK
    /\ ServedAsClassified
    /\ OnlyConfiguredMechanisms
    /\ ReadersChangeNothing
    /\ IdentitiesManagedByPersons

LegacyArtifactServed ==
    /\ conn.pc = "handler" /\ conn'.status = 200
    /\ Policy(conn.request.route) = "installer_artifact.download"
    /\ conn.request.target = "legacy_reporter" /\ authentication_configured(config)

(* A session that the deployment's own login did not open. *)
LeftoverSession == conn.principal.method = "oidc_session" /\ "oidc" \notin config.tokens

(* A legacy reporter that is handed out can report: when its artifact is   *)
(* made where authentication is configured, and not for a session left     *)
(* from before OIDC was taken out, the shared token in it is one the       *)
(* middleware accepts at that time (get_installer_artifact,                *)
(* api_token_middleware, LegacyReporterPolicy).                            *)
ArtifactCanReport ==
    [][LegacyArtifactServed /\ ~LeftoverSession =>
           TokenAnswer(config, [conn.request EXCEPT !.token = "agent"]).status = 0]_authVars

(* In protected mode the legacy artifacts "contain the shared agent token" *)
(* (docs/project-guide.md; get_installer_artifact).                        *)
ProtectedArtifactHoldsToken ==
    [][LegacyArtifactServed /\ config.mode = "protected" => "agent" \in config.tokens]_authVars

(* The shared agent token is accepted up to the deadline of legacy         *)
(* compatibility ("a deadline-bound centrally enforced shared-token kill   *)
(* switch", docs/plans/2026-07-17-sha-ir-compliance-operations-roadmap.md; *)
(* LegacyReporterPolicy.allows).                                           *)
LegacyTokenEndsAtDeadline ==
    [][conn = NoRequest /\ conn' # NoRequest /\ conn'.principal.method = "agent_token" =>
           now <= config.until]_authVars
=============================================================================
