---------------------------- MODULE ApprovalRules ----------------------------
(***************************************************************************)
(* The pure rules of the approval boundary: what a request or an emergency *)
(* grant may ask for, which endpoints it may span, how long a grant may    *)
(* live and which response action a grant covers                           *)
(* (backend/app/api/endpoints/approvals.py and response_actions.py).       *)
(*                                                                         *)
(* An authority is the record of what is asked for: its endpoints, its     *)
(* actions, the control ids and the troubleshooting scopes.  Duplicate     *)
(* list entries are refused by the code, so the lists are sets here.       *)
(*                                                                         *)
(* Time is counted in ticks (seconds in the code, which truncates its      *)
(* clock to seconds).                                                      *)
(***************************************************************************)
EXTENDS Naturals

CONSTANTS
    Endpoints,     \* endpoint ids
    Controls,      \* control ids of the registry
    Scopes,        \* troubleshooting scopes
    ClientOf,      \* the client that owns each endpoint
    MinuteTicks,   \* ticks in a minute: 60 in the code
    MinTtl,        \* _APPROVAL_TTL_BOUNDS_MINUTES[0], 15
    MaxTtl,        \* _APPROVAL_TTL_BOUNDS_MINUTES[1], 240
    Nothing        \* None

ASSUME RulesAssumption ==
    /\ MinuteTicks \in Nat \ {0}
    /\ MinTtl \in Nat \ {0}
    /\ MaxTtl \in Nat
    /\ MinTtl <= MaxTtl
    /\ Nothing \notin Controls \cup Scopes

HardeningActions == {"apply_control", "rollback_control"}

TroubleshootingActions ==
    {"request_elevated_troubleshooting", "collect_security_context",
     "collect_remediation_evidence", "inspect_control"}

ApprovalActions == HardeningActions \cup TroubleshootingActions

RequestKinds == {"hardening_change", "elevated_troubleshooting"}

Authorities ==
    [endpoints : SUBSET Endpoints, actions : SUBSET ApprovalActions,
     controls : SUBSET Controls, scopes : SUBSET Scopes]

-----------------------------------------------------------------------------
(* _validate_request_shape *)
ValidRequestShape(kind, auth) ==
    \/ /\ kind = "hardening_change"
       /\ auth.actions # {}
       /\ auth.actions \subseteq HardeningActions
       /\ auth.controls # {}
       /\ auth.scopes = {}
    \/ /\ kind = "elevated_troubleshooting"
       /\ "request_elevated_troubleshooting" \in auth.actions
       /\ auth.actions \subseteq TroubleshootingActions
       /\ auth.controls = {}
       /\ auth.scopes # {}

HasHardeningSignal(auth) ==
    auth.actions \cap HardeningActions # {} \/ auth.controls # {}

HasTroubleshootingSignal(auth) ==
    auth.actions \cap TroubleshootingActions # {} \/ auth.scopes # {}

(* _validate_manual_grant_shape *)
ValidManualGrantShape(auth) ==
    /\ ~(HasHardeningSignal(auth) /\ HasTroubleshootingSignal(auth))
    /\ IF HasTroubleshootingSignal(auth)
       THEN /\ "request_elevated_troubleshooting" \in auth.actions
            /\ auth.actions \subseteq TroubleshootingActions
            /\ auth.controls = {}
            /\ auth.scopes # {}
       ELSE /\ auth.actions # {}
            /\ auth.actions \subseteq HardeningActions
            /\ auth.controls # {}
            /\ auth.scopes = {}

(* _approval_scope: the endpoints of one approval belong to one client. *)
SingleClient(auth) ==
    \E c \in {ClientOf[e] : e \in auth.endpoints} :
        \A e \in auth.endpoints : ClientOf[e] = c

-----------------------------------------------------------------------------
(* The rounding of maximum_expiry up to a whole minute. *)
CeilMinute(t) ==
    IF t % MinuteTicks = 0 THEN t ELSE (t - (t % MinuteTicks)) + MinuteTicks

CappedTtl(ttl) == IF ttl <= MaxTtl THEN ttl ELSE MaxTtl

(* _validate_grant_expiry: the expiry times it lets through. *)
GrantExpiries(now, ttl) ==
    (now + MinTtl * MinuteTicks) .. CeilMinute(now + CappedTtl(ttl) * MinuteTicks)

-----------------------------------------------------------------------------
(* What a response action asks an endpoint to do. *)
ActionSpecs ==
    [action : ApprovalActions, control : Controls \cup {Nothing},
     scope : Scopes \cup {Nothing}]

(* _normalize_action_shape *)
ValidActionShape(spec) ==
    IF spec.action \in HardeningActions
    THEN spec.control # Nothing /\ spec.scope = Nothing
    ELSE /\ spec.control = Nothing
         /\ (spec.scope = Nothing) = (spec.action = "collect_remediation_evidence")

(* _validate_grant_scope, apart from the grant's status and expiry. *)
Covers(auth, e, spec) ==
    /\ e \in auth.endpoints
    /\ spec.action \in auth.actions
    /\ spec.control # Nothing => spec.control \in auth.controls
    /\ spec.scope # Nothing => spec.scope \in auth.scopes
=============================================================================
