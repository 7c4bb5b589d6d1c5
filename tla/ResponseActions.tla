--------------------------- MODULE ResponseActions ---------------------------
(***************************************************************************)
(* Delivery of approved work to endpoint agents: response actions, their   *)
(* idempotent creation, leases and results                                 *)
(* (backend/app/api/endpoints/response_actions.py), on top of the approval *)
(* boundary of module Approvals.                                           *)
(*                                                                         *)
(* A worker that creates or claims an action is, for Approvals, a "sync"   *)
(* handler: create_response_action and claim_endpoint_response_action run  *)
(* _sync_expired_grants first and commit it with their own write.  What    *)
(* the handler does besides is in work[w].  complete_response_action does  *)
(* not synchronise; it uses work[w] alone.                                 *)
(***************************************************************************)
EXTENDS Approvals

CONSTANTS
    ActionIds,     \* response action ids, each used at most once
    Keys,          \* idempotency keys
    AskedActions,  \* what operators ask endpoints to do (inputs)
    Declared,      \* <<endpoint, spec>> the registry supports and the endpoint declares
    Reported,      \* the result statuses agents report
    Outcomes,      \* the result summaries agents report
    OperatorCalls, \* the handlers of Approvals that operators call (inputs)
    LeaseTicks,    \* _LEASE_SECONDS
    MaxAttempts    \* bound on the claims of one action

ASSUME ActionsAssumption ==
    /\ AskedActions \subseteq ActionSpecs
    /\ Reported \subseteq {"succeeded", "failed"}
    /\ OperatorCalls \subseteq Ops
    /\ LeaseTicks \in Nat \ {0}
    /\ MaxAttempts \in Nat
    /\ Nothing \notin ActionIds \cup Keys \cup Endpoints

VARIABLES
    actions,        \* response_actions rows
    deliveries,     \* every lease a claim has handed out
    accepted,       \* every creation answered with success, and its answer
    endpointStatus, \* of each endpoint: "legacy" (credential_mode legacy, which is
                    \* always active), or the status of one in device mode
    work            \* the response-action part of each worker's handler

actionVars == <<actions, deliveries, accepted, endpointStatus, work>>
allVars == <<approvalVars, actionVars>>

NoSpec == [action |-> "inspect_control", control |-> Nothing, scope |-> Nothing]

NoActionRow ==
    [status |-> "absent", endpoint |-> Nothing, grant |-> Nothing, spec |-> NoSpec,
     key |-> Nothing, created |-> 0, token |-> 0, leaseExpires |-> 0,
     attempts |-> 0, summary |-> Nothing]

Terminal == {"succeeded", "failed"}

(* A claim's lease token is named by the attempt it is handed out with:    *)
(* token_urlsafe gives every claim a token of its own, and the claim's     *)
(* UPDATE increments attempt_count in the same statement.                  *)
NoWork ==
    [kind |-> "none", step |-> "none", endpoint |-> Nothing, grant |-> Nothing,
     spec |-> NoSpec, key |-> Nothing, action |-> Nothing, token |-> 0,
     result |-> "failed", summary |-> Nothing, now |-> 0, caller |-> "shared",
     dead |-> {}]

EndpointStatuses == {"legacy", "pending", "active"}

(* How a reporter authenticated: shared token or device credential.        *)
Callers == {"shared", "device"}

ActionRows ==
    [status : {"absent", "queued", "leased"} \cup Terminal,
     endpoint : Endpoints \cup {Nothing}, grant : GrantIds \cup {Nothing},
     spec : ActionSpecs, key : Keys \cup {Nothing}, created : Nat,
     token : Nat, leaseExpires : Nat, attempts : Nat, summary : Outcomes \cup {Nothing}]

Works ==
    [kind : {"none", "create", "claim", "complete"}, step : {"none", "read", "write"},
     endpoint : Endpoints \cup {Nothing}, grant : GrantIds \cup {Nothing},
     spec : ActionSpecs, key : Keys \cup {Nothing}, action : ActionIds \cup {Nothing},
     token : Nat, result : Terminal, summary : Outcomes \cup {Nothing}, now : Nat,
     caller : Callers, dead : SUBSET GrantIds]

ActionTypeOK ==
    /\ ApprovalTypeOK
    /\ actions \in [ActionIds -> ActionRows]
    /\ deliveries \subseteq [action : ActionIds, token : Nat, expires : Nat]
    /\ accepted \subseteq
           [endpoint : Endpoints, key : Keys, grant : GrantIds,
            spec : ActionSpecs, action : ActionIds]
    /\ endpointStatus \in [Endpoints -> EndpointStatuses]
    /\ work \in [Workers -> Works]

ActionInit ==
    /\ ApprovalInit
    /\ actions = [a \in ActionIds |-> NoActionRow]
    /\ deliveries = {}
    /\ accepted = {}
    /\ endpointStatus \in [Endpoints -> EndpointStatuses]
    /\ work = [w \in Workers |-> NoWork]

-----------------------------------------------------------------------------
(* create_response_action *)

(* The grants that can no longer authorise anything when a claim begins: a *)
(* history note for the properties, no decision reads it.                  *)
DeadGrants == {g \in GrantIds : grants[g].status \in {"expired", "revoked"}}

StartCreate(w, e, g, key, spec) ==
    /\ work[w] = NoWork
    /\ ValidActionShape(spec)
    /\ Call(w, "sync", Nothing)
    /\ work' = [work EXCEPT ![w] =
                  [NoWork EXCEPT !.kind = "create", !.step = "read", !.endpoint = e,
                                 !.grant = g, !.key = key, !.spec = spec]]
    /\ UNCHANGED <<actions, deliveries, accepted, endpointStatus>>

(* Mistake: any live grant will do. *)
CheckCreateUncovered(w) ==
    LET o == work[w] IN
    /\ o.kind = "create" /\ o.step = "read"
    /\ SyncDone(w)
    /\ grants[o.grant].status = "approved"
    /\ grants[o.grant].expires > txn[w].now
    /\ work' = [work EXCEPT ![w].step = "write"]
    /\ UNCHANGED <<approvalVars, actions, deliveries, accepted, endpointStatus>>

(* The reads before the INSERT: capability, grant and its coverage. *)
CheckCreate(w) ==
    LET o == work[w] IN
    /\ o.kind = "create" /\ o.step = "read"
    /\ SyncDone(w)
    /\ <<o.endpoint, o.spec>> \in Declared
    /\ grants[o.grant].status = "approved"
    /\ grants[o.grant].expires > txn[w].now
    /\ Covers(grants[o.grant].auth, o.endpoint, o.spec)
    /\ work' = [work EXCEPT ![w].step = "write"]
    /\ UNCHANGED <<approvalVars, actions, deliveries, accepted, endpointStatus>>

Bound(e, key) == {a \in ActionIds : actions[a].status # "absent" /\
                                    actions[a].endpoint = e /\ actions[a].key = key}

(* Mistake: the key alone decides that a request is a replay. *)
SameKeyIsEnough(a, o) == TRUE

(* _same_action_request *)
SameRequest(a, o) == actions[a].grant = o.grant /\ actions[a].spec = o.spec

Accept(o, a) ==
    accepted' = accepted \cup
        {[endpoint |-> o.endpoint, key |-> o.key, grant |-> o.grant,
          spec |-> o.spec, action |-> a]}

(* The INSERT, in a savepoint; the key is still free. *)
InsertAction(w, a) ==
    LET o == work[w] IN
    /\ o.kind = "create" /\ o.step = "write"
    /\ Bound(o.endpoint, o.key) = {}
    /\ actions[a].status = "absent"
    /\ actions' = [actions EXCEPT ![a] =
                     [NoActionRow EXCEPT !.status = "queued", !.endpoint = o.endpoint,
                                         !.grant = o.grant, !.spec = o.spec,
                                         !.key = o.key, !.created = txn[w].now]]
    /\ Accept(o, a)
    /\ SyncCommit(w)
    /\ work' = [work EXCEPT ![w] = NoWork]
    /\ UNCHANGED <<deliveries, endpointStatus>>

(* The key is bound, before the INSERT or found out by it: the same        *)
(* request is answered with the existing action.                           *)
ReplayCreate(w, a) ==
    LET o == work[w] IN
    /\ o.kind = "create" /\ o.step = "write"
    /\ a \in Bound(o.endpoint, o.key)
    /\ SameRequest(a, o)
    /\ Accept(o, a)
    /\ SyncCommit(w)
    /\ work' = [work EXCEPT ![w] = NoWork]
    /\ UNCHANGED <<actions, deliveries, endpointStatus>>

-----------------------------------------------------------------------------
(* claim_endpoint_response_action *)

(* The reporter's credential as it calls: a legacy endpoint has no device  *)
(* credential yet, and a call with the shared token for an endpoint in     *)
(* device mode is refused whatever follows.                                *)
CallerOf(e) == IF endpointStatus[e] = "legacy" THEN "shared" ELSE "device"

StartClaim(w, e) ==
    /\ work[w] = NoWork
    /\ Call(w, "sync", Nothing)
    /\ work' = [work EXCEPT ![w] =
                  [NoWork EXCEPT !.kind = "claim", !.step = "read", !.endpoint = e,
                                 !.caller = CallerOf(e), !.dead = DeadGrants]]
    /\ UNCHANGED <<actions, deliveries, accepted, endpointStatus>>

Claimable(a, now) ==
    \/ actions[a].status = "queued"
    \/ actions[a].status = "leased" /\ actions[a].leaseExpires <= now

(* Mistake: the subquery looks at the grant's expiry only. *)
EligibleUnrevoked(a, e, now) ==
    /\ actions[a].endpoint = e
    /\ Claimable(a, now)
    /\ grants[actions[a].grant].expires > now

(* The candidate subquery's WHERE. *)
Eligible(a, e, now) ==
    /\ actions[a].endpoint = e
    /\ Claimable(a, now)
    /\ grants[actions[a].grant].status = "approved"
    /\ grants[actions[a].grant].expires > now

(* Its ORDER BY and LIMIT 1; ids that tie on created_at order arbitrarily. *)
Candidates(e, now) ==
    {a \in ActionIds : /\ actions[a].status # "absent"
                       /\ Eligible(a, e, now)
                       /\ \A b \in ActionIds :
                              actions[b].status # "absent" /\ Eligible(b, e, now)
                              => actions[a].created <= actions[b].created}

(* enforce_endpoint_credential_mode, and the refusal of a pending endpoint, *)
(* on the endpoint's row as session.get finds it.                          *)
Served(caller, e) ==
    /\ endpointStatus[e] # "legacy" => caller = "device"
    /\ endpointStatus[e] # "pending"

(* The endpoint check and the snapshot the UPDATE's subquery reads.  The   *)
(* endpoint may be migrated and put on hold before the UPDATE.             *)
SelectCandidate(w, a) ==
    LET o == work[w] IN
    /\ o.kind = "claim" /\ o.step = "read"
    /\ SyncDone(w)
    /\ Served(o.caller, o.endpoint)
    /\ IF Candidates(o.endpoint, txn[w].now) = {}
       THEN a = Nothing
       ELSE a \in Candidates(o.endpoint, txn[w].now)
    /\ work' = [work EXCEPT ![w].step = "write", ![w].action = a]
    /\ UNCHANGED <<approvalVars, actions, deliveries, accepted, endpointStatus>>

(* Mistake: the UPDATE's WHERE names the candidate and nothing else. *)
CandidateIsEnough(w) == work[w].action # Nothing

(* The UPDATE has the candidate's row lock: PostgreSQL evaluates the       *)
(* UPDATE's own WHERE again on the row as it is now, not the subquery.     *)
StillClaimable(w) ==
    /\ work[w].action # Nothing
    /\ Claimable(work[w].action, txn[w].now)

LeaseAction(w) ==
    LET o == work[w]
        a == work[w].action
        n == actions[a].attempts + 1
        until == txn[w].now + LeaseTicks
    IN
    /\ o.kind = "claim" /\ o.step = "write"
    /\ StillClaimable(w)
    /\ n <= MaxAttempts
    /\ actions' = [actions EXCEPT ![a].status = "leased", ![a].token = n,
                                  ![a].leaseExpires = until, ![a].attempts = n]
    /\ deliveries' = deliveries \cup {[action |-> a, token |-> n, expires |-> until]}
    /\ SyncCommit(w)
    /\ work' = [work EXCEPT ![w] = NoWork]
    /\ UNCHANGED <<accepted, endpointStatus>>

(* No candidate, or it is no longer claimable: an empty answer. *)
ClaimNothing(w) ==
    /\ work[w].kind = "claim" /\ work[w].step = "write"
    /\ ~StillClaimable(w)
    /\ SyncCommit(w)
    /\ work' = [work EXCEPT ![w] = NoWork]
    /\ UNCHANGED <<actions, deliveries, accepted, endpointStatus>>

-----------------------------------------------------------------------------
(* complete_response_action *)

StartComplete(w, d, result, summary) ==
    /\ work[w] = NoWork
    /\ txn[w].pc = "idle"
    /\ work' = [work EXCEPT ![w] =
                  [NoWork EXCEPT !.kind = "complete", !.step = "read",
                                 !.action = d.action, !.token = d.token,
                                 !.caller = CallerOf(actions[d.action].endpoint),
                                 !.result = result, !.summary = summary, !.now = clock]]
    /\ UNCHANGED <<approvalVars, actions, deliveries, accepted, endpointStatus>>

(* Mistake: any lease of the action may report its result. *)
CheckCompleteAnyToken(w) ==
    LET o == work[w]
        row == actions[o.action]
    IN
    /\ o.kind = "complete" /\ o.step = "read"
    /\ Served(o.caller, row.endpoint)
    /\ row.status = "leased"
    /\ row.leaseExpires > o.now
    /\ work' = [work EXCEPT ![w].step = "write"]
    /\ UNCHANGED <<approvalVars, actions, deliveries, accepted, endpointStatus>>

(* The reads and checks, on the row as session.get finds it. *)
CheckComplete(w) ==
    LET o == work[w]
        row == actions[o.action]
    IN
    /\ o.kind = "complete" /\ o.step = "read"
    /\ Served(o.caller, row.endpoint)
    /\ row.status = "leased"
    /\ row.token = o.token
    /\ row.leaseExpires > o.now
    /\ work' = [work EXCEPT ![w].step = "write"]
    /\ UNCHANGED <<approvalVars, actions, deliveries, accepted, endpointStatus>>

(* Mistake: a status the table does not have. *)
WriteUntypedResult(w) ==
    LET o == work[w] IN
    /\ o.kind = "complete" /\ o.step = "write"
    /\ actions' = [actions EXCEPT ![o.action].status = "done"]
    /\ work' = [work EXCEPT ![w] = NoWork]
    /\ UNCHANGED <<approvalVars, deliveries, accepted, endpointStatus>>

(* The flush: an UPDATE by primary key of the attributes that changed. *)
WriteResult(w) ==
    LET o == work[w] IN
    /\ o.kind = "complete" /\ o.step = "write"
    /\ actions' = [actions EXCEPT ![o.action].status = o.result,
                                  ![o.action].summary = o.summary]
    /\ work' = [work EXCEPT ![w] = NoWork]
    /\ UNCHANGED <<approvalVars, deliveries, accepted, endpointStatus>>

-----------------------------------------------------------------------------
(* The handler ends without effect: a refusal, an exact replay of a result *)
(* already recorded, a failed statement, a lost replica.                   *)
AbandonWork(w) ==
    /\ work[w] # NoWork
    /\ work' = [work EXCEPT ![w] = NoWork]
    /\ IF work[w].kind = "complete" THEN UNCHANGED approvalVars ELSE Abort(w)
    /\ UNCHANGED <<actions, deliveries, accepted, endpointStatus>>

(* approve_pending_endpoint *)
ApproveEndpoint(e) ==
    /\ endpointStatus[e] = "pending"
    /\ endpointStatus' = [endpointStatus EXCEPT ![e] = "active"]
    /\ UNCHANGED <<approvalVars, actions, deliveries, accepted, work>>

(* exchange_enrollment_token of an installation whose endpoint is legacy:  *)
(* device mode, and by the policy of the token active or pending again.    *)
MigrateEndpoint(e) ==
    /\ endpointStatus[e] = "legacy"
    /\ \E status \in {"pending", "active"} : endpointStatus' = [endpointStatus EXCEPT ![e] = status]
    /\ UNCHANGED <<approvalVars, actions, deliveries, accepted, work>>

(* A step of the approval boundary; a worker that runs a response-action   *)
(* handler only takes the steps of the synchronisation.                    *)
ApprovalStep ==
    /\ \/ Tick
       \/ \E r \in RequestIds, kind \in RequestKinds, auth \in Asked, ttl \in Ttls :
              CreateRequest(r, kind, auth, ttl)
       \/ \E w \in Workers :
              \/ HandlerStep(w)
              \/ /\ work[w] = NoWork
                 /\ \/ \E d \in Decisions \cap OperatorCalls, r \in RequestIds :
                           requests[r].status # "absent" /\ Call(w, d, r)
                    \/ \E op \in OperatorCalls \ Decisions : Call(w, op, Nothing)
                    \/ SyncCommit(w)
                    \/ Abort(w)
    /\ UNCHANGED actionVars

ActionStep(w) ==
    \/ \E e \in Endpoints, g \in GrantIds, key \in Keys, spec \in AskedActions :
           grants[g].status # "absent" /\ StartCreate(w, e, g, key, spec)
    \/ CheckCreate(w)
    \/ \E a \in ActionIds : InsertAction(w, a) \/ ReplayCreate(w, a)
    \/ \E e \in Endpoints : StartClaim(w, e)
    \/ \E a \in ActionIds \cup {Nothing} : SelectCandidate(w, a)
    \/ LeaseAction(w)
    \/ ClaimNothing(w)
    \/ \E d \in deliveries, result \in Reported, summary \in Outcomes :
           StartComplete(w, d, result, summary)
    \/ CheckComplete(w)
    \/ WriteResult(w)
    \/ AbandonWork(w)

ActionNext ==
    \/ ApprovalStep
    \/ \E w \in Workers : ActionStep(w)
    \/ \E e \in Endpoints : ApproveEndpoint(e) \/ MigrateEndpoint(e)

ActionSpec == ActionInit /\ [][ActionNext]_allVars
-----------------------------------------------------------------------------
(* Properties *)

(* No two leases of one action are alive at the same time, and no lease    *)
(* token is handed out twice: concurrent claims by several agents or       *)
(* replicas, each with a clock reading older than its commit, never give   *)
(* the same work to two holders (claim_endpoint_response_action).          *)
NoOverlappingLeases ==
    \A d1, d2 \in deliveries :
        d1.action = d2.action /\ d1 # d2 =>
            /\ d1.token # d2.token
            /\ ~(d1.expires > clock /\ d2.expires > clock)

(* Every lease ever handed out was for work that a human approved, and     *)
(* within the bounds of that approval: the grant covers the action on that *)
(* endpoint, a grant that came from a request carries exactly what the     *)
(* request asked for and was approved, and no lease runs for LeaseTicks or *)
(* more past the expiry of its grant, whoever is slow to synchronise it    *)
(* (create_response_action, _validate_grant_scope, decide_approval_request, *)
(* claim_endpoint_response_action).  Which endpoints may be given a lease  *)
(* is part of NoLateLease.                                                 *)
DeliveriesAuthorised ==
    \A d \in deliveries :
        LET row == actions[d.action]
            grant == grants[row.grant]
        IN /\ ValidActionShape(row.spec)
           /\ Covers(grant.auth, row.endpoint, row.spec)
           /\ \A e \in grant.auth.endpoints : ClientOf[e] = ClientOf[row.endpoint]
           /\ grant.request # Nothing =>
                  /\ requests[grant.request].auth = grant.auth
                  /\ "approved" \in events[grant.request]
           /\ d.expires < grant.expires + LeaseTicks

(* Callers that used one idempotency key on one endpoint and were answered *)
(* with success asked for the same thing and got the same action, also     *)
(* when their requests overlapped (create_response_action).                *)
CreationIsIdempotent ==
    \A p, q \in accepted :
        p.endpoint = q.endpoint /\ p.key = q.key => p = q

(* No lease comes from a claim that began too late: neither under a grant  *)
(* that was revoked or expired before the claim began, nor for an endpoint *)
(* that is pending, unless the exchange that ended its legacy mode ran     *)
(* during that very claim (claim_endpoint_response_action,                 *)
(* enforce_endpoint_credential_mode, exchange_enrollment_token).           *)
NoLateLease ==
    [][\A w \in Workers : work[w].kind = "claim" /\ deliveries' # deliveries
           /\ work'[w].kind = "none" =>
           /\ actions[work[w].action].grant \notin work[w].dead
           /\ endpointStatus[work[w].endpoint] = "pending" => work[w].caller = "shared"]_allVars

(* docs/project-guide.md: stale completions cannot overwrite the active    *)
(* attempt, so a result is recorded only by the holder of the lease the    *)
(* row carries (complete_response_action).                                 *)
ResultOwnsLease ==
    [][\A w \in Workers : work[w].kind = "complete" /\ work[w].step = "write"
           /\ work'[w].kind = "none" /\ actions' # actions =>
           actions[work[w].action].token = work[w].token]_allVars
-----------------------------------------------------------------------------
(* The rows of response_actions and the completions between their checks   *)
(* and their flush, as the queue of module ActionQueue sees them.          *)
QueueRows ==
    [a \in ActionIds |-> [status |-> actions[a].status, attempt |-> actions[a].attempts,
                          expires |-> actions[a].leaseExpires]]

AdmittedResults ==
    {[action |-> work[w].action, attempt |-> work[w].token, result |-> work[w].result] :
        w \in {v \in Workers : work[v].kind = "complete" /\ work[v].step = "write"}}

Queue == INSTANCE ActionQueue WITH queue <- QueueRows, admitted <- AdmittedResults, now <- clock

(* The handlers implement the queue: whatever the interleaving of claims,  *)
(* completions and synchronisations that read a row before they write it,  *)
(* each step is one the queue allows or leaves it alone.  In particular a  *)
(* lease is handed out only when none is alive, and a result is recorded   *)
(* only if its attempt once held the action (claim_endpoint_response_action, *)
(* complete_response_action).                                              *)
QueueImplemented == Queue!QueueSpec
=============================================================================
