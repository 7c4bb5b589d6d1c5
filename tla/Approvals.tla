------------------------------ MODULE Approvals ------------------------------
(***************************************************************************)
(* The approval boundary of the control plane: approval requests, the      *)
(* grants that human decisions create from them, emergency grants, the     *)
(* request history, and the lazy synchronisation of expired grants         *)
(* (backend/app/api/endpoints/approvals.py).                               *)
(*                                                                         *)
(* A worker is a backend request handler; two replicas with thread pools   *)
(* run many of them against one PostgreSQL database at READ COMMITTED.  A  *)
(* handler reads the clock once, before its transaction.  Its reads without *)
(* a row lock are steps of their own.  What it writes under row locks      *)
(* becomes visible when it commits, and nothing another transaction can do *)
(* to those rows comes between the lock and the commit, so its locking     *)
(* reads and its writes are one step, the commit.                          *)
(*                                                                         *)
(* _sync_expired_grants is part of every handler that calls it: its SELECT *)
(* of approved grants and its session.get of each linked request are       *)
(* reads without locks, and its writes are UPDATEs by primary key that do  *)
(* not test the status again.                                              *)
(***************************************************************************)
EXTENDS ApprovalRules

CONSTANTS
    Workers,       \* concurrent request handlers
    RequestIds,    \* approval request ids, each used at most once
    GrantIds,      \* approval grant ids, each used at most once
    Asked,         \* the authorities callers ask for (inputs)
    Ttls,          \* the requested_ttl_minutes callers ask for (inputs)
    MaxClock       \* bound on the clock

ASSUME ApprovalsAssumption ==
    /\ Asked \subseteq Authorities
    /\ Ttls \subseteq Nat
    /\ MaxClock \in Nat
    /\ Nothing \notin RequestIds \cup GrantIds

VARIABLES
    clock,         \* the time utc_now() reads, in ticks
    requests,      \* approval_requests rows
    grants,        \* approval_grants rows
    events,        \* approval_request_events: the event types of each request
    txn            \* the handler each worker is running

approvalVars == <<clock, requests, grants, events, txn>>

RequestStatuses == {"absent", "pending", "approved", "denied", "expired", "revoked"}
GrantStatuses   == {"absent", "approved", "expired", "revoked"}
EventTypes      == {"requested", "approved", "denied", "expired", "revoked"}

NoAuthority == [endpoints |-> {}, actions |-> {}, controls |-> {}, scopes |-> {}]

NoRequestRow == [status |-> "absent", auth |-> NoAuthority, ttl |-> 0, grant |-> Nothing]

NoGrantRow == [status |-> "absent", auth |-> NoAuthority, request |-> Nothing, expires |-> 0]

Decisions == {"approve", "deny", "revoke"}

(* The handlers: "sync" is any handler that leaves the approval tables     *)
(* alone but for _sync_expired_grants; "grant" is create_approval_grant.   *)
Ops == Decisions \cup {"sync", "grant"}

Idle == [pc |-> "idle", op |-> "sync", target |-> Nothing, now |-> 0,
         due |-> {}, seen |-> [g \in GrantIds |-> "unread"]]

RequestRows ==
    [status : RequestStatuses, auth : Authorities, ttl : Nat, grant : GrantIds \cup {Nothing}]

GrantRows ==
    [status : GrantStatuses, auth : Authorities, request : RequestIds \cup {Nothing},
     expires : Nat]

Txns ==
    [pc : {"idle", "called", "synced"}, op : Ops, target : RequestIds \cup {Nothing},
     now : Nat, due : SUBSET GrantIds, seen : [GrantIds -> RequestStatuses \cup {"unread"}]]

ApprovalTypeOK ==
    /\ clock \in Nat
    /\ requests \in [RequestIds -> RequestRows]
    /\ grants \in [GrantIds -> GrantRows]
    /\ events \in [RequestIds -> SUBSET EventTypes]
    /\ txn \in [Workers -> Txns]

ApprovalInit ==
    /\ clock = 0
    /\ requests = [r \in RequestIds |-> NoRequestRow]
    /\ grants = [g \in GrantIds |-> NoGrantRow]
    /\ events = [r \in RequestIds |-> {}]
    /\ txn = [w \in Workers |-> Idle]

-----------------------------------------------------------------------------
(* The steps every handler shares. *)

Tick ==
    /\ clock < MaxClock
    /\ clock' = clock + 1
    /\ UNCHANGED <<requests, grants, events, txn>>

(* A handler starts: it reads the clock and opens its transaction. *)
Call(w, op, target) ==
    /\ txn[w].pc = "idle"
    /\ txn' = [txn EXCEPT ![w] =
                 [Idle EXCEPT !.pc = "called", !.op = op,
                              !.target = target, !.now = clock]]
    /\ UNCHANGED <<clock, requests, grants, events>>

(* Mistake: the SELECT forgets the expiry time. *)
AllDue(now) == {g \in GrantIds : grants[g].status = "approved"}

(* _sync_expired_grants, its SELECT: the approved grants that are due. *)
DueGrants(now) == {g \in GrantIds : grants[g].status = "approved" /\ grants[g].expires <= now}

SyncSelect(w) ==
    /\ txn[w].pc = "called"
    /\ txn[w].op # "grant"
    /\ txn' = [txn EXCEPT ![w].pc = "synced", ![w].due = DueGrants(txn[w].now)]
    /\ UNCHANGED <<clock, requests, grants, events>>

(* _sync_expired_grants, its session.get of the request linked to grant g. *)
SyncGet(w, g) ==
    /\ txn[w].pc = "synced"
    /\ g \in txn[w].due
    /\ grants[g].request # Nothing
    /\ txn[w].seen[g] = "unread"
    /\ txn' = [txn EXCEPT ![w].seen[g] = requests[grants[g].request].status]
    /\ UNCHANGED <<clock, requests, grants, events>>

SyncDone(w) ==
    /\ txn[w].pc = "synced"
    /\ \A g \in txn[w].due : grants[g].request = Nothing \/ txn[w].seen[g] # "unread"

(* The requests whose status the loop sets to "expired". *)
Expiring(w) == {grants[g].request : g \in {d \in txn[w].due : txn[w].seen[d] = "approved"}}

(* What the loop's flushes write: UPDATEs by primary key, and an "expired" *)
(* event that a savepoint drops when the request already has one.          *)
SyncedGrants(w) ==
    [g \in GrantIds |-> IF g \in txn[w].due
                        THEN [grants[g] EXCEPT !.status = "expired"] ELSE grants[g]]

SyncedRequests(w) ==
    [r \in RequestIds |-> IF r \in Expiring(w)
                          THEN [requests[r] EXCEPT !.status = "expired"] ELSE requests[r]]

SyncedEvents(w) ==
    [r \in RequestIds |-> IF r \in Expiring(w) THEN events[r] \cup {"expired"} ELSE events[r]]

Finish(w) == txn' = [txn EXCEPT ![w] = Idle]

(* The transaction ends without effect: a refusal raised inside it (404,   *)
(* 409, 422), a constraint violation, a deadlock victim, a lost replica.   *)
(* What the synchronisation wrote is rolled back with the rest.            *)
Abort(w) ==
    /\ txn[w].pc # "idle"
    /\ Finish(w)
    /\ UNCHANGED <<clock, requests, grants, events>>

-----------------------------------------------------------------------------
(* Mistake: a request is created with a status the table does not have. *)
CreateUntypedRequest(r, kind, auth, ttl) ==
    /\ requests[r].status = "absent"
    /\ ValidRequestShape(kind, auth) /\ SingleClient(auth)
    /\ requests' = [requests EXCEPT ![r].status = "requested"]
    /\ UNCHANGED <<clock, grants, events, txn>>

(* create_approval_request *)
CreateRequest(r, kind, auth, ttl) ==
    /\ requests[r].status = "absent"
    /\ MinTtl <= ttl /\ ttl <= MaxTtl
    /\ ValidRequestShape(kind, auth)
    /\ SingleClient(auth)
    /\ requests' = [requests EXCEPT ![r] =
                      [status |-> "pending", auth |-> auth, ttl |-> ttl, grant |-> Nothing]]
    /\ events' = [events EXCEPT ![r] = @ \cup {"requested"}]
    /\ UNCHANGED <<clock, grants, txn>>

(* create_approval_grant: an emergency grant, linked to no request. *)
CreateGrant(w, g, auth, expires) ==
    /\ txn[w].pc = "called"
    /\ txn[w].op = "grant"
    /\ grants[g].status = "absent"
    /\ expires \in GrantExpiries(txn[w].now, MaxTtl)
    /\ SingleClient(auth)
    /\ ValidManualGrantShape(auth)
    /\ grants' = [grants EXCEPT ![g] =
                    [status |-> "approved", auth |-> auth, request |-> Nothing,
                     expires |-> expires]]
    /\ Finish(w)
    /\ UNCHANGED <<clock, requests, events>>

(* list_approval_requests, list_approval_grants and the response-action    *)
(* handlers: the synchronisation and nothing else.                         *)
SyncCommit(w) ==
    /\ SyncDone(w)
    /\ txn[w].op = "sync"
    /\ grants' = SyncedGrants(w)
    /\ requests' = SyncedRequests(w)
    /\ events' = SyncedEvents(w)
    /\ Finish(w)
    /\ UNCHANGED clock

(* Mistake: the decision does not look at the status it found. *)
DecideAnyRequest(w, r, from, to, event) ==
    /\ SyncDone(w)
    /\ event \notin SyncedEvents(w)[r]
    /\ requests' = [SyncedRequests(w) EXCEPT ![r] = to]
    /\ events' = [SyncedEvents(w) EXCEPT ![r] = @ \cup {event}]
    /\ Finish(w)
    /\ UNCHANGED clock

(* Mistake: the decision leaves no event. *)
DecideSilently(w, r, from, to, event) ==
    /\ SyncDone(w)
    /\ SyncedRequests(w)[r].status = from
    /\ requests' = [SyncedRequests(w) EXCEPT ![r] = to]
    /\ events' = SyncedEvents(w)
    /\ Finish(w)
    /\ UNCHANGED clock

(* The end of decide_approval_request: the locked request r moves from     *)
(* `from` to the row `to`, and the decision's event joins its history (a   *)
(* second event of a type would break a unique constraint).                *)
DecideRequest(w, r, from, to, event) ==
    /\ SyncDone(w)
    /\ SyncedRequests(w)[r].status = from
    /\ event \notin SyncedEvents(w)[r]
    /\ requests' = [SyncedRequests(w) EXCEPT ![r] = to]
    /\ events' = [SyncedEvents(w) EXCEPT ![r] = @ \cup {event}]
    /\ Finish(w)
    /\ UNCHANGED clock

(* The unique constraint on approval_grants.approval_request_id. *)
HasGrant(r) == \E g \in GrantIds : grants[g].request = r

Approve(w, g, expires) ==
    LET r == txn[w].target IN
    /\ txn[w].op = "approve"
    /\ grants[g].status = "absent"
    /\ ~HasGrant(r)
    /\ expires \in GrantExpiries(txn[w].now, requests[r].ttl)
    /\ DecideRequest(w, r, "pending",
                     [requests[r] EXCEPT !.status = "approved", !.grant = g], "approved")
    /\ grants' = [SyncedGrants(w) EXCEPT ![g] =
                    [status |-> "approved", auth |-> requests[r].auth, request |-> r,
                     expires |-> expires]]

Deny(w) ==
    LET r == txn[w].target IN
    /\ txn[w].op = "deny"
    /\ DecideRequest(w, r, "pending", [requests[r] EXCEPT !.status = "denied"], "denied")
    /\ grants' = SyncedGrants(w)

(* Mistake: the grant is left as it was. *)
RevokeRequestOnly(w) ==
    LET r == txn[w].target IN
    /\ txn[w].op = "revoke"
    /\ DecideRequest(w, r, "approved", [requests[r] EXCEPT !.status = "revoked"], "revoked")
    /\ grants' = SyncedGrants(w)

Revoke(w) ==
    LET r == txn[w].target IN
    /\ txn[w].op = "revoke"
    /\ DecideRequest(w, r, "approved", [requests[r] EXCEPT !.status = "revoked"], "revoked")
    /\ grants' = [g \in GrantIds |->
                    IF SyncedGrants(w)[g].request = r /\ SyncedGrants(w)[g].status = "approved"
                    THEN [SyncedGrants(w)[g] EXCEPT !.status = "revoked"]
                    ELSE SyncedGrants(w)[g]]

-----------------------------------------------------------------------------
HandlerStep(w) ==
    \/ SyncSelect(w)
    \/ \E g \in GrantIds : SyncGet(w, g)
    \/ Deny(w) \/ Revoke(w)
    \/ \E g \in GrantIds, t \in 0 .. (MaxClock + (MaxTtl + 1) * MinuteTicks) :
           \/ Approve(w, g, t)
           \/ \E auth \in Asked : CreateGrant(w, g, auth, t)

ApprovalNext ==
    \/ Tick
    \/ \E r \in RequestIds, kind \in RequestKinds, auth \in Asked, ttl \in Ttls :
           CreateRequest(r, kind, auth, ttl)
    \/ \E w \in Workers :
           \/ \E d \in Decisions, r \in RequestIds :
                  requests[r].status # "absent" /\ Call(w, d, r)
           \/ \E op \in {"sync", "grant"} : Call(w, op, Nothing)
           \/ HandlerStep(w)
           \/ SyncCommit(w)
           \/ Abort(w)

ApprovalSpec == ApprovalInit /\ [][ApprovalNext]_approvalVars
-----------------------------------------------------------------------------
(* Properties *)

Linked(g) == grants[g].request # Nothing

Consistent(gs, rs) ==
    /\ \A g \in GrantIds : gs[g].status = "absent" => gs[g].request = Nothing
    /\ \A g \in GrantIds : gs[g].request # Nothing =>
           /\ rs[gs[g].request].grant = g
           /\ rs[gs[g].request].status \in {"approved", "expired", "revoked"}
           /\ (gs[g].status = "approved") <=> (rs[gs[g].request].status = "approved")
    /\ \A r \in RequestIds : rs[r].status = "approved" =>
           \E g \in GrantIds : gs[g].request = r

(* A request-approved grant and its request stand or fall together: the    *)
(* grant is approved exactly while its request is, whatever the order in   *)
(* which decisions and expiry synchronisations that read either row        *)
(* earlier commit; an approved request always has its one grant, and a     *)
(* request that was never approved has none.  A revoked or expired request *)
(* that left its grant approved would still authorise actions              *)
(* (decide_approval_request, _sync_expired_grants).                        *)
GrantFollowsRequest == Consistent(grants, requests)

(* What a handler between its reads and its commit may rely on: the grants *)
(* it is about to expire exist, a request it saw out of "approved" has not *)
(* come back, it has seen nothing before its first read, and a decision    *)
(* has a request.                                                          *)
ReadsStayTrue ==
    \A w \in Workers :
        /\ \A g \in txn[w].due :
               /\ grants[g].status # "absent"
               /\ grants[g].request # Nothing /\ txn[w].seen[g] \notin {"unread", "approved"}
                      => requests[grants[g].request].status # "approved"
        /\ txn[w].pc = "called" => \A g \in GrantIds : txn[w].seen[g] = "unread"
        /\ txn[w].pc # "idle" /\ txn[w].op \in Decisions => txn[w].target \in RequestIds

(* The inductive invariant. *)
ApprovalInv == ApprovalTypeOK /\ GrantFollowsRequest /\ ReadsStayTrue

(* The history tells the whole story: the current status of a request is   *)
(* in its history, a denied request was never approved and holds no grant, *)
(* and only an approved request was ever revoked or expired                *)
(* (_create_audit_event, called by each decision and by the loop of        *)
(* _sync_expired_grants).                                                  *)
HistoryExplainsStatus ==
    \A r \in RequestIds :
        /\ requests[r].status \in EventTypes => requests[r].status \in events[r]
        /\ requests[r].status = "pending" => events[r] = {"requested"}
        /\ "denied" \in events[r] => events[r] = {"requested", "denied"} /\ ~HasGrant(r)
        /\ {"revoked", "expired"} \cap events[r] # {} => "approved" \in events[r]

(* Expiry is never early: a grant marked expired has reached its expiry    *)
(* time, and so has the grant of a request marked expired, although the    *)
(* marking may use a clock reading much older than the commit              *)
(* (_sync_expired_grants).                                                 *)
ExpiryNotEarly ==
    \A g \in GrantIds :
        \/ grants[g].status = "expired"
        \/ Linked(g) /\ requests[grants[g].request].status = "expired"
        => grants[g].expires <= clock

(* A grant that has been revoked or has expired never authorises again,    *)
(* and a request that has left "approved" or was denied never returns to   *)
(* a state that can be approved, although _sync_expired_grants overwrites  *)
(* rows whose status it read before other transactions changed them.       *)
NoRevival ==
    [][/\ \A g \in GrantIds : grants[g].status \in {"expired", "revoked"} =>
              grants'[g].status \in {"expired", "revoked"}
       /\ \A r \in RequestIds : requests[r].status \in {"denied", "expired", "revoked"} =>
              requests'[r].status \in {"denied", "expired", "revoked"}]_approvalVars

(* agent/docs/agent-contract.md: denied, expired and revoked requests are  *)
(* terminal, so their status never changes again.                          *)
TerminalRequestsStay ==
    [][\A r \in RequestIds : requests[r].status \in {"denied", "expired", "revoked"} =>
           requests'[r].status = requests[r].status]_approvalVars

(* agent/docs/agent-contract.md: an approval's expires_at is at most the   *)
(* decision time plus requested_ttl_minutes (the check is                  *)
(* _validate_grant_expiry's).                                              *)
GrantWithinRequestedTtl ==
    [][\A w \in Workers, g \in GrantIds :
           /\ txn[w].op = "approve" /\ txn[w].pc = "synced" /\ txn'[w].pc = "idle"
           /\ grants[g].status = "absent" /\ grants'[g].status = "approved"
           => grants'[g].expires <= txn[w].now + requests[txn[w].target].ttl * MinuteTicks
      ]_approvalVars
=============================================================================
