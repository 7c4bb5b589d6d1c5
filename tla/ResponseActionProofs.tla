------------------------ MODULE ResponseActionProofs ------------------------
(***************************************************************************)
(* Theorems about the delivery of response actions, for every set of       *)
(* workers, endpoints, grants, actions and keys, and every lease length.   *)
(***************************************************************************)
EXTENDS ResponseActions, ApprovalProofs

-----------------------------------------------------------------------------
(* The inductive invariant *)

(* A row of response_actions: its token is the number of its attempts, it  *)
(* has none before its first claim, and once created it names a grant that *)
(* covers what it asks for.                                                *)
RowSound(a) ==
    LET row == actions[a] IN
    /\ row.token = row.attempts
    /\ row.status \in {"absent", "queued"} => row.attempts = 0
    /\ row.status = "absent" => row.leaseExpires = 0
    /\ row.status # "absent" =>
           /\ row.endpoint \in Endpoints /\ row.grant \in GrantIds /\ row.key \in Keys
           /\ grants[row.grant].status # "absent"
           /\ ValidActionShape(row.spec)
           /\ Covers(grants[row.grant].auth, row.endpoint, row.spec)

(* The unique constraint on the endpoint and the idempotency key. *)
KeysUnique ==
    \A a, b \in ActionIds :
        /\ actions[a].status # "absent" /\ actions[b].status # "absent"
        /\ actions[a].endpoint = actions[b].endpoint /\ actions[a].key = actions[b].key
        => a = b

(* What a caller was told is still so. *)
AcceptedSound ==
    \A p \in accepted :
        LET row == actions[p.action] IN
        /\ row.status # "absent"
        /\ row.endpoint = p.endpoint /\ row.key = p.key
        /\ row.grant = p.grant /\ row.spec = p.spec

(* A lease handed out is the current one of its action or has run out, it  *)
(* began before the grant expired.                                         *)
LeaseSound(d) ==
    LET row == actions[d.action] IN
    /\ row.status \notin {"absent", "queued"}
    /\ 1 <= d.token /\ d.token <= row.attempts
    /\ d.token = row.attempts => d.expires = row.leaseExpires
    /\ d.token < row.attempts => d.expires <= clock
    /\ d.expires < grants[row.grant].expires + LeaseTicks

TokensUnique ==
    \A d1, d2 \in deliveries : d1.action = d2.action /\ d1.token = d2.token => d1 = d2

(* A handler between its steps.  A creation or a claim is a "sync" handler *)
(* of the approval boundary; what it read stays true until it writes.      *)
CreateSound(w) ==
    LET o == work[w] IN
    /\ txn[w].pc # "idle" /\ txn[w].op = "sync"
    /\ o.endpoint \in Endpoints /\ o.grant \in GrantIds /\ o.key \in Keys
    /\ grants[o.grant].status # "absent"
    /\ ValidActionShape(o.spec)
    /\ o.step = "write" => Covers(grants[o.grant].auth, o.endpoint, o.spec)

ClaimSound(w) ==
    LET o == work[w]
        row == actions[o.action]
    IN
    /\ txn[w].pc # "idle" /\ txn[w].op = "sync"
    /\ o.endpoint \in Endpoints
    /\ \A g \in o.dead : grants[g].status \in {"expired", "revoked"}
    /\ o.caller = "device" => endpointStatus[o.endpoint] # "legacy"
    /\ o.step = "write" /\ o.action # Nothing =>
           /\ row.status # "absent"
           /\ row.endpoint = o.endpoint
           /\ o.caller = "device" => endpointStatus[o.endpoint] = "active"
           /\ grants[row.grant].expires > txn[w].now
           /\ row.grant \notin o.dead

CompleteSound(w) ==
    LET o == work[w] IN
    /\ o.action \in ActionIds /\ o.summary \in Outcomes
    /\ actions[o.action].status \notin {"absent", "queued"}

WorkSound(w) ==
    /\ work[w].kind = "create" => CreateSound(w)
    /\ work[w].kind = "claim" => ClaimSound(w)
    /\ work[w].kind = "complete" => CompleteSound(w)

RowsSound == \A a \in ActionIds : RowSound(a)
LeasesSound == TokensUnique /\ \A d \in deliveries : LeaseSound(d)
WorksSound == \A w \in Workers : WorkSound(w)

ActionInv ==
    ActionTypeOK /\ RowsSound /\ KeysUnique /\ AcceptedSound /\ LeasesSound /\ WorksSound
-----------------------------------------------------------------------------
(* The approval boundary below *)

(* A step of an endpoint's own status. *)
EndpointStep(e) == ApproveEndpoint(e) \/ MigrateEndpoint(e)

(* A creation and a claim begin with a call of the synchronisation. *)
LEMMA StartsCall ==
    ASSUME NEW w
    PROVE  /\ \A e, g, key, spec : StartCreate(w, e, g, key, spec) => Call(w, "sync", Nothing)
           /\ \A e : StartClaim(w, e) => Call(w, "sync", Nothing)
  <1>1. ASSUME NEW e, NEW g, NEW key, NEW spec, StartCreate(w, e, g, key, spec)
        PROVE  Call(w, "sync", Nothing)
    BY <1>1, Zenon DEF StartCreate
  <1>2. ASSUME NEW e, StartClaim(w, e)
        PROVE  Call(w, "sync", Nothing)
    BY <1>2, Zenon DEF StartClaim
  <1>3. QED
    BY <1>1, <1>2, Zenon

(* They end with its commit. *)
LEMMA EndsCommit ==
    ASSUME NEW w
    PROVE  /\ \A a : InsertAction(w, a) => SyncCommit(w)
           /\ \A a : ReplayCreate(w, a) => SyncCommit(w)
           /\ LeaseAction(w) => SyncCommit(w)
           /\ ClaimNothing(w) => SyncCommit(w)
           /\ AbandonWork(w) => Abort(w) \/ UNCHANGED approvalVars
  <1>1. \A a : InsertAction(w, a) => SyncCommit(w)
    BY Zenon DEF InsertAction
  <1>2. \A a : ReplayCreate(w, a) => SyncCommit(w)
    BY Zenon DEF ReplayCreate
  <1>3. LeaseAction(w) => SyncCommit(w)
    BY Zenon DEF LeaseAction
  <1>4. ClaimNothing(w) => SyncCommit(w)
    BY Zenon DEF ClaimNothing
  <1>5. AbandonWork(w) => Abort(w) \/ UNCHANGED approvalVars
    BY Zenon DEF AbandonWork
  <1>6. QED
    BY <1>1, <1>2, <1>3, <1>4, <1>5, Zenon

(* The other steps of a handler leave the approval tables alone. *)
LEMMA BoundaryAlone ==
    ASSUME NEW w
    PROVE  /\ CheckCreate(w) => UNCHANGED approvalVars
           /\ \A a : SelectCandidate(w, a) => UNCHANGED approvalVars
           /\ \A d, result, summary :
                  StartComplete(w, d, result, summary) => UNCHANGED approvalVars
           /\ CheckComplete(w) => UNCHANGED approvalVars
           /\ WriteResult(w) => UNCHANGED approvalVars
  <1>1. CheckCreate(w) => UNCHANGED approvalVars
    BY Zenon DEF CheckCreate
  <1>2. \A a : SelectCandidate(w, a) => UNCHANGED approvalVars
    BY Zenon DEF SelectCandidate
  <1>3. \A d, result, summary : StartComplete(w, d, result, summary) => UNCHANGED approvalVars
    BY Zenon DEF StartComplete
  <1>4. CheckComplete(w) => UNCHANGED approvalVars
    BY Zenon DEF CheckComplete
  <1>5. WriteResult(w) => UNCHANGED approvalVars
    BY Zenon DEF WriteResult
  <1>6. QED
    BY <1>1, <1>2, <1>3, <1>4, <1>5, Zenon

(* Every step of a response-action handler is, for the approval boundary,  *)
(* one of its own steps or none.                                           *)
LEMMA ApprovalPart == [ActionNext]_allVars => [ApprovalNext]_approvalVars
  <1> SUFFICES ASSUME [ActionNext]_allVars
               PROVE  [ApprovalNext]_approvalVars
    OBVIOUS
  <1>1. CASE ApprovalStep
    <2>1. OperatorCalls \ Decisions \subseteq {"sync", "grant"}
      BY ActionsAssumption DEF Ops
    <2>2. QED
      BY <1>1, <2>1 DEF ApprovalStep, ApprovalNext
  <1>2. ASSUME NEW w \in Workers, ActionStep(w)
        PROVE  [ApprovalNext]_approvalVars
    <2>1. Call(w, "sync", Nothing) => ApprovalNext
      BY DEF ApprovalNext
    <2>2. SyncCommit(w) \/ Abort(w) => ApprovalNext
      BY DEF ApprovalNext
    <2>3. /\ \A e, g, key, spec : StartCreate(w, e, g, key, spec) => ApprovalNext
          /\ \A e : StartClaim(w, e) => ApprovalNext
      BY <2>1, StartsCall, Zenon
    <2>4. QED
      BY <1>2, <2>2, <2>3, EndsCommit, BoundaryAlone, Zenon DEF ActionStep
  <1>3. ASSUME NEW e \in Endpoints, EndpointStep(e)
        PROVE  [ApprovalNext]_approvalVars
    BY <1>3 DEF EndpointStep, ApproveEndpoint, MigrateEndpoint
  <1>4. CASE UNCHANGED allVars
    BY <1>4 DEF allVars
  <1>5. QED
    BY <1>1, <1>2, <1>3, <1>4 DEF ActionNext, EndpointStep

(* The response-action handlers respect the approval boundary: running     *)
(* them beside it gives no behaviour of the approval tables that the       *)
(* boundary does not have on its own, so that everything proved about it   *)
(* holds of the composed system.                                           *)
THEOREM ActionsKeepBoundary == ActionSpec => ApprovalSpec
  <1>1. ActionInit => ApprovalInit
    BY DEF ActionInit
  <1>2. QED
    BY <1>1, ApprovalPart, PTL DEF ActionSpec, ApprovalSpec
-----------------------------------------------------------------------------
(* The kinds of step *)

(* A step of the composed system is a step of a response-action handler,   *)
(* of an endpoint's own status, or leaves the handlers' state alone.       *)
LEMMA ActionCases ==
    ASSUME [ActionNext]_allVars
    PROVE  \/ UNCHANGED actionVars
           \/ \E w \in Workers : ActionStep(w)
           \/ \E e \in Endpoints : EndpointStep(e)
  <1>1. ApprovalStep => UNCHANGED actionVars
    BY DEF ApprovalStep
  <1>2. UNCHANGED allVars => UNCHANGED actionVars
    BY DEF allVars
  <1>3. QED
    BY <1>1, <1>2, Zenon DEF ActionNext, EndpointStep

(* The steps of a handler that write no row of response_actions. *)
LEMMA QuietSteps ==
    ASSUME NEW w \in Workers
    PROVE  /\ \A e \in Endpoints, g \in GrantIds, key \in Keys, spec \in AskedActions :
                  StartCreate(w, e, g, key, spec) => UNCHANGED <<actions, deliveries>>
           /\ CheckCreate(w) => UNCHANGED <<actions, deliveries>>
           /\ \A a \in ActionIds : ReplayCreate(w, a) => UNCHANGED <<actions, deliveries>>
           /\ \A e \in Endpoints : StartClaim(w, e) => UNCHANGED <<actions, deliveries>>
           /\ \A a \in ActionIds \cup {Nothing} :
                  SelectCandidate(w, a) => UNCHANGED <<actions, deliveries>>
           /\ ClaimNothing(w) => UNCHANGED <<actions, deliveries>>
           /\ \A d \in deliveries, result \in Reported, summary \in Outcomes :
                  StartComplete(w, d, result, summary) => UNCHANGED <<actions, deliveries>>
           /\ CheckComplete(w) => UNCHANGED <<actions, deliveries>>
           /\ AbandonWork(w) => UNCHANGED <<actions, deliveries>>
  <1>1. /\ \A e \in Endpoints, g \in GrantIds, key \in Keys, spec \in AskedActions :
               StartCreate(w, e, g, key, spec) => UNCHANGED <<actions, deliveries>>
        /\ \A e \in Endpoints : StartClaim(w, e) => UNCHANGED <<actions, deliveries>>
    BY DEF StartCreate, StartClaim
  <1>2. \A a \in ActionIds \cup {Nothing} :
            SelectCandidate(w, a) => UNCHANGED <<actions, deliveries>>
    BY DEF SelectCandidate
  <1>3. CheckCreate(w) \/ CheckComplete(w) => UNCHANGED <<actions, deliveries>>
    BY DEF CheckCreate, CheckComplete
  <1>4. /\ \A a \in ActionIds : ReplayCreate(w, a) => UNCHANGED <<actions, deliveries>>
        /\ ClaimNothing(w) => UNCHANGED <<actions, deliveries>>
    BY DEF ReplayCreate, ClaimNothing
  <1>5. \A d \in deliveries, result \in Reported, summary \in Outcomes :
            StartComplete(w, d, result, summary) => UNCHANGED <<actions, deliveries>>
    BY DEF StartComplete
  <1>6. AbandonWork(w) => UNCHANGED <<actions, deliveries>>
    BY DEF AbandonWork
  <1>7. QED
    BY <1>1, <1>2, <1>3, <1>4, <1>5, <1>6, Zenon

(* The three steps that write to response_actions, and all the others. *)
LEMMA ActionWrites ==
    ASSUME [ActionNext]_allVars
    PROVE  \/ UNCHANGED <<actions, deliveries>>
           \/ \E w \in Workers, a \in ActionIds : InsertAction(w, a)
           \/ \E w \in Workers : LeaseAction(w) \/ WriteResult(w)
  <1>1. UNCHANGED actionVars => UNCHANGED <<actions, deliveries>>
    BY DEF actionVars
  <1>2. \A e \in Endpoints : EndpointStep(e) => UNCHANGED <<actions, deliveries>>
    BY DEF EndpointStep, ApproveEndpoint, MigrateEndpoint
  <1>3. ASSUME NEW w \in Workers, ActionStep(w)
        PROVE  \/ UNCHANGED <<actions, deliveries>>
               \/ \E a \in ActionIds : InsertAction(w, a)
               \/ LeaseAction(w) \/ WriteResult(w)
    BY <1>3, QuietSteps, Zenon DEF ActionStep
  <1>4. QED
    BY <1>1, <1>2, <1>3, ActionCases, Zenon

(* The steps that end a handler. *)
LEMMA HandlersEnd ==
    ASSUME NEW w \in Workers
    PROVE  /\ \A a \in ActionIds : InsertAction(w, a) => work' = [work EXCEPT ![w] = NoWork]
           /\ \A a \in ActionIds : ReplayCreate(w, a) => work' = [work EXCEPT ![w] = NoWork]
           /\ LeaseAction(w) => work' = [work EXCEPT ![w] = NoWork]
           /\ ClaimNothing(w) => work' = [work EXCEPT ![w] = NoWork]
           /\ WriteResult(w) => work' = [work EXCEPT ![w] = NoWork]
           /\ AbandonWork(w) => work' = [work EXCEPT ![w] = NoWork]
  <1>1. \A a \in ActionIds : InsertAction(w, a) => work' = [work EXCEPT ![w] = NoWork]
    BY DEF InsertAction
  <1>2. \A a \in ActionIds : ReplayCreate(w, a) => work' = [work EXCEPT ![w] = NoWork]
    BY DEF ReplayCreate
  <1>3. LeaseAction(w) => work' = [work EXCEPT ![w] = NoWork]
    BY DEF LeaseAction
  <1>4. ClaimNothing(w) \/ WriteResult(w) => work' = [work EXCEPT ![w] = NoWork]
    BY DEF ClaimNothing, WriteResult
  <1>5. AbandonWork(w) => work' = [work EXCEPT ![w] = NoWork]
    BY DEF AbandonWork
  <1>6. QED
    BY <1>1, <1>2, <1>3, <1>4, <1>5, Zenon
-----------------------------------------------------------------------------
(* Type correctness *)

LEMMA NoWorkType == NoWork \in Works
  BY DEF NoWork, Works, NoSpec, ActionSpecs, ApprovalActions, TroubleshootingActions, Terminal,
         Callers

LEMMA NoRowType == NoActionRow \in ActionRows
  BY DEF NoActionRow, ActionRows, NoSpec, ActionSpecs, ApprovalActions, TroubleshootingActions

(* The rows that the two UPDATEs write are rows. *)
LEMMA LeasedRowType ==
    ASSUME NEW row \in ActionRows, NEW n \in Nat, NEW until \in Nat
    PROVE  [row EXCEPT !.status = "leased", !.token = n, !.leaseExpires = until,
                       !.attempts = n] \in ActionRows
  BY DEF ActionRows

LEMMA ResultRowType ==
    ASSUME NEW row \in ActionRows, NEW result \in Terminal, NEW summary \in Outcomes
    PROVE  [row EXCEPT !.status = result, !.summary = summary] \in ActionRows
  BY DEF ActionRows

(* What a claim that has its candidate keeps is a piece of work. *)
LEMMA SelectedType ==
    ASSUME NEW o \in Works, NEW a \in ActionIds \cup {Nothing}
    PROVE  [o EXCEPT !.step = "write", !.action = a] \in Works
  BY DEF Works

(* What a step writes to response_actions. *)
LEMMA ActionsType ==
    ASSUME ActionInv, ApprovalInv, [ActionNext]_allVars
    PROVE  actions' \in [ActionIds -> ActionRows]
  <1>0. /\ actions \in [ActionIds -> ActionRows] /\ work \in [Workers -> Works]
        /\ txn \in [Workers -> Txns]
    BY DEF ActionInv, ActionTypeOK, ApprovalTypeOK
  <1>1. CASE UNCHANGED actions
    BY <1>0, <1>1
  <1>2. ASSUME NEW w \in Workers, NEW a \in ActionIds, InsertAction(w, a)
        PROVE  actions' \in [ActionIds -> ActionRows]
    <2> DEFINE o == work[w]
               row == [NoActionRow EXCEPT !.status = "queued", !.endpoint = o.endpoint,
                                          !.grant = o.grant, !.spec = o.spec,
                                          !.key = o.key, !.created = txn[w].now]
    <2>1. row \in ActionRows
      BY <1>0, NoRowType DEF ActionRows, Works, Txns
    <2>2. actions' = [actions EXCEPT ![a] = row]
      BY <1>2 DEF InsertAction
    <2>3. QED
      BY <1>0, <2>1, <2>2
  <1>3. ASSUME NEW w \in Workers, LeaseAction(w)
        PROVE  actions' \in [ActionIds -> ActionRows]
    <2> DEFINE a == work[w].action
               n == actions[a].attempts + 1
               until == txn[w].now + LeaseTicks
    <2>1. a \in ActionIds
      BY <1>0, <1>3 DEF LeaseAction, StillClaimable, Works
    <2>2. n \in Nat /\ until \in Nat
      BY <1>0, <2>1, ActionsAssumption DEF ActionRows, Txns
    <2>3. [actions[a] EXCEPT !.status = "leased", !.token = n, !.leaseExpires = until,
                             !.attempts = n] \in ActionRows
      BY <1>0, <2>1, <2>2, LeasedRowType
    <2>4. actions' = [actions EXCEPT ![a].status = "leased", ![a].token = n,
                                     ![a].leaseExpires = until, ![a].attempts = n]
      BY <1>3, Zenon DEF LeaseAction
    <2>5. QED
      BY <1>0, <2>1, <2>3, <2>4
  <1>4. ASSUME NEW w \in Workers, WriteResult(w)
        PROVE  actions' \in [ActionIds -> ActionRows]
    <2> DEFINE o == work[w]
    <2>1. o.action \in ActionIds /\ o.summary \in Outcomes
      BY <1>4 DEF WriteResult, ActionInv, WorksSound, WorkSound, CompleteSound
    <2>2. [actions[o.action] EXCEPT !.status = o.result, !.summary = o.summary] \in ActionRows
      BY <1>0, <2>1, ResultRowType DEF Works
    <2>3. QED
      BY <1>0, <1>4, <2>1, <2>2 DEF WriteResult
  <1>5. QED
    BY <1>1, <1>2, <1>3, <1>4, ActionWrites

(* What a step does to the handlers' own state. *)
LEMMA WorksType ==
    ASSUME ActionInv, ApprovalInv, [ActionNext]_allVars
    PROVE  work' \in [Workers -> Works]
  <1>0. work \in [Workers -> Works] /\ clock \in Nat
    BY DEF ActionInv, ActionTypeOK, ApprovalTypeOK
  <1>1. CASE UNCHANGED work
    BY <1>0, <1>1
  <1>2. ASSUME NEW w \in Workers, NEW o \in Works, work' = [work EXCEPT ![w] = o]
        PROVE  work' \in [Workers -> Works]
    BY <1>0, <1>2
  <1>3. ASSUME NEW w \in Workers, NEW e \in Endpoints, NEW g \in GrantIds, NEW key \in Keys,
               NEW spec \in AskedActions, StartCreate(w, e, g, key, spec)
        PROVE  work' \in [Workers -> Works]
    <2>1. [NoWork EXCEPT !.kind = "create", !.step = "read", !.endpoint = e,
                         !.grant = g, !.key = key, !.spec = spec] \in Works
      BY NoWorkType, ActionsAssumption DEF Works
    <2>2. QED
      BY <1>2, <1>3, <2>1 DEF StartCreate
  <1>4. ASSUME NEW w \in Workers, NEW e \in Endpoints, StartClaim(w, e)
        PROVE  work' \in [Workers -> Works]
    <2>1. [NoWork EXCEPT !.kind = "claim", !.step = "read", !.endpoint = e,
                         !.caller = CallerOf(e), !.dead = DeadGrants] \in Works
      BY NoWorkType DEF Works, DeadGrants, CallerOf, Callers
    <2>2. QED
      BY <1>2, <1>4, <2>1 DEF StartClaim
  <1>5. ASSUME NEW w \in Workers, NEW d \in deliveries, NEW result \in Reported,
               NEW summary \in Outcomes, StartComplete(w, d, result, summary)
        PROVE  work' \in [Workers -> Works]
    <2>1. d.action \in ActionIds /\ d.token \in Nat
      BY DEF ActionInv, ActionTypeOK
    <2>0. CallerOf(actions[d.action].endpoint) \in Callers /\ result \in Terminal
      BY ActionsAssumption DEF CallerOf, Callers, Terminal
    <2>2. [NoWork EXCEPT !.kind = "complete", !.step = "read", !.action = d.action,
                         !.token = d.token, !.caller = CallerOf(actions[d.action].endpoint),
                         !.result = result, !.summary = summary, !.now = clock] \in Works
      BY <1>0, <2>0, <2>1, NoWorkType DEF Works
    <2>3. QED
      BY <1>2, <1>5, <2>2 DEF StartComplete
  <1>6. ASSUME NEW w \in Workers, CheckCreate(w) \/ CheckComplete(w)
        PROVE  work' \in [Workers -> Works]
    <2>1. [work[w] EXCEPT !.step = "write"] \in Works
      BY <1>0 DEF Works
    <2>2. QED
      BY <1>0, <1>6, <2>1 DEF CheckCreate, CheckComplete
  <1>7. ASSUME NEW w \in Workers, NEW a \in ActionIds \cup {Nothing}, SelectCandidate(w, a)
        PROVE  work' \in [Workers -> Works]
    <2>1. [work[w] EXCEPT !.step = "write", !.action = a] \in Works
      BY <1>0, SelectedType
    <2>2. QED
      BY <1>0, <1>7, <2>1 DEF SelectCandidate
  <1>8. ASSUME NEW w \in Workers, work' = [work EXCEPT ![w] = NoWork]
        PROVE  work' \in [Workers -> Works]
    BY <1>2, <1>8, NoWorkType
  <1>9. ASSUME NEW w \in Workers, ActionStep(w)
        PROVE  work' \in [Workers -> Works]
    BY <1>9, <1>3, <1>4, <1>5, <1>6, <1>7, <1>8, HandlersEnd, Zenon DEF ActionStep
  <1>10. UNCHANGED actionVars => UNCHANGED work
    BY DEF actionVars
  <1>11. \A e \in Endpoints : EndpointStep(e) => UNCHANGED work
    BY DEF EndpointStep, ApproveEndpoint, MigrateEndpoint
  <1>12. QED
    BY <1>1, <1>9, <1>10, <1>11, ActionCases, Zenon
-----------------------------------------------------------------------------
(* What a step leaves alone *)

(* A response action, once created, keeps its identity and its attempts. *)
RowsKept ==
    \A a \in ActionIds : actions[a].status # "absent" =>
        /\ actions'[a].status # "absent"
        /\ actions[a].status # "queued" => actions'[a].status # "queued"
        /\ actions'[a].endpoint = actions[a].endpoint /\ actions'[a].key = actions[a].key
        /\ actions'[a].grant = actions[a].grant /\ actions'[a].spec = actions[a].spec

(* The row an INSERT makes. *)
LEMMA InsertedRow ==
    ASSUME ActionInv, NEW w \in Workers, NEW a \in ActionIds, InsertAction(w, a)
    PROVE  /\ \A b \in ActionIds : b # a => actions'[b] = actions[b]
           /\ actions[a].status = "absent" /\ actions'[a].status = "queued"
           /\ actions'[a].endpoint = work[w].endpoint /\ actions'[a].key = work[w].key
           /\ actions'[a].grant = work[w].grant /\ actions'[a].spec = work[w].spec
           /\ actions'[a].token = 0 /\ actions'[a].attempts = 0 /\ actions'[a].leaseExpires = 0
           /\ deliveries' = deliveries
           /\ work[w].kind = "create" /\ work[w].step = "write"
           /\ Bound(work[w].endpoint, work[w].key) = {}
  <1>1. actions \in [ActionIds -> ActionRows]
    BY DEF ActionInv, ActionTypeOK
  <1>2. QED
    BY <1>1 DEF InsertAction, NoActionRow

(* The row a claim leases. *)
LEMMA LeasedRow ==
    ASSUME ActionInv, NEW w \in Workers, LeaseAction(w)
    PROVE  LET a == work[w].action IN
           /\ a \in ActionIds
           /\ \A b \in ActionIds : b # a => actions'[b] = actions[b]
           /\ actions'[a].status = "leased"
           /\ actions'[a].endpoint = actions[a].endpoint /\ actions'[a].key = actions[a].key
           /\ actions'[a].grant = actions[a].grant /\ actions'[a].spec = actions[a].spec
           /\ actions'[a].token = actions[a].attempts + 1
           /\ actions'[a].attempts = actions[a].attempts + 1
           /\ actions'[a].leaseExpires = txn[w].now + LeaseTicks
           /\ deliveries' = deliveries \cup {[action |-> a, token |-> actions[a].attempts + 1,
                                              expires |-> txn[w].now + LeaseTicks]}
           /\ Claimable(a, txn[w].now)
           /\ work[w].kind = "claim" /\ work[w].step = "write" /\ work[w].action # Nothing
  <1>1. actions \in [ActionIds -> ActionRows] /\ work \in [Workers -> Works]
    BY DEF ActionInv, ActionTypeOK
  <1>2. work[w].action \in ActionIds
    BY <1>1 DEF LeaseAction, StillClaimable, Works
  <1>3. QED
    <2> DEFINE a == work[w].action
               n == actions[a].attempts + 1
               until == txn[w].now + LeaseTicks
    <2>1. /\ actions' = [actions EXCEPT ![a].status = "leased", ![a].token = n,
                                        ![a].leaseExpires = until, ![a].attempts = n]
          /\ deliveries' = deliveries \cup {[action |-> a, token |-> n, expires |-> until]}
          /\ work[w].kind = "claim" /\ work[w].step = "write"
          /\ StillClaimable(w)
      BY Zenon DEF LeaseAction
    <2>2. actions[a] \in ActionRows
      BY <1>1, <1>2
    <2>3. /\ \A b \in ActionIds : b # a => actions'[b] = actions[b]
          /\ actions'[a].status = "leased"
          /\ actions'[a].endpoint = actions[a].endpoint /\ actions'[a].key = actions[a].key
          /\ actions'[a].grant = actions[a].grant /\ actions'[a].spec = actions[a].spec
          /\ actions'[a].token = n /\ actions'[a].attempts = n
          /\ actions'[a].leaseExpires = until
      <3> HIDE DEF n, until
      <3>1. actions' = [actions EXCEPT ![a] = [@ EXCEPT !.status = "leased", !.token = n,
                                                        !.leaseExpires = until,
                                                        !.attempts = n]]
        BY <1>1, <1>2, <2>1
      <3>2. \A b \in ActionIds : b # a => actions'[b] = actions[b]
        BY <1>1, <3>1
      <3>3. actions'[a] = [actions[a] EXCEPT !.status = "leased", !.token = n,
                                            !.leaseExpires = until, !.attempts = n]
        BY <1>1, <1>2, <3>1
      <3>4. QED
        BY <2>2, <3>2, <3>3 DEF ActionRows
    <2>4. Claimable(a, txn[w].now) /\ a # Nothing
      BY <2>1 DEF StillClaimable
    <2>5. QED
      BY <1>2, <2>1, <2>3, <2>4, Zenon

(* The row a result is written to. *)
LEMMA ResultRow ==
    ASSUME ActionInv, NEW w \in Workers, WriteResult(w)
    PROVE  LET a == work[w].action IN
           /\ a \in ActionIds
           /\ \A b \in ActionIds : b # a => actions'[b] = actions[b]
           /\ actions[a].status \notin {"absent", "queued"}
           /\ actions'[a].status = work[w].result /\ work[w].result \in Terminal
           /\ actions'[a].endpoint = actions[a].endpoint /\ actions'[a].key = actions[a].key
           /\ actions'[a].grant = actions[a].grant /\ actions'[a].spec = actions[a].spec
           /\ actions'[a].token = actions[a].token
           /\ actions'[a].attempts = actions[a].attempts
           /\ actions'[a].leaseExpires = actions[a].leaseExpires
           /\ deliveries' = deliveries
           /\ work[w].kind = "complete" /\ work[w].step = "write"
  <1>1. actions \in [ActionIds -> ActionRows] /\ work \in [Workers -> Works]
    BY DEF ActionInv, ActionTypeOK
  <1>2. /\ work[w].action \in ActionIds
        /\ actions[work[w].action].status \notin {"absent", "queued"}
    BY DEF WriteResult, ActionInv, WorksSound, WorkSound, CompleteSound
  <1>3. work[w].result \in Terminal
    BY <1>1 DEF Works
  <1>4. QED
    BY <1>1, <1>2, <1>3 DEF WriteResult, ActionRows

LEMMA RowsKeptStep ==
    ASSUME ActionInv, [ActionNext]_allVars
    PROVE  RowsKept
  <1>1. CASE UNCHANGED <<actions, deliveries>>
    BY <1>1 DEF RowsKept
  <1>2. ASSUME NEW w \in Workers, NEW a \in ActionIds, InsertAction(w, a)
        PROVE  RowsKept
    BY <1>2, InsertedRow DEF RowsKept
  <1>3. ASSUME NEW w \in Workers, LeaseAction(w)
        PROVE  RowsKept
    BY <1>3, LeasedRow DEF RowsKept
  <1>4. ASSUME NEW w \in Workers, WriteResult(w)
        PROVE  RowsKept
    BY <1>4, ResultRow DEF RowsKept, Terminal
  <1>5. QED
    BY <1>1, <1>2, <1>3, <1>4, ActionWrites

(* No response-action handler changes an endpoint's status. *)
LEMMA HandlersApproveNothing ==
    ASSUME NEW w \in Workers, ActionStep(w)
    PROVE  UNCHANGED endpointStatus
  <1>1. \A e \in Endpoints, g \in GrantIds, key \in Keys, spec \in AskedActions :
            StartCreate(w, e, g, key, spec) => UNCHANGED endpointStatus
    BY DEF StartCreate
  <1>2. CheckCreate(w) \/ CheckComplete(w) \/ WriteResult(w) \/ AbandonWork(w)
        => UNCHANGED endpointStatus
    BY DEF CheckCreate, CheckComplete, WriteResult, AbandonWork
  <1>3. \A a \in ActionIds : InsertAction(w, a) \/ ReplayCreate(w, a)
                             => UNCHANGED endpointStatus
    BY DEF InsertAction, ReplayCreate
  <1>4. \A e \in Endpoints : StartClaim(w, e) => UNCHANGED endpointStatus
    BY DEF StartClaim
  <1>5. \A a \in ActionIds \cup {Nothing} : SelectCandidate(w, a) => UNCHANGED endpointStatus
    BY Zenon DEF SelectCandidate
  <1>6. LeaseAction(w) \/ ClaimNothing(w) => UNCHANGED endpointStatus
    BY DEF LeaseAction, ClaimNothing
  <1>7. \A d \in deliveries, result \in Reported, summary \in Outcomes :
            StartComplete(w, d, result, summary) => UNCHANGED endpointStatus
    BY DEF StartComplete
  <1>8. QED
    BY <1>1, <1>2, <1>3, <1>4, <1>5, <1>6, <1>7, Zenon DEF ActionStep

(* An endpoint in device mode stays in it, and once approved it is never   *)
(* pending again.                                                          *)
LEMMA EndpointsKept ==
    ASSUME ActionInv, [ActionNext]_allVars
    PROVE  /\ endpointStatus' \in [Endpoints -> EndpointStatuses]
           /\ \A e \in Endpoints : endpointStatus[e] = "active" => endpointStatus'[e] = "active"
           /\ \A e \in Endpoints : endpointStatus[e] # "legacy" => endpointStatus'[e] # "legacy"
  <1>0. endpointStatus \in [Endpoints -> EndpointStatuses]
    BY DEF ActionInv, ActionTypeOK
  <1>1. ASSUME NEW e \in Endpoints, EndpointStep(e)
        PROVE  /\ endpointStatus' \in [Endpoints -> EndpointStatuses]
               /\ \A f \in Endpoints :
                      endpointStatus[f] = "active" => endpointStatus'[f] = "active"
               /\ \A f \in Endpoints :
                      endpointStatus[f] # "legacy" => endpointStatus'[f] # "legacy"
    BY <1>0, <1>1 DEF EndpointStep, ApproveEndpoint, MigrateEndpoint, EndpointStatuses
  <1>2. \/ UNCHANGED endpointStatus
        \/ \E e \in Endpoints : EndpointStep(e)
    <2>1. UNCHANGED actionVars => UNCHANGED endpointStatus
      BY DEF actionVars
    <2>2. \A w \in Workers : ActionStep(w) => UNCHANGED endpointStatus
      BY HandlersApproveNothing
    <2>3. QED
      BY <2>1, <2>2, ActionCases, Zenon
  <1>3. QED
    BY <1>0, <1>1, <1>2
-----------------------------------------------------------------------------
(* The rows, the keys and the answers *)

(* Only the two ends of a creation answer a caller. *)
LEMMA AnswersGiven ==
    ASSUME [ActionNext]_allVars
    PROVE  \/ UNCHANGED accepted
           \/ \E w \in Workers, a \in ActionIds : InsertAction(w, a) \/ ReplayCreate(w, a)
  <1>1. UNCHANGED actionVars => UNCHANGED accepted
    BY DEF actionVars
  <1>2. \A e \in Endpoints : EndpointStep(e) => UNCHANGED accepted
    BY DEF EndpointStep, ApproveEndpoint, MigrateEndpoint
  <1>3. ASSUME NEW w \in Workers, ActionStep(w)
        PROVE  \/ UNCHANGED accepted
               \/ \E a \in ActionIds : InsertAction(w, a) \/ ReplayCreate(w, a)
    <2>1. \A e \in Endpoints, g \in GrantIds, key \in Keys, spec \in AskedActions :
              StartCreate(w, e, g, key, spec) => UNCHANGED accepted
      BY DEF StartCreate
    <2>2. CheckCreate(w) \/ CheckComplete(w) \/ WriteResult(w) \/ AbandonWork(w)
          => UNCHANGED accepted
      BY DEF CheckCreate, CheckComplete, WriteResult, AbandonWork
    <2>3. \A e \in Endpoints : StartClaim(w, e) => UNCHANGED accepted
      BY DEF StartClaim
    <2>4. \A a \in ActionIds \cup {Nothing} : SelectCandidate(w, a) => UNCHANGED accepted
      BY Zenon DEF SelectCandidate
    <2>5. LeaseAction(w) \/ ClaimNothing(w) => UNCHANGED accepted
      BY DEF LeaseAction, ClaimNothing
    <2>6. \A d \in deliveries, result \in Reported, summary \in Outcomes :
              StartComplete(w, d, result, summary) => UNCHANGED accepted
      BY DEF StartComplete
    <2>7. QED
      BY <1>3, <2>1, <2>2, <2>3, <2>4, <2>5, <2>6, Zenon DEF ActionStep
  <1>4. QED
    BY <1>1, <1>2, <1>3, ActionCases, Zenon

LEMMA RowsStep ==
    ASSUME BoundaryInv, ActionInv, [ActionNext]_allVars
    PROVE  RowsSound'
  <1>0. ApprovalInv /\ [ApprovalNext]_approvalVars
    BY ApprovalPart DEF BoundaryInv
  <1> DEFINE Granted(a) ==
        /\ actions'[a].endpoint \in Endpoints /\ actions'[a].grant \in GrantIds
        /\ actions'[a].key \in Keys
        /\ grants'[actions'[a].grant].status # "absent"
        /\ ValidActionShape(actions'[a].spec)
        /\ Covers(grants'[actions'[a].grant].auth, actions'[a].endpoint, actions'[a].spec)
  <1>1. ASSUME NEW a \in ActionIds, actions[a].status # "absent"
        PROVE  Granted(a)
    <2>1. /\ actions[a].endpoint \in Endpoints /\ actions[a].grant \in GrantIds
          /\ actions[a].key \in Keys
          /\ grants[actions[a].grant].status # "absent"
          /\ ValidActionShape(actions[a].spec)
          /\ Covers(grants[actions[a].grant].auth, actions[a].endpoint, actions[a].spec)
      BY <1>1 DEF ActionInv, RowsSound, RowSound
    <2>2. /\ actions'[a].endpoint = actions[a].endpoint /\ actions'[a].key = actions[a].key
          /\ actions'[a].grant = actions[a].grant /\ actions'[a].spec = actions[a].spec
      BY <1>1, RowsKeptStep DEF RowsKept
    <2>3. /\ grants'[actions[a].grant].status # "absent"
          /\ grants'[actions[a].grant].auth = grants[actions[a].grant].auth
      BY <1>0, <2>1, GrantsPersist
    <2>4. QED
      BY <2>1, <2>2, <2>3
  <1>2. ASSUME NEW w \in Workers, work[w].kind = "create", work[w].step = "write"
        PROVE  LET o == work[w] IN
               /\ o.endpoint \in Endpoints /\ o.grant \in GrantIds /\ o.key \in Keys
               /\ grants'[o.grant].status # "absent"
               /\ ValidActionShape(o.spec)
               /\ Covers(grants'[o.grant].auth, o.endpoint, o.spec)
    <2>1. CreateSound(w)
      BY <1>2 DEF ActionInv, WorksSound, WorkSound
    <2>2. /\ grants'[work[w].grant].status # "absent"
          /\ grants'[work[w].grant].auth = grants[work[w].grant].auth
      BY <1>0, <2>1, GrantsPersist DEF CreateSound
    <2>3. QED
      BY <1>2, <2>1, <2>2 DEF CreateSound
  <1>3. ASSUME NEW a \in ActionIds
        PROVE  RowSound(a)'
    <2>0. /\ actions[a].token = actions[a].attempts
          /\ actions[a].status \in {"absent", "queued"} => actions[a].attempts = 0
          /\ actions[a].status = "absent" => actions[a].leaseExpires = 0
      BY DEF ActionInv, RowsSound, RowSound
    <2>1. CASE actions'[a] = actions[a]
      BY <1>1, <2>0, <2>1 DEF RowSound
    <2>2. ASSUME NEW w \in Workers, NEW b \in ActionIds, InsertAction(w, b), a = b
          PROVE  RowSound(a)'
      BY <1>2, <2>2, InsertedRow DEF RowSound
    <2>3. ASSUME NEW w \in Workers, LeaseAction(w), a = work[w].action
          PROVE  RowSound(a)'
      <3>1. actions[a].status # "absent"
        BY <2>3, LeasedRow DEF Claimable
      <3>2. QED
        BY <1>1, <2>3, <3>1, LeasedRow DEF RowSound
    <2>4. ASSUME NEW w \in Workers, WriteResult(w), a = work[w].action
          PROVE  RowSound(a)'
      BY <1>1, <2>0, <2>4, ResultRow DEF RowSound, Terminal
    <2>5. QED
      BY <2>1, <2>2, <2>3, <2>4, ActionWrites, InsertedRow, LeasedRow, ResultRow
  <1>4. QED
    BY <1>3 DEF RowsSound

LEMMA KeysStep ==
    ASSUME ActionInv, [ActionNext]_allVars
    PROVE  KeysUnique'
  <1>0. KeysUnique /\ RowsKept
    BY RowsKeptStep DEF ActionInv
  <1>1. ASSUME \A a \in ActionIds : actions'[a].status # "absent" => actions[a].status # "absent"
        PROVE  KeysUnique'
    BY <1>0, <1>1 DEF KeysUnique, RowsKept
  <1>2. ASSUME NEW w \in Workers, NEW a \in ActionIds, InsertAction(w, a)
        PROVE  KeysUnique'
    <2>1. \A b \in ActionIds : actions[b].status # "absent" =>
              ~(actions[b].endpoint = work[w].endpoint /\ actions[b].key = work[w].key)
      BY <1>2, InsertedRow DEF Bound
    <2>2. QED
      BY <1>0, <1>2, <2>1, InsertedRow DEF KeysUnique
  <1>3. ASSUME NEW w \in Workers, LeaseAction(w)
        PROVE  KeysUnique'
    <2>1. /\ \A b \in ActionIds : b # work[w].action => actions'[b] = actions[b]
          /\ Claimable(work[w].action, txn[w].now)
      BY <1>3, LeasedRow
    <2>2. actions[work[w].action].status # "absent"
      BY <2>1 DEF Claimable
    <2>3. QED
      BY <1>1, <2>1, <2>2
  <1>4. ASSUME NEW w \in Workers, WriteResult(w)
        PROVE  KeysUnique'
    <2>1. /\ \A b \in ActionIds : b # work[w].action => actions'[b] = actions[b]
          /\ actions[work[w].action].status # "absent"
      BY <1>4, ResultRow
    <2>2. QED
      BY <1>1, <2>1
  <1>5. QED
    BY <1>1, <1>2, <1>3, <1>4, ActionWrites

LEMMA AcceptedStep ==
    ASSUME ActionInv, [ActionNext]_allVars
    PROVE  /\ AcceptedSound'
           /\ accepted' \subseteq [endpoint : Endpoints, key : Keys, grant : GrantIds,
                                   spec : ActionSpecs, action : ActionIds]
  <1> DEFINE Answers == [endpoint : Endpoints, key : Keys, grant : GrantIds,
                         spec : ActionSpecs, action : ActionIds]
             Good(p) == /\ actions'[p.action].status # "absent"
                        /\ actions'[p.action].endpoint = p.endpoint
                        /\ actions'[p.action].key = p.key
                        /\ actions'[p.action].grant = p.grant
                        /\ actions'[p.action].spec = p.spec
  <1>0. RowsKept /\ accepted \subseteq Answers
    BY RowsKeptStep DEF ActionInv, ActionTypeOK
  <1>1. ASSUME NEW p \in accepted
        PROVE  Good(p) /\ p \in Answers
    BY <1>0 DEF RowsKept, ActionInv, AcceptedSound
  <1>2. ASSUME NEW w \in Workers, work[w].kind = "create", NEW a \in ActionIds, Accept(work[w], a),
               actions'[a].status # "absent", actions'[a].endpoint = work[w].endpoint,
               actions'[a].key = work[w].key, actions'[a].grant = work[w].grant,
               actions'[a].spec = work[w].spec
        PROVE  /\ AcceptedSound'
               /\ accepted' \subseteq Answers
    <2> DEFINE o == work[w]
               p == [endpoint |-> o.endpoint, key |-> o.key, grant |-> o.grant,
                     spec |-> o.spec, action |-> a]
    <2>1. /\ o.endpoint \in Endpoints /\ o.key \in Keys /\ o.grant \in GrantIds
          /\ o.spec \in ActionSpecs
      BY <1>2 DEF ActionInv, WorksSound, WorkSound, CreateSound, ActionTypeOK, Works
    <2>2. p \in Answers /\ Good(p)
      BY <1>2, <2>1
    <2>3. accepted' = accepted \cup {p}
      BY <1>2 DEF Accept
    <2>4. QED
      BY <1>1, <2>2, <2>3 DEF AcceptedSound
  <1>3. ASSUME NEW w \in Workers, NEW a \in ActionIds, InsertAction(w, a)
        PROVE  /\ AcceptedSound'
               /\ accepted' \subseteq Answers
    <2>1. Accept(work[w], a)
      BY <1>3 DEF InsertAction
    <2>2. QED
      BY <1>2, <1>3, <2>1, InsertedRow
  <1>4. ASSUME NEW w \in Workers, NEW a \in ActionIds, ReplayCreate(w, a)
        PROVE  /\ AcceptedSound'
               /\ accepted' \subseteq Answers
    <2>1. /\ Accept(work[w], a) /\ work[w].kind = "create"
          /\ actions' = actions /\ actions[a].status # "absent"
          /\ actions[a].endpoint = work[w].endpoint /\ actions[a].key = work[w].key
          /\ actions[a].grant = work[w].grant /\ actions[a].spec = work[w].spec
      BY <1>4 DEF ReplayCreate, Bound, SameRequest
    <2>2. QED
      BY <1>2, <2>1
  <1>5. CASE UNCHANGED accepted
    BY <1>1, <1>5 DEF AcceptedSound
  <1>6. QED
    BY <1>3, <1>4, <1>5, AnswersGiven, Zenon
-----------------------------------------------------------------------------
(* The leases *)

(* A lease that was sound before a step is sound after it, unless the step *)
(* is a claim of the same action.                                          *)
LEMMA OldLease ==
    ASSUME BoundaryInv, ActionInv, [ActionNext]_allVars, NEW d \in deliveries,
           actions'[d.action].attempts = actions[d.action].attempts,
           actions'[d.action].leaseExpires = actions[d.action].leaseExpires
    PROVE  LeaseSound(d)'
  <1> DEFINE row == actions[d.action]
  <1>0. LeaseSound(d) /\ d.action \in ActionIds /\ d.expires \in Nat /\ RowSound(d.action)
    BY DEF ActionInv, LeasesSound, ActionTypeOK, RowsSound
  <1>1. /\ row.endpoint \in Endpoints /\ row.grant \in GrantIds
        /\ grants[row.grant].status # "absent"
    BY <1>0 DEF LeaseSound, RowSound
  <1>2. /\ ApprovalInv /\ [ApprovalNext]_approvalVars
        /\ clock \in Nat /\ clock' \in Nat /\ clock <= clock'
    BY ApprovalPart, ClockStep DEF BoundaryInv, ApprovalInv, ApprovalTypeOK
  <1>3. grants'[row.grant].expires = grants[row.grant].expires
    BY <1>1, <1>2, GrantsPersist
  <1>5. /\ actions'[d.action].status \notin {"absent", "queued"}
        /\ actions'[d.action].endpoint = row.endpoint /\ actions'[d.action].grant = row.grant
    BY <1>0, RowsKeptStep DEF RowsKept, LeaseSound
  <1>6. d.expires <= clock => d.expires <= clock'
    BY <1>0, <1>2
  <1>7. QED
    BY <1>0, <1>3, <1>5, <1>6 DEF LeaseSound

(* The lease a claim replaces has run out, by the clock the claim read and *)
(* so by now; the new one has a token no other has.                        *)
LEMMA NewLease ==
    ASSUME BoundaryInv, ActionInv, [ActionNext]_allVars, NEW w \in Workers, LeaseAction(w)
    PROVE  LeasesSound' /\ deliveries' \subseteq [action : ActionIds, token : Nat, expires : Nat]
  <1> DEFINE a == work[w].action
             row == actions[a]
             n == actions[a].attempts + 1
             until == txn[w].now + LeaseTicks
             new == [action |-> a, token |-> n, expires |-> until]
  <1>0. /\ a \in ActionIds /\ deliveries' = deliveries \cup {new}
        /\ Claimable(a, txn[w].now) /\ row.status # "absent"
        /\ work[w].kind = "claim" /\ work[w].step = "write" /\ a # Nothing
    BY LeasedRow DEF Claimable
  <1>1. /\ \A b \in ActionIds : b # a => actions'[b] = actions[b]
        /\ actions'[a].status = "leased"
        /\ actions'[a].endpoint = row.endpoint /\ actions'[a].grant = row.grant
        /\ actions'[a].attempts = n /\ actions'[a].leaseExpires = until
    BY LeasedRow
  <1>2. /\ ApprovalInv /\ [ApprovalNext]_approvalVars /\ txn[w].now <= clock
        /\ clock \in Nat /\ clock' \in Nat /\ clock <= clock' /\ txn[w].now \in Nat
        /\ LeaseTicks \in Nat /\ LeaseTicks > 0
    BY ApprovalPart, ClockStep, ActionsAssumption
    DEF BoundaryInv, ExpiryInv, ApprovalInv, ApprovalTypeOK, Txns
  <1>3. /\ row.attempts \in Nat /\ row.leaseExpires \in Nat /\ n \in Nat /\ until \in Nat
        /\ deliveries \subseteq [action : ActionIds, token : Nat, expires : Nat]
    BY <1>0, <1>2 DEF ActionInv, ActionTypeOK, ActionRows
  <1>4. /\ row.endpoint \in Endpoints /\ row.grant \in GrantIds
        /\ grants[row.grant].status # "absent"
        /\ row.status = "queued" => row.attempts = 0
    BY <1>0 DEF ActionInv, RowsSound, RowSound
  <1>5. /\ grants'[row.grant].expires = grants[row.grant].expires
        /\ grants[row.grant].expires \in Nat
    BY <1>2, <1>4, GrantsPersist DEF ApprovalInv, ApprovalTypeOK, GrantRows
  <1>6. grants[row.grant].expires > txn[w].now
    <2>1. ClaimSound(w)
      BY <1>0 DEF ActionInv, WorksSound, WorkSound
    <2>2. QED
      BY <1>0, <2>1 DEF ClaimSound
  <1>7. ASSUME NEW d, d = new
        PROVE  LeaseSound(d)'
    <2>1. d.action = a /\ d.token = n /\ d.expires = until
      BY <1>7
    <2>2. until < grants[row.grant].expires + LeaseTicks
      BY <1>2, <1>5, <1>6
    <2>3. QED
      BY <1>1, <1>3, <1>5, <1>6, <2>1, <2>2 DEF LeaseSound
  <1>8. ASSUME NEW d \in deliveries, d.action = a
        PROVE  LeaseSound(d)' /\ d.token # n
    <2>1. LeaseSound(d) /\ d.token \in Nat /\ d.expires \in Nat
      BY <1>3 DEF ActionInv, LeasesSound
    <2>2. /\ row.status \notin {"absent", "queued"}
          /\ 1 <= d.token /\ d.token <= row.attempts
          /\ d.token = row.attempts => d.expires = row.leaseExpires
          /\ d.token < row.attempts => d.expires <= clock
          /\ d.expires < grants[row.grant].expires + LeaseTicks
      BY <1>8, <2>1 DEF LeaseSound
    <2>3. row.leaseExpires <= txn[w].now
      BY <1>0, <2>2 DEF Claimable
    <2>4. d.expires <= clock'
      BY <1>2, <1>3, <2>1, <2>2, <2>3
    <2>5. d.token < n
      BY <1>3, <2>1, <2>2
    <2>6. QED
      BY <1>1, <1>3, <1>5, <1>6, <1>8, <2>1, <2>2, <2>4, <2>5 DEF LeaseSound
  <1>9. ASSUME NEW d \in deliveries, d.action # a
        PROVE  LeaseSound(d)'
    BY <1>1, <1>3, <1>9, OldLease
  <1>10. \A d \in deliveries' : LeaseSound(d)'
    BY <1>0, <1>7, <1>8, <1>9
  <1>11. TokensUnique'
    BY <1>0, <1>8 DEF ActionInv, LeasesSound, TokensUnique
  <1>12. new \in [action : ActionIds, token : Nat, expires : Nat]
    BY <1>0, <1>3
  <1>13. QED
    BY <1>0, <1>3, <1>10, <1>11, <1>12 DEF LeasesSound

LEMMA LeasesStep ==
    ASSUME BoundaryInv, ActionInv, [ActionNext]_allVars
    PROVE  LeasesSound' /\ deliveries' \subseteq [action : ActionIds, token : Nat, expires : Nat]
  <1>0. /\ TokensUnique
        /\ deliveries \subseteq [action : ActionIds, token : Nat, expires : Nat]
        /\ \A d \in deliveries : actions[d.action].status # "absent"
    BY DEF ActionInv, LeasesSound, ActionTypeOK, LeaseSound
  <1>1. ASSUME deliveries' = deliveries,
               \A a \in ActionIds : actions[a].status # "absent" =>
                   /\ actions'[a].attempts = actions[a].attempts
                   /\ actions'[a].leaseExpires = actions[a].leaseExpires
        PROVE  LeasesSound' /\ deliveries' \subseteq [action : ActionIds, token : Nat, expires : Nat]
    <2>1. \A d \in deliveries : LeaseSound(d)'
      BY <1>0, <1>1, OldLease
    <2>2. QED
      BY <1>0, <1>1, <2>1 DEF LeasesSound, TokensUnique
  <1>2. CASE UNCHANGED <<actions, deliveries>>
    BY <1>1, <1>2
  <1>3. ASSUME NEW w \in Workers, NEW a \in ActionIds, InsertAction(w, a)
        PROVE  LeasesSound' /\ deliveries' \subseteq [action : ActionIds, token : Nat, expires : Nat]
    BY <1>1, <1>3, InsertedRow
  <1>4. ASSUME NEW w \in Workers, WriteResult(w)
        PROVE  LeasesSound' /\ deliveries' \subseteq [action : ActionIds, token : Nat, expires : Nat]
    BY <1>1, <1>4, ResultRow
  <1>5. QED
    BY <1>2, <1>3, <1>4, NewLease, ActionWrites
-----------------------------------------------------------------------------
(* The handlers *)

(* While a creation or a claim is between its steps, its transaction stays *)
(* open with the clock reading it started with.                            *)
LEMMA TxnKept ==
    ASSUME ActionInv, ApprovalInv, [ActionNext]_allVars, NEW v \in Workers,
           work'[v] = work[v], work[v].kind \in {"create", "claim"}
    PROVE  txn'[v].pc # "idle" /\ txn'[v].op = "sync" /\ txn'[v].now = txn[v].now
  <1>0. /\ txn[v].pc # "idle" /\ txn[v].op = "sync" /\ txn \in [Workers -> Txns]
        /\ work \in [Workers -> Works] /\ work[v] # NoWork
    BY DEF ActionInv, WorksSound, WorkSound, CreateSound, ClaimSound, ApprovalInv,
           ApprovalTypeOK, ActionTypeOK, NoWork
  <1>1. CASE txn'[v] = txn[v]
    BY <1>0, <1>1
  <1>2. ASSUME NEW w \in Workers, Finish(w), w # v
        PROVE  txn'[v] = txn[v]
    BY <1>0, <1>2 DEF Finish
  <1>3. ASSUME NEW w \in Workers, NEW op, NEW target, Call(w, op, target)
        PROVE  txn'[v] = txn[v]
    BY <1>0, <1>3 DEF Call
  <1>4. ASSUME NEW w \in Workers, HandlerStep(w)
        PROVE  txn'[v].pc # "idle" /\ txn'[v].op = "sync" /\ txn'[v].now = txn[v].now
    <2>1. CASE SyncSelect(w)
      BY <1>0, <2>1 DEF SyncSelect, Txns
    <2>2. ASSUME NEW g \in GrantIds, SyncGet(w, g)
          PROVE  txn'[v].pc # "idle" /\ txn'[v].op = "sync" /\ txn'[v].now = txn[v].now
      BY <1>0, <2>2 DEF SyncGet, Txns
    <2>3. CASE Deny(w) \/ Revoke(w)
      <3>1. w # v /\ Finish(w)
        BY <1>0, <2>3 DEF Deny, Revoke, DecideRequest
      <3>2. QED
        BY <1>1, <1>2, <3>1
    <2>4. ASSUME NEW g \in GrantIds, NEW t,
                 Approve(w, g, t) \/ \E auth \in Asked : CreateGrant(w, g, auth, t)
          PROVE  txn'[v].pc # "idle" /\ txn'[v].op = "sync" /\ txn'[v].now = txn[v].now
      <3>1. w # v /\ Finish(w)
        BY <1>0, <2>4 DEF Approve, DecideRequest, CreateGrant
      <3>2. QED
        BY <1>1, <1>2, <3>1
    <2>5. QED
      BY <1>4, <2>1, <2>2, <2>3, <2>4 DEF HandlerStep
  <1>5. CASE ApprovalStep
    <2>1. ASSUME NEW w \in Workers, work[w] = NoWork, SyncCommit(w) \/ Abort(w)
          PROVE  txn'[v] = txn[v]
      BY <1>0, <1>2, <2>1 DEF SyncCommit, Abort
    <2>2. Tick => txn' = txn
      BY DEF Tick
    <2>3. ASSUME NEW r, NEW kind, NEW auth, NEW ttl, CreateRequest(r, kind, auth, ttl)
          PROVE  txn' = txn
      BY <2>3 DEF CreateRequest
    <2>4. QED
      BY <1>1, <1>3, <1>4, <1>5, <2>1, <2>2, <2>3 DEF ApprovalStep
  <1>6. ASSUME NEW w \in Workers, work' = [work EXCEPT ![w] = NoWork]
        PROVE  w # v
    BY <1>0, <1>6
  <1>7. ASSUME NEW w \in Workers, ActionStep(w)
        PROVE  txn'[v] = txn[v]
    <2>1. ASSUME Finish(w), work' = [work EXCEPT ![w] = NoWork]
          PROVE  txn'[v] = txn[v]
      BY <1>2, <1>6, <2>1
    <2>2. SyncCommit(w) \/ Abort(w) => Finish(w)
      BY Zenon DEF SyncCommit, Abort
    <2>3. UNCHANGED approvalVars => txn'[v] = txn[v]
      BY Zenon DEF approvalVars
    <2>4. /\ \A e, g, key, spec : StartCreate(w, e, g, key, spec) => txn'[v] = txn[v]
          /\ \A e : StartClaim(w, e) => txn'[v] = txn[v]
      BY <1>3, StartsCall, Zenon
    <2>5. QED
      BY <1>7, <2>1, <2>2, <2>3, <2>4, EndsCommit, HandlersEnd, BoundaryAlone, Zenon
         DEF ActionStep
  <1>8. (\E e \in Endpoints : EndpointStep(e)) \/ UNCHANGED allVars => txn' = txn
    BY DEF EndpointStep, ApproveEndpoint, MigrateEndpoint, allVars, approvalVars
  <1>9. QED
    BY <1>1, <1>5, <1>7, <1>8 DEF ActionNext, EndpointStep

(* What a handler relies on stays true while others run. *)
LEMMA OldWork ==
    ASSUME BoundaryInv, ActionInv, [ActionNext]_allVars, NEW v \in Workers, work'[v] = work[v]
    PROVE  WorkSound(v)'
  <1> DEFINE o == work[v]
  <1>0. /\ ApprovalInv /\ [ApprovalNext]_approvalVars /\ RowsKept /\ WorkSound(v)
        /\ o \in Works
    BY ApprovalPart, RowsKeptStep DEF BoundaryInv, ActionInv, WorksSound, ActionTypeOK
  <1>1. CASE o.kind = "create"
    <2>1. CreateSound(v)
      BY <1>0, <1>1 DEF WorkSound
    <2>2. grants'[o.grant].status # "absent" /\ grants'[o.grant].auth = grants[o.grant].auth
      BY <1>0, <2>1, GrantsPersist DEF CreateSound
    <2>3. txn'[v].pc # "idle" /\ txn'[v].op = "sync"
      BY <1>0, <1>1, TxnKept
    <2>4. CreateSound(v)'
      BY <2>1, <2>2, <2>3 DEF CreateSound
    <2>5. QED
      BY <1>1, <2>4 DEF WorkSound
  <1>2. CASE o.kind = "claim"
    <2> DEFINE row == actions[o.action]
    <2>1. ClaimSound(v)
      BY <1>0, <1>2 DEF WorkSound
    <2>2. \A g \in o.dead : grants'[g].status \in {"expired", "revoked"}
      BY <1>0, <2>1, EndedStep DEF ClaimSound, EndedStay, Works
    <2>3. txn'[v].pc # "idle" /\ txn'[v].op = "sync" /\ txn'[v].now = txn[v].now
      BY <1>0, <1>2, TxnKept
    <2>4. ASSUME o.step = "write", o.action # Nothing
          PROVE  /\ actions'[o.action].status # "absent"
                 /\ actions'[o.action].endpoint = o.endpoint
                 /\ o.caller = "device" => endpointStatus'[o.endpoint] = "active"
                 /\ grants'[actions'[o.action].grant].expires > txn[v].now
                 /\ actions'[o.action].grant \notin o.dead
      <3>1. o.action \in ActionIds
        BY <1>0, <2>4 DEF Works
      <3>2. /\ row.status # "absent" /\ row.endpoint = o.endpoint
            /\ o.caller = "device" => endpointStatus[o.endpoint] = "active"
            /\ o.endpoint \in Endpoints
            /\ grants[row.grant].expires > txn[v].now /\ row.grant \notin o.dead
        BY <2>1, <2>4 DEF ClaimSound
      <3>3. row.grant \in GrantIds /\ grants[row.grant].status # "absent"
        BY <3>1, <3>2 DEF ActionInv, RowsSound, RowSound
      <3>4. grants'[row.grant].expires = grants[row.grant].expires
        BY <1>0, <3>3, GrantsPersist
      <3>5. QED
        BY <1>0, <3>1, <3>2, <3>4, EndpointsKept DEF RowsKept
    <2>5. ClaimSound(v)'
      BY <2>1, <2>2, <2>3, <2>4, EndpointsKept DEF ClaimSound
    <2>6. QED
      BY <1>2, <2>5 DEF WorkSound
  <1>3. CASE o.kind = "complete"
    <2>1. /\ o.action \in ActionIds /\ o.summary \in Outcomes
          /\ actions[o.action].status \notin {"absent", "queued"}
      BY <1>0, <1>3 DEF WorkSound, CompleteSound
    <2>2. actions'[o.action].status \notin {"absent", "queued"}
      BY <1>0, <2>1 DEF RowsKept
    <2>3. CompleteSound(v)'
      BY <2>1, <2>2 DEF CompleteSound
    <2>4. QED
      BY <1>3, <2>3 DEF WorkSound
  <1>4. QED
    BY <1>0, <1>1, <1>2, <1>3 DEF WorkSound

LEMMA WorksStep ==
    ASSUME BoundaryInv, ActionInv, [ActionNext]_allVars
    PROVE  WorksSound'
  <1>0. /\ work \in [Workers -> Works] /\ actions \in [ActionIds -> ActionRows]
        /\ txn \in [Workers -> Txns] /\ grants \in [GrantIds -> GrantRows]
        /\ endpointStatus \in [Endpoints -> EndpointStatuses]
    BY DEF ActionInv, ActionTypeOK, ApprovalTypeOK
  <1>1. CASE UNCHANGED work
    BY <1>1, OldWork DEF WorksSound
  <1>2. ASSUME NEW w \in Workers, \A v \in Workers : v # w => work'[v] = work[v], WorkSound(w)'
        PROVE  WorksSound'
    BY <1>2, OldWork DEF WorksSound
  <1>3. ASSUME NEW w \in Workers, work' = [work EXCEPT ![w] = NoWork]
        PROVE  WorksSound'
    <2>1. work'[w].kind = "none" /\ \A v \in Workers : v # w => work'[v] = work[v]
      BY <1>0, <1>3 DEF NoWork
    <2>2. QED
      BY <1>2, <2>1 DEF WorkSound
  <1>4. ASSUME NEW w \in Workers, NEW e \in Endpoints, NEW g \in GrantIds, NEW key \in Keys,
               NEW spec \in AskedActions, grants[g].status # "absent",
               StartCreate(w, e, g, key, spec)
        PROVE  WorksSound'
    <2>1. /\ work'[w].kind = "create" /\ work'[w].step = "read" /\ work'[w].endpoint = e
          /\ work'[w].grant = g /\ work'[w].key = key /\ work'[w].spec = spec
          /\ \A v \in Workers : v # w => work'[v] = work[v]
          /\ ValidActionShape(spec)
      BY <1>0, <1>4 DEF StartCreate, NoWork
    <2>2. txn'[w].pc = "called" /\ txn'[w].op = "sync" /\ grants' = grants
      BY <1>0, <1>4 DEF StartCreate, Call, Idle
    <2>3. CreateSound(w)'
      BY <1>4, <2>1, <2>2 DEF CreateSound
    <2>4. QED
      BY <1>2, <2>1, <2>3 DEF WorkSound
  <1>5. ASSUME NEW w \in Workers, CheckCreate(w)
        PROVE  WorksSound'
    <2>1. /\ work'[w] = [work[w] EXCEPT !.step = "write"]
          /\ \A v \in Workers : v # w => work'[v] = work[v]
          /\ work[w].kind = "create"
          /\ Covers(grants[work[w].grant].auth, work[w].endpoint, work[w].spec)
          /\ txn' = txn /\ grants' = grants
      BY <1>0, <1>5 DEF CheckCreate, approvalVars
    <2>2. /\ work'[w].kind = "create" /\ work'[w].endpoint = work[w].endpoint
          /\ work'[w].grant = work[w].grant /\ work'[w].key = work[w].key
          /\ work'[w].spec = work[w].spec
      BY <1>0, <2>1 DEF Works
    <2>3. CreateSound(w)
      BY <2>1 DEF ActionInv, WorksSound, WorkSound
    <2>4. CreateSound(w)'
      BY <2>1, <2>2, <2>3 DEF CreateSound
    <2>5. QED
      BY <1>2, <2>1, <2>2, <2>4 DEF WorkSound
  <1>6. ASSUME NEW w \in Workers, NEW e \in Endpoints, StartClaim(w, e)
        PROVE  WorksSound'
    <2>1. /\ work'[w].kind = "claim" /\ work'[w].step = "read" /\ work'[w].endpoint = e
          /\ work'[w].dead = DeadGrants /\ work'[w].caller = CallerOf(e)
          /\ endpointStatus' = endpointStatus
          /\ \A v \in Workers : v # w => work'[v] = work[v]
      BY <1>0, <1>6 DEF StartClaim, NoWork
    <2>2. txn'[w].pc = "called" /\ txn'[w].op = "sync" /\ grants' = grants
      BY <1>0, <1>6 DEF StartClaim, Call, Idle
    <2>3. ClaimSound(w)'
      BY <2>1, <2>2 DEF ClaimSound, DeadGrants, CallerOf
    <2>4. QED
      BY <1>2, <2>1, <2>3 DEF WorkSound
  <1>7. ASSUME NEW w \in Workers, NEW a \in ActionIds \cup {Nothing}, SelectCandidate(w, a)
        PROVE  WorksSound'
    <2> DEFINE o == work[w]
    <2>1. /\ work'[w] = [o EXCEPT !.step = "write", !.action = a]
          /\ \A v \in Workers : v # w => work'[v] = work[v]
          /\ o.kind = "claim" /\ Served(o.caller, o.endpoint)
          /\ a # Nothing => a \in Candidates(o.endpoint, txn[w].now)
          /\ txn' = txn /\ grants' = grants /\ actions' = actions
          /\ endpointStatus' = endpointStatus
      BY <1>0, <1>7 DEF SelectCandidate, approvalVars
    <2>2. /\ work'[w].kind = "claim" /\ work'[w].endpoint = o.endpoint
          /\ work'[w].action = a /\ work'[w].dead = o.dead /\ work'[w].caller = o.caller
      BY <1>0, <2>1 DEF Works
    <2>3. ClaimSound(w)
      BY <2>1 DEF ActionInv, WorksSound, WorkSound
    <2>4. a # Nothing =>
              /\ actions[a].status # "absent" /\ actions[a].endpoint = o.endpoint
              /\ grants[actions[a].grant].status = "approved"
              /\ grants[actions[a].grant].expires > txn[w].now
      BY <2>1 DEF Candidates, Eligible
    <2>5. o.caller = "device" => endpointStatus[o.endpoint] = "active"
      BY <1>0, <2>1, <2>3 DEF ClaimSound, Served, EndpointStatuses
    <2>6. ClaimSound(w)'
      BY <2>1, <2>2, <2>3, <2>4, <2>5 DEF ClaimSound
    <2>7. QED
      BY <1>2, <2>1, <2>2, <2>6 DEF WorkSound
  <1>8. ASSUME NEW w \in Workers, NEW d \in deliveries, NEW result \in Reported,
               NEW summary \in Outcomes, StartComplete(w, d, result, summary)
        PROVE  WorksSound'
    <2>1. /\ work'[w].kind = "complete" /\ work'[w].action = d.action
          /\ work'[w].summary = summary
          /\ \A v \in Workers : v # w => work'[v] = work[v]
          /\ actions' = actions
      BY <1>0, <1>8 DEF StartComplete, NoWork
    <2>2. d.action \in ActionIds /\ actions[d.action].status \notin {"absent", "queued"}
      BY DEF ActionInv, ActionTypeOK, LeasesSound, LeaseSound
    <2>3. CompleteSound(w)'
      BY <2>1, <2>2 DEF CompleteSound
    <2>4. QED
      BY <1>2, <2>1, <2>3 DEF WorkSound
  <1>9. ASSUME NEW w \in Workers, CheckComplete(w)
        PROVE  WorksSound'
    <2>1. /\ work'[w] = [work[w] EXCEPT !.step = "write"]
          /\ \A v \in Workers : v # w => work'[v] = work[v]
          /\ work[w].kind = "complete" /\ actions' = actions
      BY <1>0, <1>9 DEF CheckComplete
    <2>2. /\ work'[w].kind = "complete" /\ work'[w].action = work[w].action
          /\ work'[w].summary = work[w].summary
      BY <1>0, <2>1 DEF Works
    <2>3. CompleteSound(w)
      BY <2>1 DEF ActionInv, WorksSound, WorkSound
    <2>4. CompleteSound(w)'
      BY <2>1, <2>2, <2>3 DEF CompleteSound
    <2>5. QED
      BY <1>2, <2>1, <2>2, <2>4 DEF WorkSound
  <1>10. /\ UNCHANGED actionVars => work' = work
         /\ \A e \in Endpoints : EndpointStep(e) => work' = work
    BY DEF actionVars, EndpointStep, ApproveEndpoint, MigrateEndpoint
  <1>11. \A w \in Workers : ActionStep(w) => WorksSound'
    BY <1>3, <1>4, <1>5, <1>6, <1>7, <1>8, <1>9, HandlersEnd, Zenon DEF ActionStep
  <1>12. QED
    BY <1>1, <1>10, <1>11, ActionCases, Zenon
-----------------------------------------------------------------------------
(* The invariants *)

LEMMA ActionInvStart == ActionInit => ActionInv
  <1> SUFFICES ASSUME ActionInit PROVE ActionInv
    OBVIOUS
  <1>1. ActionTypeOK
    BY NoRowType, NoWorkType, BoundaryStart
    DEF ActionInit, ActionTypeOK, BoundaryInv, ApprovalInv
  <1>2. RowsSound /\ KeysUnique
    BY DEF ActionInit, RowsSound, RowSound, KeysUnique, NoActionRow
  <1>3. AcceptedSound /\ LeasesSound
    BY DEF ActionInit, AcceptedSound, LeasesSound, TokensUnique
  <1>4. WorksSound
    BY DEF ActionInit, WorksSound, WorkSound, NoWork
  <1>5. QED
    BY <1>1, <1>2, <1>3, <1>4 DEF ActionInv

LEMMA ActionInvStep ==
    BoundaryInv /\ ActionInv /\ [ActionNext]_allVars => BoundaryInv' /\ ActionInv'
  <1> SUFFICES ASSUME BoundaryInv, ActionInv, [ActionNext]_allVars
               PROVE  BoundaryInv' /\ ActionInv'
    OBVIOUS
  <1>1. BoundaryInv'
    BY ApprovalPart, BoundaryStep
  <1>2. ActionTypeOK'
    BY <1>1, ActionsType, WorksType, LeasesStep, AcceptedStep, EndpointsKept
    DEF ActionTypeOK, BoundaryInv, ApprovalInv
  <1>3. QED
    BY <1>1, <1>2, RowsStep, KeysStep, AcceptedStep, LeasesStep, WorksStep DEF ActionInv

(* Both inductive invariants hold of the composed system. *)
LEMMA ActionInvHolds == ActionSpec => [](BoundaryInv /\ ActionInv)
  <1>1. ActionInit => BoundaryInv /\ ActionInv
    BY BoundaryStart, ActionInvStart DEF ActionInit
  <1>2. QED
    BY <1>1, ActionInvStep, PTL DEF ActionSpec

(* Every reachable state of response_actions, of the leases handed out and *)
(* of the handlers is well formed.                                         *)
THEOREM ActionTypeCorrect == ActionSpec => []ActionTypeOK
  <1>1. ActionInv => ActionTypeOK
    BY DEF ActionInv
  <1>2. QED
    BY ActionInvHolds, <1>1, PTL

(* No two leases of one action are alive together and no token is handed   *)
(* out twice, whatever the number of claiming workers and however stale    *)
(* the clocks they read.                                                   *)
THEOREM NoOverlappingLeasesAlways == ActionSpec => []NoOverlappingLeases
  <1>1. BoundaryInv /\ ActionInv => NoOverlappingLeases
    <2> SUFFICES ASSUME BoundaryInv, ActionInv, NEW d1 \in deliveries, NEW d2 \in deliveries,
                        d1.action = d2.action, d1 # d2
                 PROVE  /\ d1.token # d2.token
                        /\ ~(d1.expires > clock /\ d2.expires > clock)
      BY DEF NoOverlappingLeases
    <2>1. d1.token # d2.token
      BY DEF ActionInv, LeasesSound, TokensUnique
    <2>2. /\ d1.token \in Nat /\ d2.token \in Nat /\ d1.expires \in Nat /\ d2.expires \in Nat
          /\ d1.action \in ActionIds /\ actions[d1.action].attempts \in Nat /\ clock \in Nat
      BY DEF ActionInv, ActionTypeOK, ActionRows, ApprovalTypeOK
    <2>3. LeaseSound(d1) /\ LeaseSound(d2)
      BY DEF ActionInv, LeasesSound
    <2>4. d1.token < actions[d1.action].attempts \/ d2.token < actions[d1.action].attempts
      BY <2>1, <2>2, <2>3 DEF LeaseSound
    <2>5. d1.expires <= clock \/ d2.expires <= clock
      BY <2>3, <2>4 DEF LeaseSound
    <2>6. QED
      BY <2>1, <2>2, <2>5
  <1>2. QED
    BY ActionInvHolds, <1>1, PTL

(* Callers that used one key on one endpoint and were answered got the     *)
(* same action for the same request.                                       *)
THEOREM CreationIsIdempotentAlways == ActionSpec => []CreationIsIdempotent
  <1>1. ActionInv => CreationIsIdempotent
    <2> SUFFICES ASSUME ActionInv, NEW p \in accepted, NEW q \in accepted,
                        p.endpoint = q.endpoint, p.key = q.key
                 PROVE  p = q
      BY DEF CreationIsIdempotent
    <2>1. /\ p \in [endpoint : Endpoints, key : Keys, grant : GrantIds,
                    spec : ActionSpecs, action : ActionIds]
          /\ q \in [endpoint : Endpoints, key : Keys, grant : GrantIds,
                    spec : ActionSpecs, action : ActionIds]
      BY DEF ActionInv, ActionTypeOK
    <2>2. \A r \in accepted :
              /\ actions[r.action].status # "absent"
              /\ actions[r.action].endpoint = r.endpoint /\ actions[r.action].key = r.key
              /\ actions[r.action].grant = r.grant /\ actions[r.action].spec = r.spec
      BY DEF ActionInv, AcceptedSound
    <2>3. p.action \in ActionIds /\ q.action \in ActionIds
      BY <2>1
    <2>4. p.action = q.action
      <3>1. KeysUnique
        BY DEF ActionInv
      <3>2. /\ actions[p.action].status # "absent" /\ actions[q.action].status # "absent"
            /\ actions[p.action].endpoint = actions[q.action].endpoint
            /\ actions[p.action].key = actions[q.action].key
        BY <2>2, Zenon
      <3>3. QED
        BY <2>3, <3>1, <3>2, Zenon DEF KeysUnique
    <2>5. p.grant = q.grant /\ p.spec = q.spec
      BY <2>2, <2>4
    <2>6. QED
      BY <2>1, <2>4, <2>5
  <1>2. QED
    BY ActionInvHolds, <1>1, PTL

(* Every lease ever handed out is for work within an approval that a human *)
(* gave: its grant covers it, belongs to the endpoint's client, carries    *)
(* what its request asked for and was approved, and had not expired when   *)
(* the lease began.                                                        *)
THEOREM DeliveriesAuthorisedAlways == ActionSpec => []DeliveriesAuthorised
  <1>1. BoundaryInv /\ ActionInv => DeliveriesAuthorised
    <2> SUFFICES ASSUME BoundaryInv, ActionInv, NEW d \in deliveries
                 PROVE  LET row == actions[d.action]
                            grant == grants[row.grant]
                        IN /\ ValidActionShape(row.spec)
                           /\ Covers(grant.auth, row.endpoint, row.spec)
                           /\ \A e \in grant.auth.endpoints : ClientOf[e] = ClientOf[row.endpoint]
                           /\ grant.request # Nothing =>
                                  /\ requests[grant.request].auth = grant.auth
                                  /\ "approved" \in events[grant.request]
                           /\ d.expires < grant.expires + LeaseTicks
      BY DEF DeliveriesAuthorised
    <2> DEFINE row == actions[d.action]
               g == row.grant
    <2>1. d.action \in ActionIds /\ LeaseSound(d) /\ RowSound(d.action)
      BY DEF ActionInv, ActionTypeOK, LeasesSound, RowsSound
    <2>2. /\ g \in GrantIds /\ grants[g].status # "absent" /\ ValidActionShape(row.spec)
          /\ Covers(grants[g].auth, row.endpoint, row.spec)
          /\ d.expires < grants[g].expires + LeaseTicks
      BY <2>1 DEF LeaseSound, RowSound
    <2>3. \A e \in grants[g].auth.endpoints : ClientOf[e] = ClientOf[row.endpoint]
      <3>1. row.endpoint \in grants[g].auth.endpoints
        BY <2>2 DEF Covers
      <3>2. SingleClient(grants[g].auth)
        BY <2>2 DEF BoundaryInv, GrantCarriesRequest
      <3>3. QED
        BY <3>1, <3>2 DEF SingleClient
    <2>4. ASSUME grants[g].request # Nothing
          PROVE  /\ requests[grants[g].request].auth = grants[g].auth
                 /\ "approved" \in events[grants[g].request]
      <3>0. grants[g].request \in RequestIds
        <4>1. grants \in [GrantIds -> GrantRows]
          BY DEF BoundaryInv, ApprovalInv, ApprovalTypeOK
        <4>2. QED
          BY <2>2, <2>4, <4>1 DEF GrantRows
      <3>1. /\ grants[g].request \in RequestIds
            /\ requests[grants[g].request].status \in {"approved", "expired", "revoked"}
        BY <2>2, <2>4, <3>0 DEF BoundaryInv, ApprovalInv, GrantFollowsRequest, Consistent
      <3>2. "approved" \in events[grants[g].request]
        BY <3>1 DEF BoundaryInv, HistoryInv, HistoryExplainsStatus, EventTypes
      <3>3. QED
        BY <2>2, <2>4, <3>2 DEF BoundaryInv, GrantCarriesRequest, Linked
    <2>5. QED
      BY <2>2, <2>3, <2>4, Zenon
  <1>2. QED
    BY ActionInvHolds, <1>1, PTL

(* A claim that begins after a grant was revoked or expired hands out no   *)
(* lease under it, although the claim checks the grant in a snapshot that  *)
(* is older than its write; and a pending endpoint gets a lease only from  *)
(* a claim that began before the exchange that ended its legacy mode.      *)
THEOREM NoLateLeaseAlways == ActionSpec => NoLateLease
  <1> DEFINE InTime == \A w \in Workers : work[w].kind = "claim" /\ deliveries' # deliveries
                          /\ work'[w].kind = "none" =>
                   /\ actions[work[w].action].grant \notin work[w].dead
                   /\ endpointStatus[work[w].endpoint] = "pending" => work[w].caller = "shared"
  <1>1. BoundaryInv /\ ActionInv /\ [ActionNext]_allVars => InTime
    <2> SUFFICES ASSUME BoundaryInv, ActionInv, [ActionNext]_allVars, NEW w \in Workers,
                        work[w].kind = "claim", deliveries' # deliveries,
                        work'[w].kind = "none"
                 PROVE  /\ actions[work[w].action].grant \notin work[w].dead
                        /\ endpointStatus[work[w].endpoint] = "pending"
                               => work[w].caller = "shared"
      OBVIOUS
    <2>1. PICK v \in Workers : LeaseAction(v)
      BY ActionWrites, InsertedRow, ResultRow
    <2>2. work' = [work EXCEPT ![v] = NoWork] /\ work \in [Workers -> Works]
      BY <2>1 DEF LeaseAction, ActionInv, ActionTypeOK
    <2>3. v = w
      BY <2>2
    <2>4. ClaimSound(w) /\ work[w].step = "write" /\ work[w].action # Nothing
      BY <2>1, <2>3, LeasedRow DEF ActionInv, WorksSound, WorkSound
    <2>5. work[w].caller \in {"shared", "device"}
      BY <2>2 DEF Works, Callers
    <2>6. QED
      BY <2>4, <2>5 DEF ClaimSound
  <1>2. QED
    BY ActionInvHolds, <1>1, PTL DEF ActionSpec, NoLateLease
-----------------------------------------------------------------------------
(* The queue *)

(* A completion between its checks and its flush, and its report. *)
Admitting(o) == o.kind = "complete" /\ o.step = "write"
Report(o) == [action |-> o.action, attempt |-> o.token, result |-> o.result]

LEMMA AdmittedMembers ==
    /\ \A p : p \in AdmittedResults <=>
                  \E v \in Workers : Admitting(work[v]) /\ p = Report(work[v])
    /\ \A p : p \in AdmittedResults' <=>
                  \E v \in Workers : Admitting(work'[v]) /\ p = Report(work'[v])
  BY DEF AdmittedResults, Admitting, Report

(* How the set of admitted results changes with one handler. *)
LEMMA AdmittedChange ==
    ASSUME NEW w \in Workers, \A v \in Workers : v # w => work'[v] = work[v]
    PROVE  /\ ~Admitting(work[w]) /\ ~Admitting(work'[w]) =>
                  AdmittedResults' = AdmittedResults
           /\ ~Admitting(work[w]) /\ Admitting(work'[w]) =>
                  AdmittedResults' = AdmittedResults \cup {Report(work'[w])}
           /\ Admitting(work[w]) /\ ~Admitting(work'[w]) =>
                  /\ Report(work[w]) \in AdmittedResults
                  /\ AdmittedResults' \in {AdmittedResults,
                                           AdmittedResults \ {Report(work[w])}}
  <1> DEFINE A == AdmittedResults
             B == AdmittedResults'
  <1>1. ASSUME ~Admitting(work[w]), ~Admitting(work'[w])
        PROVE  B = A
    <2>1. \A p : p \in B <=> p \in A
      BY <1>1, AdmittedMembers
    <2>2. QED
      BY <2>1
  <1>2. ASSUME ~Admitting(work[w]), Admitting(work'[w])
        PROVE  B = A \cup {Report(work'[w])}
    <2>1. \A p : p \in B <=> p \in A \/ p = Report(work'[w])
      BY <1>2, AdmittedMembers
    <2>2. QED
      BY <2>1
  <1>3. ASSUME Admitting(work[w]), ~Admitting(work'[w])
        PROVE  /\ Report(work[w]) \in A
               /\ B \in {A, A \ {Report(work[w])}}
    <2>1. \A p : p \in A <=> p \in B \/ p = Report(work[w])
      BY <1>3, AdmittedMembers
    <2>2. CASE Report(work[w]) \in B
      <3>1. B = A
        BY <2>1, <2>2
      <3>2. QED
        BY <2>1, <3>1
    <2>3. CASE Report(work[w]) \notin B
      <3>1. B = A \ {Report(work[w])}
        BY <2>1, <2>3
      <3>2. QED
        BY <2>1, <3>1
    <2>4. QED
      BY <2>2, <2>3
  <1>4. QED
    BY <1>1, <1>2, <1>3

(* Only Tick moves the clock. *)
LEMMA ClockKept ==
    ASSUME [ActionNext]_allVars
    PROVE  \/ Tick /\ UNCHANGED actionVars
           \/ UNCHANGED clock
  <1>1. ASSUME NEW w \in Workers, NEW r, NEW from, NEW to, NEW event,
               DecideRequest(w, r, from, to, event)
        PROVE  clock' = clock
    BY <1>1 DEF DecideRequest
  <1>2. ASSUME NEW w \in Workers, HandlerStep(w)
        PROVE  clock' = clock
    <2>1. Deny(w) \/ Revoke(w) => clock' = clock
      BY <1>1 DEF Deny, Revoke
    <2>2. \A g, t : Approve(w, g, t) => clock' = clock
      BY <1>1 DEF Approve
    <2>3. \A g, t, auth : CreateGrant(w, g, auth, t) => clock' = clock
      BY DEF CreateGrant
    <2>4. SyncSelect(w) \/ (\E g \in GrantIds : SyncGet(w, g)) => clock' = clock
      BY DEF SyncSelect, SyncGet
    <2>5. QED
      BY <1>2, <2>1, <2>2, <2>3, <2>4 DEF HandlerStep
  <1>3. ASSUME NEW w \in Workers
        PROVE  /\ \A op, target : Call(w, op, target) => clock' = clock
               /\ SyncCommit(w) \/ Abort(w) => clock' = clock
    BY DEF Call, SyncCommit, Abort
  <1>4. \A r, kind, auth, ttl : CreateRequest(r, kind, auth, ttl) => clock' = clock
    BY DEF CreateRequest
  <1>5. ApprovalStep => (Tick /\ UNCHANGED actionVars) \/ clock' = clock
    BY <1>2, <1>3, <1>4 DEF ApprovalStep
  <1>6. ASSUME NEW w \in Workers, ActionStep(w)
        PROVE  clock' = clock
    <2>1. /\ \A e, g, key, spec : StartCreate(w, e, g, key, spec) => clock' = clock
          /\ \A e : StartClaim(w, e) => clock' = clock
      BY <1>3, StartsCall, Zenon
    <2>2. UNCHANGED approvalVars => clock' = clock
      BY Zenon DEF approvalVars
    <2>3. QED
      BY <1>3, <1>6, <2>1, <2>2, EndsCommit, BoundaryAlone, Zenon DEF ActionStep
  <1>7. (\E e \in Endpoints : EndpointStep(e)) \/ UNCHANGED allVars => clock' = clock
    BY DEF EndpointStep, ApproveEndpoint, MigrateEndpoint, allVars, approvalVars
  <1>8. QED
    BY <1>5, <1>6, <1>7 DEF ActionNext, EndpointStep

LEMMA QueueStep ==
    ASSUME BoundaryInv, ActionInv, [ActionNext]_allVars
    PROVE  [Queue!QueueNext]_(Queue!queueVars)
  <1>0. /\ work \in [Workers -> Works] /\ actions \in [ActionIds -> ActionRows]
        /\ actions' \in [ActionIds -> ActionRows]
    BY ActionsType DEF ActionInv, ActionTypeOK, BoundaryInv
  <1>1. CASE Tick /\ UNCHANGED actionVars
    <2>1. clock' = clock + 1 /\ work' = work /\ actions' = actions
      BY <1>1 DEF Tick, actionVars
    <2>2. Queue!TimePasses
      BY <2>1 DEF Queue!TimePasses, QueueRows, AdmittedResults
    <2>3. QED
      BY <2>2 DEF Queue!QueueNext
  <1>2. ASSUME UNCHANGED <<clock, actions>>, NEW w \in Workers,
               \A v \in Workers : v # w => work'[v] = work[v],
               ~Admitting(work[w]), ~Admitting(work'[w])
        PROVE  UNCHANGED Queue!queueVars
    <2>1. AdmittedResults' = AdmittedResults
      BY <1>2, AdmittedChange
    <2>2. QED
      BY <1>2, <2>1 DEF Queue!queueVars, QueueRows
  <1>3. ASSUME UNCHANGED <<clock, actions, work>>
        PROVE  UNCHANGED Queue!queueVars
    BY <1>3 DEF Queue!queueVars, QueueRows, AdmittedResults
  <1>4. ASSUME NEW w \in Workers, NEW a \in ActionIds, InsertAction(w, a), UNCHANGED clock
        PROVE  Queue!Create(a)
    <2>1. /\ \A b \in ActionIds : b # a => actions'[b] = actions[b]
          /\ actions[a].status = "absent" /\ actions'[a].status = "queued"
          /\ actions'[a].attempts = 0 /\ actions'[a].leaseExpires = 0
          /\ actions[a].attempts = 0 /\ actions[a].leaseExpires = 0
      BY <1>4, InsertedRow DEF ActionInv, RowsSound, RowSound
    <2>2. QueueRows' = [QueueRows EXCEPT ![a].status = "queued"]
      BY <2>1 DEF QueueRows
    <2>3. work' = [work EXCEPT ![w] = NoWork] /\ work[w].kind = "create"
      BY <1>4 DEF InsertAction
    <2>4. AdmittedResults' = AdmittedResults
      BY <1>0, <2>3, AdmittedChange DEF Admitting, NoWork
    <2>5. QueueRows[a].status = "absent"
      BY <2>1 DEF QueueRows
    <2>6. QED
      BY <1>4, <2>2, <2>4, <2>5 DEF Queue!Create
  <1>5. ASSUME NEW w \in Workers, LeaseAction(w), UNCHANGED clock
        PROVE  \E a \in ActionIds : \E t \in 0 .. clock : Queue!Lease(a, t)
    <2> DEFINE a == work[w].action
               t == txn[w].now
    <2>1. /\ a \in ActionIds
          /\ \A b \in ActionIds : b # a => actions'[b] = actions[b]
          /\ actions'[a].status = "leased" /\ actions'[a].attempts = actions[a].attempts + 1
          /\ actions'[a].leaseExpires = t + LeaseTicks
          /\ Claimable(a, t)
          /\ work[w].kind = "claim"
      BY <1>5, LeasedRow
    <2>2. t \in Nat /\ clock \in Nat /\ t <= clock
      BY DEF BoundaryInv, ExpiryInv, ApprovalInv, ApprovalTypeOK, Txns
    <2>3. QueueRows' = [QueueRows EXCEPT ![a] = [status |-> "leased", attempt |-> @.attempt + 1,
                                                 expires |-> t + LeaseTicks]]
      BY <2>1 DEF QueueRows
    <2>4. work' = [work EXCEPT ![w] = NoWork]
      BY <1>5 DEF LeaseAction
    <2>5. AdmittedResults' = AdmittedResults
      BY <1>0, <2>1, <2>4, AdmittedChange DEF Admitting, NoWork
    <2>6. Queue!Free(a, t)
      BY <2>1 DEF Queue!Free, Claimable, QueueRows
    <2>7. Queue!Lease(a, t)
      BY <1>5, <2>2, <2>3, <2>5, <2>6 DEF Queue!Lease
    <2>8. QED
      BY <2>1, <2>2, <2>7
  <1>6. ASSUME NEW w \in Workers, CheckComplete(w), UNCHANGED clock
        PROVE  \E a \in ActionIds, result \in Queue!Results :
                   \E n \in 0 .. QueueRows[a].attempt : Queue!Admit(a, n, result)
    <2> DEFINE o == work[w]
               a == o.action
    <2>1. /\ o.kind = "complete" /\ o.step = "read" /\ actions[a].status = "leased"
          /\ actions[a].token = o.token /\ actions' = actions
          /\ work' = [work EXCEPT ![w].step = "write"]
      BY <1>6 DEF CheckComplete
    <2>2. a \in ActionIds /\ o.result \in Terminal
      BY <1>0, <2>1 DEF ActionInv, WorksSound, WorkSound, CompleteSound, Works
    <2>3. /\ Admitting(work'[w]) /\ ~Admitting(o) /\ Report(work'[w]) = Report(o)
          /\ \A v \in Workers : v # w => work'[v] = work[v]
      BY <1>0, <2>1 DEF Admitting, Report, Works
    <2>4. AdmittedResults' = AdmittedResults \cup {Report(o)}
      BY <2>3, AdmittedChange
    <2>5. /\ QueueRows[a].status = "leased" /\ QueueRows[a].attempt = o.token
          /\ QueueRows' = QueueRows /\ o.token \in Nat
      BY <1>0, <2>1, <2>2 DEF QueueRows, ActionInv, RowsSound, RowSound, Works
    <2>6. Queue!Admit(a, o.token, o.result)
      BY <1>6, <2>4, <2>5 DEF Queue!Admit, Report
    <2>7. o.token \in 0 .. QueueRows[a].attempt /\ o.result \in Queue!Results
      BY <2>2, <2>5 DEF Queue!Results, Terminal
    <2>8. QED
      BY <2>2, <2>6, <2>7
  <1>7. ASSUME NEW w \in Workers, WriteResult(w), UNCHANGED clock
        PROVE  \E p \in AdmittedResults : Queue!Record(p)
    <2> DEFINE p == Report(work[w])
    <2>1. /\ p.action \in ActionIds /\ p.result = work[w].result /\ p.action = work[w].action
          /\ \A b \in ActionIds : b # p.action => actions'[b] = actions[b]
          /\ actions'[p.action].status = p.result
          /\ actions'[p.action].attempts = actions[p.action].attempts
          /\ actions'[p.action].leaseExpires = actions[p.action].leaseExpires
          /\ Admitting(work[w])
      BY <1>7, ResultRow DEF Report, Admitting
    <2>2. QueueRows' = [QueueRows EXCEPT ![p.action].status = p.result]
      BY <2>1 DEF QueueRows
    <2>3. work' = [work EXCEPT ![w] = NoWork]
      BY <1>7 DEF WriteResult
    <2>4. p \in AdmittedResults /\ AdmittedResults' \in {AdmittedResults, AdmittedResults \ {p}}
      BY <1>0, <2>1, <2>3, AdmittedChange DEF Admitting, NoWork
    <2>5. Queue!Record(p)
      BY <1>7, <2>2, <2>4 DEF Queue!Record, Queue!Leaves
    <2>6. QED
      BY <2>4, <2>5
  <1>8. ASSUME NEW w \in Workers, AbandonWork(w), UNCHANGED clock
        PROVE  \/ UNCHANGED Queue!queueVars
               \/ \E p \in AdmittedResults : Queue!Withdraw(p)
    <2> DEFINE p == Report(work[w])
    <2>1. work' = [work EXCEPT ![w] = NoWork] /\ actions' = actions
      BY <1>8 DEF AbandonWork
    <2>2. ~Admitting(work'[w]) /\ \A v \in Workers : v # w => work'[v] = work[v]
      BY <1>0, <2>1 DEF Admitting, NoWork
    <2>3. CASE ~Admitting(work[w])
      BY <1>2, <1>8, <2>1, <2>2, <2>3
    <2>4. CASE Admitting(work[w])
      <3>1. p \in AdmittedResults /\ AdmittedResults' \in {AdmittedResults, AdmittedResults \ {p}}
        BY <2>2, <2>4, AdmittedChange
      <3>2. Queue!Withdraw(p)
        BY <1>8, <2>1, <3>1 DEF Queue!Withdraw, Queue!Leaves, QueueRows
      <3>3. QED
        BY <3>1, <3>2
    <2>5. QED
      BY <2>3, <2>4
  <1>9. ASSUME NEW w \in Workers, UNCHANGED clock,
               \/ \E e \in Endpoints, g \in GrantIds, key \in Keys, spec \in AskedActions :
                      StartCreate(w, e, g, key, spec)
               \/ CheckCreate(w)
               \/ \E a \in ActionIds : ReplayCreate(w, a)
               \/ \E e \in Endpoints : StartClaim(w, e)
               \/ \E a \in ActionIds \cup {Nothing} : SelectCandidate(w, a)
               \/ ClaimNothing(w)
               \/ \E d \in deliveries, result \in Reported, summary \in Outcomes :
                      StartComplete(w, d, result, summary)
        PROVE  UNCHANGED Queue!queueVars
    <2> DEFINE Quiet == /\ actions' = actions
                        /\ \A v \in Workers : v # w => work'[v] = work[v]
                        /\ ~Admitting(work[w]) /\ ~Admitting(work'[w])
    <2>1. ASSUME NEW e, NEW g, NEW key, NEW spec, StartCreate(w, e, g, key, spec)
          PROVE  Quiet
      BY <1>0, <2>1 DEF StartCreate, NoWork, Admitting
    <2>2. CheckCreate(w) => Quiet
      BY <1>0 DEF CheckCreate, Admitting, Works
    <2>3. ASSUME NEW a, ReplayCreate(w, a)
          PROVE  Quiet
      BY <1>0, <2>3 DEF ReplayCreate, NoWork, Admitting
    <2>4. ASSUME NEW e, StartClaim(w, e)
          PROVE  Quiet
      BY <1>0, <2>4 DEF StartClaim, NoWork, Admitting
    <2>5. ASSUME NEW a, SelectCandidate(w, a)
          PROVE  Quiet
      BY <1>0, <2>5 DEF SelectCandidate, Admitting, Works
    <2>6. ClaimNothing(w) => Quiet
      BY <1>0 DEF ClaimNothing, NoWork, Admitting
    <2>7. ASSUME NEW d, NEW result, NEW summary, StartComplete(w, d, result, summary)
          PROVE  Quiet
      BY <1>0, <2>7 DEF StartComplete, NoWork, Admitting
    <2>8. Quiet
      BY <1>9, <2>1, <2>2, <2>3, <2>4, <2>5, <2>6, <2>7
    <2>9. QED
      BY <1>2, <1>9, <2>8
  <1>10. CASE UNCHANGED clock
    <2>1. CASE ApprovalStep \/ (\E e \in Endpoints : EndpointStep(e)) \/ UNCHANGED allVars
      <3>1. UNCHANGED <<actions, work>>
        BY <2>1 DEF ApprovalStep, EndpointStep, ApproveEndpoint, MigrateEndpoint, allVars, actionVars
      <3>2. QED
        BY <1>3, <1>10, <3>1
    <2>2. ASSUME NEW w \in Workers, ActionStep(w)
          PROVE  [Queue!QueueNext]_(Queue!queueVars)
      BY <1>4, <1>5, <1>6, <1>7, <1>8, <1>9, <1>10, <2>2 DEF ActionStep, Queue!QueueNext
    <2>3. QED
      BY <2>1, <2>2 DEF ActionNext, EndpointStep
  <1>11. QED
    BY <1>1, <1>10, ClockKept

(* The handlers implement the queue, for every number of workers and       *)
(* actions: each of their steps is a step of the abstract queue or leaves  *)
(* it alone.                                                               *)
THEOREM QueueIsImplemented == ActionSpec => QueueImplemented
  <1>1. ActionInit => Queue!QueueInit
    BY DEF ActionInit, ApprovalInit, Queue!QueueInit, QueueRows, AdmittedResults, NoActionRow,
           NoWork
  <1>2. BoundaryInv /\ ActionInv /\ [ActionNext]_allVars => [Queue!QueueNext]_(Queue!queueVars)
    BY QueueStep
  <1>3. QED
    BY ActionInvHolds, <1>1, <1>2, PTL DEF ActionSpec, QueueImplemented, Queue!QueueSpec
=============================================================================
