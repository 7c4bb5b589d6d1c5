--------------------------- MODULE ApprovalProofs ---------------------------
(***************************************************************************)
(* Theorems about the approval boundary, for every set of workers, ids,    *)
(* inputs and time bounds.                                                 *)
(***************************************************************************)
EXTENDS Approvals, TLAPS

-----------------------------------------------------------------------------
(* The rules *)

(* An emergency grant is accepted exactly when a request of one of the two *)
(* kinds for the same authority would be: _validate_manual_grant_shape is  *)
(* no back door around _validate_request_shape.                            *)
THEOREM ManualGrantRules ==
    ASSUME NEW auth \in Authorities
    PROVE  ValidManualGrantShape(auth) <=> \E kind \in RequestKinds : ValidRequestShape(kind, auth)
  <1>1. HardeningActions \cap TroubleshootingActions = {}
    BY DEF HardeningActions, TroubleshootingActions
  <1>2. "request_elevated_troubleshooting" \in TroubleshootingActions
    BY DEF TroubleshootingActions
  <1>3. ValidManualGrantShape(auth) =>
          ValidRequestShape("hardening_change", auth) \/
          ValidRequestShape("elevated_troubleshooting", auth)
    BY DEF ValidManualGrantShape, ValidRequestShape
  <1>4. ValidRequestShape("hardening_change", auth) => ValidManualGrantShape(auth)
    BY <1>1 DEF ValidManualGrantShape, ValidRequestShape, HasHardeningSignal,
                HasTroubleshootingSignal
  <1>5. ValidRequestShape("elevated_troubleshooting", auth) => ValidManualGrantShape(auth)
    BY <1>1, <1>2 DEF ValidManualGrantShape, ValidRequestShape, HasHardeningSignal,
                      HasTroubleshootingSignal
  <1>6. QED
    BY <1>3, <1>4, <1>5 DEF RequestKinds, ValidRequestShape

(* Rounding up to a minute adds less than a minute. *)
LEMMA CeilMinuteBounds ==
    ASSUME NEW t \in Nat
    PROVE  /\ CeilMinute(t) \in Nat
           /\ t <= CeilMinute(t)
           /\ CeilMinute(t) < t + MinuteTicks
  <1>1. MinuteTicks \in Nat /\ MinuteTicks > 0
    BY RulesAssumption
  <1>2. t % MinuteTicks \in 0 .. (MinuteTicks - 1) /\ t % MinuteTicks <= t
    BY <1>1
  <1>3. QED
    BY <1>1, <1>2 DEF CeilMinute

(* Every expiry _validate_grant_expiry lets through is at least MinTtl     *)
(* minutes away, and less than a minute past the requested lifetime, itself *)
(* capped.  A request for less than MinTtl minutes can be given no expiry, *)
(* although the latest one is rounded up.                                  *)
THEOREM GrantLifetime ==
    ASSUME NEW now \in Nat, NEW ttl \in Nat, NEW t \in GrantExpiries(now, ttl)
    PROVE  /\ t \in Nat
           /\ now + MinTtl * MinuteTicks <= t
           /\ now < t
           /\ t < now + CappedTtl(ttl) * MinuteTicks + MinuteTicks
           /\ MinTtl <= ttl
  <1>1. MinuteTicks \in Nat /\ MinuteTicks > 0 /\ MinTtl \in Nat /\ MinTtl > 0 /\ MaxTtl \in Nat
    BY RulesAssumption
  <1>2. CappedTtl(ttl) \in Nat /\ CappedTtl(ttl) <= ttl
    BY <1>1 DEF CappedTtl
  <1>3. now + CappedTtl(ttl) * MinuteTicks \in Nat
    BY <1>1, <1>2
  <1>4. /\ CeilMinute(now + CappedTtl(ttl) * MinuteTicks) \in Nat
        /\ CeilMinute(now + CappedTtl(ttl) * MinuteTicks)
             < now + CappedTtl(ttl) * MinuteTicks + MinuteTicks
    BY <1>3, CeilMinuteBounds
  <1>5. MinTtl * MinuteTicks \in Nat /\ MinTtl * MinuteTicks > 0
    BY <1>1
  <1>6. /\ t \in Nat
        /\ now + MinTtl * MinuteTicks <= t
        /\ t < now + CappedTtl(ttl) * MinuteTicks + MinuteTicks
    BY <1>1, <1>2, <1>3, <1>4, <1>5 DEF GrantExpiries
  <1>7. MinTtl <= CappedTtl(ttl)
    <2>1. SUFFICES ASSUME CappedTtl(ttl) + 1 <= MinTtl PROVE FALSE
      BY <1>1, <1>2
    <2>2. PICK k \in Nat : MinTtl = CappedTtl(ttl) + 1 + k
      <3>1. /\ MinTtl - (CappedTtl(ttl) + 1) \in Nat
            /\ MinTtl = CappedTtl(ttl) + 1 + (MinTtl - (CappedTtl(ttl) + 1))
        BY <1>1, <1>2, <2>1
      <3> QED
        BY <3>1
    <2>3. MinTtl * MinuteTicks = CappedTtl(ttl) * MinuteTicks + MinuteTicks + k * MinuteTicks
      BY <1>1, <1>2, <2>2
    <2>4. k * MinuteTicks \in Nat /\ CappedTtl(ttl) * MinuteTicks \in Nat
      BY <1>1, <1>2
    <2> QED
      BY <1>1, <1>6, <2>3, <2>4
  <1> QED
    BY <1>1, <1>2, <1>5, <1>6, <1>7
-----------------------------------------------------------------------------
(* Type correctness *)

LEMMA IdleType == Idle \in Txns
  BY DEF Idle, Ops, Txns

LEMMA RequestStatusType ==
    ASSUME NEW row \in RequestRows, NEW s \in RequestStatuses
    PROVE  [row EXCEPT !.status = s] \in RequestRows
  BY DEF RequestRows

LEMMA GrantStatusType ==
    ASSUME NEW row \in GrantRows, NEW s \in GrantStatuses
    PROVE  [row EXCEPT !.status = s] \in GrantRows
  BY DEF GrantRows

(* The tables the synchronisation writes are tables. *)
LEMMA SyncedTypes ==
    ASSUME ApprovalTypeOK, NEW w \in Workers
    PROVE  /\ SyncedGrants(w) \in [GrantIds -> GrantRows]
           /\ SyncedRequests(w) \in [RequestIds -> RequestRows]
           /\ SyncedEvents(w) \in [RequestIds -> SUBSET EventTypes]
  <1>1. SyncedGrants(w) \in [GrantIds -> GrantRows]
    BY GrantStatusType DEF ApprovalTypeOK, SyncedGrants, GrantStatuses
  <1>2. SyncedRequests(w) \in [RequestIds -> RequestRows]
    BY RequestStatusType DEF ApprovalTypeOK, SyncedRequests, RequestStatuses
  <1>3. SyncedEvents(w) \in [RequestIds -> SUBSET EventTypes]
    BY DEF ApprovalTypeOK, SyncedEvents, EventTypes
  <1>4. QED
    BY <1>1, <1>2, <1>3

LEMMA FinishType ==
    ASSUME ApprovalTypeOK, NEW w \in Workers, Finish(w)
    PROVE  txn' \in [Workers -> Txns]
  BY IdleType DEF ApprovalTypeOK, Finish

(* The expiry times Next enumerates leave out none that a handler accepts, *)
(* and every one of them is a natural number.                              *)
LEMMA ExpiryType ==
    ASSUME NEW t \in 0 .. (MaxClock + (MaxTtl + 1) * MinuteTicks)
    PROVE  t \in Nat
  OBVIOUS

(* The steps of the specification, one by one. *)
LEMMA StepCases ==
    ASSUME [ApprovalNext]_approvalVars
    PROVE  \/ UNCHANGED approvalVars \/ Tick
           \/ \E r \in RequestIds, kind \in RequestKinds, auth \in Asked, ttl \in Ttls :
                  CreateRequest(r, kind, auth, ttl)
           \/ \E w \in Workers, op \in Ops, target \in RequestIds \cup {Nothing} :
                  Call(w, op, target) /\ (op \in Decisions => target \in RequestIds)
           \/ \E w \in Workers : SyncSelect(w)
           \/ \E w \in Workers, g \in GrantIds : SyncGet(w, g)
           \/ \E w \in Workers : Deny(w)
           \/ \E w \in Workers : Revoke(w)
           \/ \E w \in Workers, g \in GrantIds, t \in Nat : Approve(w, g, t)
           \/ \E w \in Workers, g \in GrantIds, t \in Nat, auth \in Asked :
                  CreateGrant(w, g, auth, t)
           \/ \E w \in Workers : SyncCommit(w)
           \/ \E w \in Workers : Abort(w)
  <1>1. ASSUME NEW w \in Workers, NEW d \in Decisions, NEW r \in RequestIds, Call(w, d, r)
        PROVE  \E op \in Ops, target \in RequestIds \cup {Nothing} :
                   Call(w, op, target) /\ (op \in Decisions => target \in RequestIds)
    BY <1>1 DEF Ops
  <1>2. ASSUME NEW w \in Workers, NEW op \in {"sync", "grant"}, Call(w, op, Nothing)
        PROVE  /\ op \in Ops /\ op \notin Decisions
    BY DEF Ops, Decisions
  <1>3. QED
    BY <1>1, <1>2, ExpiryType DEF ApprovalNext, HandlerStep

(* What a step does to the tables. *)
LEMMA RowCases ==
    ASSUME [ApprovalNext]_approvalVars
    PROVE  \/ UNCHANGED <<requests, grants, events>>
           \/ \E r \in RequestIds, kind \in RequestKinds, auth \in Asked, ttl \in Ttls :
                  CreateRequest(r, kind, auth, ttl)
           \/ \E w \in Workers : Deny(w)
           \/ \E w \in Workers : Revoke(w)
           \/ \E w \in Workers, g \in GrantIds, t \in Nat : Approve(w, g, t)
           \/ \E w \in Workers, g \in GrantIds, t \in Nat, auth \in Asked :
                  CreateGrant(w, g, auth, t)
           \/ \E w \in Workers : SyncCommit(w)
  <1>1. UNCHANGED approvalVars \/ Tick => UNCHANGED <<requests, grants, events>>
    BY DEF approvalVars, Tick
  <1>2. \A w \in Workers : \A op, target : Call(w, op, target) => UNCHANGED <<requests, grants, events>>
    BY DEF Call
  <1>3. \A w \in Workers : SyncSelect(w) \/ Abort(w) => UNCHANGED <<requests, grants, events>>
    BY DEF SyncSelect, Abort
  <1>4. \A w \in Workers, g \in GrantIds : SyncGet(w, g) => UNCHANGED <<requests, grants, events>>
    BY DEF SyncGet
  <1>5. QED
    BY <1>1, <1>2, <1>3, <1>4, StepCases

(* What a step does to the handlers. *)
LEMMA TxnCases ==
    ASSUME [ApprovalNext]_approvalVars
    PROVE  \/ UNCHANGED txn
           \/ \E w \in Workers : Finish(w)
           \/ \E w \in Workers, op \in Ops, target \in RequestIds \cup {Nothing} :
                  Call(w, op, target) /\ (op \in Decisions => target \in RequestIds)
           \/ \E w \in Workers : SyncSelect(w)
           \/ \E w \in Workers, g \in GrantIds : SyncGet(w, g)
  <1>1. UNCHANGED approvalVars \/ Tick => UNCHANGED txn
    BY DEF approvalVars, Tick
  <1>2. \A r \in RequestIds, kind \in RequestKinds, auth \in Asked, ttl \in Ttls :
            CreateRequest(r, kind, auth, ttl) => UNCHANGED txn
    BY DEF CreateRequest
  <1>3. \A w \in Workers : \A r, from, to, event :
            DecideRequest(w, r, from, to, event) => Finish(w)
    BY DEF DecideRequest
  <1>4. \A w \in Workers : Deny(w) => Finish(w)
    BY <1>3 DEF Deny
  <1>5. \A w \in Workers : Revoke(w) => Finish(w)
    BY <1>3 DEF Revoke
  <1>6. \A w \in Workers, g \in GrantIds, t \in Nat : Approve(w, g, t) => Finish(w)
    BY <1>3 DEF Approve
  <1>7. \A w \in Workers, g \in GrantIds, t \in Nat, auth \in Asked :
            CreateGrant(w, g, auth, t) => Finish(w)
    BY DEF CreateGrant
  <1>8. \A w \in Workers : SyncCommit(w) \/ Abort(w) => Finish(w)
    BY DEF SyncCommit, Abort
  <1>9. QED
    BY <1>1, <1>2, <1>4, <1>5, <1>6, <1>7, <1>8, StepCases

LEMMA DecideType ==
    ASSUME ApprovalTypeOK, NEW w \in Workers, NEW r, NEW from, NEW to, NEW event \in EventTypes,
           r \in RequestIds => to \in RequestRows, DecideRequest(w, r, from, to, event)
    PROVE  /\ requests' \in [RequestIds -> RequestRows]
           /\ events' \in [RequestIds -> SUBSET EventTypes]
           /\ txn' \in [Workers -> Txns] /\ clock' = clock
  <1>1. requests' \in [RequestIds -> RequestRows]
    BY SyncedTypes DEF DecideRequest
  <1>2. events' \in [RequestIds -> SUBSET EventTypes]
    BY SyncedTypes DEF DecideRequest
  <1>3. txn' \in [Workers -> Txns] /\ clock' = clock
    BY FinishType DEF DecideRequest
  <1>4. QED
    BY <1>1, <1>2, <1>3

LEMMA TypeStep ==
    ApprovalTypeOK /\ ReadsStayTrue /\ [ApprovalNext]_approvalVars => ApprovalTypeOK'
  <1> SUFFICES ASSUME ApprovalTypeOK, ReadsStayTrue, [ApprovalNext]_approvalVars
               PROVE  ApprovalTypeOK'
    OBVIOUS
  <1>0. {"denied", "revoked", "approved"} \subseteq EventTypes
    BY DEF EventTypes
  <1>1. CASE Tick
    BY <1>1 DEF Tick, ApprovalTypeOK
  <1>2. ASSUME NEW r \in RequestIds, NEW kind \in RequestKinds, NEW auth \in Asked,
               NEW ttl \in Ttls, CreateRequest(r, kind, auth, ttl)
        PROVE  ApprovalTypeOK'
    <2>1. [status |-> "pending", auth |-> auth, ttl |-> ttl, grant |-> Nothing] \in RequestRows
      BY ApprovalsAssumption DEF RequestRows, RequestStatuses
    <2>2. QED
      BY <1>2, <2>1 DEF CreateRequest, ApprovalTypeOK, EventTypes
  <1>3. ASSUME NEW w \in Workers, NEW op \in Ops, NEW target \in RequestIds \cup {Nothing},
               Call(w, op, target)
        PROVE  ApprovalTypeOK'
    <2>1. [Idle EXCEPT !.pc = "called", !.op = op, !.target = target, !.now = clock] \in Txns
      BY IdleType DEF Txns, ApprovalTypeOK
    <2>2. QED
      BY <1>3, <2>1 DEF Call, ApprovalTypeOK
  <1>4. ASSUME NEW w \in Workers, SyncSelect(w)
        PROVE  ApprovalTypeOK'
    <2>1. [txn[w] EXCEPT !.pc = "synced", !.due = DueGrants(txn[w].now)] \in Txns
      BY DEF Txns, ApprovalTypeOK, DueGrants
    <2>2. QED
      BY <1>4, <2>1 DEF SyncSelect, ApprovalTypeOK
  <1>5. ASSUME NEW w \in Workers, NEW g \in GrantIds, SyncGet(w, g)
        PROVE  ApprovalTypeOK'
    <2>1. requests[grants[g].request].status \in RequestStatuses
      BY <1>5 DEF SyncGet, ApprovalTypeOK, RequestRows, GrantRows
    <2>2. [txn[w] EXCEPT !.seen[g] = requests[grants[g].request].status] \in Txns
      BY <2>1 DEF Txns, ApprovalTypeOK
    <2>3. QED
      BY <1>5, <2>2 DEF SyncGet, ApprovalTypeOK
  <1>6. ASSUME NEW w \in Workers, Deny(w)
        PROVE  ApprovalTypeOK'
    <2>1. txn[w].target \in RequestIds =>
              [requests[txn[w].target] EXCEPT !.status = "denied"] \in RequestRows
      BY RequestStatusType DEF ApprovalTypeOK, RequestStatuses
    <2>2. QED
      BY <1>0, <1>6, <2>1, SyncedTypes, DecideType DEF Deny, ApprovalTypeOK
  <1>7. ASSUME NEW w \in Workers, Revoke(w)
        PROVE  ApprovalTypeOK'
    <2>1. txn[w].target \in RequestIds =>
              [requests[txn[w].target] EXCEPT !.status = "revoked"] \in RequestRows
      BY RequestStatusType DEF ApprovalTypeOK, RequestStatuses
    <2>2. grants' \in [GrantIds -> GrantRows]
      BY <1>7, SyncedTypes, GrantStatusType DEF Revoke, GrantStatuses
    <2>3. QED
      BY <1>0, <1>7, <2>1, <2>2, DecideType DEF Revoke, ApprovalTypeOK
  <1>8. ASSUME NEW w \in Workers, NEW g \in GrantIds, NEW t \in Nat, Approve(w, g, t)
        PROVE  ApprovalTypeOK'
    <2> DEFINE r == txn[w].target
    <2>1. r \in RequestIds
      BY <1>8 DEF Approve, DecideRequest, SyncDone, ReadsStayTrue, Decisions
    <2>2. [requests[r] EXCEPT !.status = "approved", !.grant = g] \in RequestRows
      BY <2>1 DEF ApprovalTypeOK, RequestRows, RequestStatuses
    <2>3. [status |-> "approved", auth |-> requests[r].auth, request |-> r,
           expires |-> t] \in GrantRows
      BY <2>1 DEF ApprovalTypeOK, RequestRows, GrantRows, GrantStatuses
    <2>4. grants' \in [GrantIds -> GrantRows]
      BY <1>8, <2>3, SyncedTypes DEF Approve
    <2>5. QED
      BY <1>0, <1>8, <2>2, <2>4, DecideType DEF Approve, ApprovalTypeOK
  <1>9. ASSUME NEW w \in Workers, NEW g \in GrantIds, NEW t \in Nat, NEW auth \in Asked,
               CreateGrant(w, g, auth, t)
        PROVE  ApprovalTypeOK'
    <2>1. [status |-> "approved", auth |-> auth, request |-> Nothing, expires |-> t]
             \in GrantRows
      BY ApprovalsAssumption DEF GrantRows, GrantStatuses
    <2>2. QED
      BY <1>9, <2>1, FinishType DEF CreateGrant, ApprovalTypeOK
  <1>10. ASSUME NEW w \in Workers, SyncCommit(w)
         PROVE  ApprovalTypeOK'
    BY <1>10, SyncedTypes, FinishType DEF SyncCommit, ApprovalTypeOK
  <1>11. ASSUME NEW w \in Workers, Abort(w)
         PROVE  ApprovalTypeOK'
    BY <1>11, FinishType DEF Abort, ApprovalTypeOK
  <1>12. CASE UNCHANGED approvalVars
    BY <1>12 DEF approvalVars, ApprovalTypeOK
  <1>13. QED
    BY <1>1, <1>2, <1>3, <1>4, <1>5, <1>6, <1>7, <1>8, <1>9, <1>10, <1>11, <1>12,
       StepCases
-----------------------------------------------------------------------------
(* The grant and its request *)

(* What a committing synchronisation leaves: consistent tables again,      *)
(* although it read both rows before and tests neither.                    *)
LEMMA SyncConsistent ==
    ASSUME ApprovalInv, NEW w \in Workers, SyncDone(w)
    PROVE  Consistent(SyncedGrants(w), SyncedRequests(w))
  <1> DEFINE gs == SyncedGrants(w)
             rs == SyncedRequests(w)
  <1>1. \A g \in GrantIds :
            /\ gs[g].request = grants[g].request
            /\ gs[g].status = IF g \in txn[w].due THEN "expired" ELSE grants[g].status
    BY DEF SyncedGrants, ApprovalInv, ApprovalTypeOK, GrantRows
  <1>2. \A r \in RequestIds :
            /\ rs[r].grant = requests[r].grant
            /\ rs[r].status = IF r \in Expiring(w) THEN "expired" ELSE requests[r].status
    BY DEF SyncedRequests, ApprovalInv, ApprovalTypeOK, RequestRows
  <1>3. \A g \in GrantIds : grants[g].request # Nothing => grants[g].request \in RequestIds
    BY DEF ApprovalInv, ApprovalTypeOK, GrantRows
  <1>4. \A g \in GrantIds : grants[g].request # Nothing /\ g \in txn[w].due =>
            rs[grants[g].request].status # "approved"
    <2> SUFFICES ASSUME NEW g \in GrantIds, grants[g].request # Nothing, g \in txn[w].due
                 PROVE  rs[grants[g].request].status # "approved"
      OBVIOUS
    <2>1. CASE txn[w].seen[g] = "approved"
      BY <2>1, <1>2, <1>3 DEF Expiring
    <2>2. CASE txn[w].seen[g] # "approved"
      BY <2>2, <1>2, <1>3 DEF SyncDone, ApprovalInv, ReadsStayTrue
    <2>3. QED
      BY <2>1, <2>2
  <1>5. \A g \in GrantIds : grants[g].request # Nothing /\ grants[g].request \in Expiring(w) =>
            g \in txn[w].due
    <2> SUFFICES ASSUME NEW g \in GrantIds, grants[g].request # Nothing,
                        grants[g].request \in Expiring(w)
                 PROVE  g \in txn[w].due
      OBVIOUS
    <2>1. PICK d \in txn[w].due : grants[d].request = grants[g].request
      BY DEF Expiring
    <2>2. d \in GrantIds
      BY <2>1 DEF ApprovalInv, ApprovalTypeOK, Txns
    <2>3. d = g
      BY <2>1, <2>2 DEF ApprovalInv, GrantFollowsRequest, Consistent
    <2>4. QED
      BY <2>1, <2>3
  <1>6. \A g \in GrantIds : gs[g].status = "absent" => gs[g].request = Nothing
    BY <1>1 DEF ApprovalInv, GrantFollowsRequest, Consistent
  <1>7. ASSUME NEW g \in GrantIds, gs[g].request # Nothing
        PROVE  /\ rs[gs[g].request].grant = g
               /\ rs[gs[g].request].status \in {"approved", "expired", "revoked"}
               /\ (gs[g].status = "approved") <=> (rs[gs[g].request].status = "approved")
    BY <1>1, <1>2, <1>3, <1>4, <1>5, <1>7 DEF ApprovalInv, GrantFollowsRequest, Consistent
  <1>8. ASSUME NEW r \in RequestIds, rs[r].status = "approved"
        PROVE  \E g \in GrantIds : gs[g].request = r
    BY <1>1, <1>2, <1>8 DEF ApprovalInv, GrantFollowsRequest, Consistent
  <1>9. QED
    BY <1>6, <1>7, <1>8 DEF Consistent
LEMMA ConsistentStep == ApprovalInv /\ [ApprovalNext]_approvalVars => GrantFollowsRequest'
  <1> SUFFICES ASSUME ApprovalInv, [ApprovalNext]_approvalVars
               PROVE  GrantFollowsRequest'
    OBVIOUS
  <1>1. CASE UNCHANGED <<grants, requests>>
    BY <1>1 DEF ApprovalInv, GrantFollowsRequest, Consistent
  <1>2. ASSUME NEW r \in RequestIds, NEW kind \in RequestKinds, NEW auth \in Asked,
               NEW ttl \in Ttls, CreateRequest(r, kind, auth, ttl)
        PROVE  GrantFollowsRequest'
    <2>1. \A g \in GrantIds : grants[g].request # r
      BY <1>2, ApprovalsAssumption
      DEF CreateRequest, ApprovalInv, GrantFollowsRequest, Consistent
    <2>2. \A s \in RequestIds : s # r => requests'[s] = requests[s]
      BY <1>2 DEF CreateRequest, ApprovalInv, ApprovalTypeOK
    <2>3. requests'[r].status = "pending" /\ grants' = grants
      BY <1>2 DEF CreateRequest, ApprovalInv, ApprovalTypeOK
    <2>4. \A g \in GrantIds : grants[g].request # Nothing => grants[g].request \in RequestIds
      BY DEF ApprovalInv, ApprovalTypeOK, GrantRows
    <2>5. QED
      BY <2>1, <2>2, <2>3, <2>4 DEF ApprovalInv, GrantFollowsRequest, Consistent
  <1>3. ASSUME NEW w \in Workers, NEW g \in GrantIds, NEW t \in Nat, NEW auth \in Asked,
               CreateGrant(w, g, auth, t)
        PROVE  GrantFollowsRequest'
    <2>1. /\ \A h \in GrantIds : h # g => grants'[h] = grants[h]
          /\ grants'[g].status = "approved"
          /\ grants'[g].request = Nothing
          /\ requests' = requests
      BY <1>3 DEF CreateGrant, ApprovalInv, ApprovalTypeOK
    <2>2. grants[g].request = Nothing
      BY <1>3 DEF CreateGrant, ApprovalInv, GrantFollowsRequest, Consistent
    <2>3. QED
      BY <2>1, <2>2, ApprovalsAssumption DEF ApprovalInv, GrantFollowsRequest, Consistent
  <1>4. ASSUME NEW w \in Workers, SyncCommit(w)
        PROVE  GrantFollowsRequest'
    BY <1>4, SyncConsistent DEF SyncCommit, GrantFollowsRequest
  <1>5. ASSUME NEW w \in Workers, Deny(w)
        PROVE  GrantFollowsRequest'
    <2> DEFINE r == txn[w].target
               gs == SyncedGrants(w)
               rs == SyncedRequests(w)
    <2>1. Consistent(gs, rs) /\ r \in RequestIds
      BY <1>5, SyncConsistent
      DEF Deny, DecideRequest, SyncDone, ApprovalInv, ReadsStayTrue, Decisions
    <2>2. /\ gs \in [GrantIds -> GrantRows]
          /\ rs \in [RequestIds -> RequestRows]
      BY SyncedTypes DEF ApprovalInv
    <2>3. /\ rs[r].status = "pending"
          /\ grants' = gs
          /\ \A s \in RequestIds : s # r => requests'[s] = rs[s]
          /\ requests'[r].status = "denied"
      BY <1>5, <2>1, <2>2
      DEF Deny, DecideRequest, ApprovalInv, ApprovalTypeOK, RequestRows
    <2>4. \A g \in GrantIds : gs[g].request # r
      BY <2>1, <2>3, ApprovalsAssumption DEF Consistent
    <2>5. QED
      BY <2>1, <2>2, <2>3, <2>4 DEF GrantFollowsRequest, Consistent, GrantRows
  <1>6. ASSUME NEW w \in Workers, Revoke(w)
        PROVE  GrantFollowsRequest'
    <2> DEFINE r == txn[w].target
               gs == SyncedGrants(w)
               rs == SyncedRequests(w)
    <2>1. Consistent(gs, rs) /\ r \in RequestIds
      BY <1>6, SyncConsistent
      DEF Revoke, DecideRequest, SyncDone, ApprovalInv, ReadsStayTrue, Decisions
    <2>2. /\ gs \in [GrantIds -> GrantRows]
          /\ rs \in [RequestIds -> RequestRows]
      BY SyncedTypes DEF ApprovalInv
    <2>3. /\ rs[r].status = "approved"
          /\ r \notin Expiring(w)
      BY <1>6, <2>1 DEF Revoke, DecideRequest, SyncedRequests, ApprovalInv, ApprovalTypeOK,
                        RequestRows
    <2>4. /\ \A s \in RequestIds : s # r => requests'[s] = rs[s]
          /\ requests'[r].status = "revoked"
          /\ requests'[r].grant = rs[r].grant
      BY <1>6, <2>1, <2>2, <2>3
      DEF Revoke, DecideRequest, SyncedRequests, ApprovalInv, ApprovalTypeOK, RequestRows
    <2>5. \A g \in GrantIds :
              /\ grants'[g].request = gs[g].request
              /\ grants'[g].status = IF gs[g].request = r /\ gs[g].status = "approved"
                                     THEN "revoked" ELSE gs[g].status
      BY <1>6, <2>2 DEF Revoke, GrantRows
    <2>6. QED
      BY <2>1, <2>2, <2>3, <2>4, <2>5 DEF GrantFollowsRequest, Consistent, GrantRows
  <1>7. ASSUME NEW w \in Workers, NEW g \in GrantIds, NEW t \in Nat, Approve(w, g, t)
        PROVE  GrantFollowsRequest'
    <2> DEFINE r == txn[w].target
               gs == SyncedGrants(w)
               rs == SyncedRequests(w)
    <2>1. Consistent(gs, rs) /\ r \in RequestIds
      BY <1>7, SyncConsistent
      DEF Approve, DecideRequest, SyncDone, ApprovalInv, ReadsStayTrue, Decisions
    <2>2. /\ gs \in [GrantIds -> GrantRows]
          /\ rs \in [RequestIds -> RequestRows]
      BY SyncedTypes DEF ApprovalInv
    <2>3. /\ rs[r].status = "pending"
          /\ \A s \in RequestIds : s # r => requests'[s] = rs[s]
          /\ requests'[r].status = "approved"
          /\ requests'[r].grant = g
      BY <1>7, <2>1, <2>2
      DEF Approve, DecideRequest, ApprovalInv, ApprovalTypeOK, RequestRows
    <2>4. /\ \A h \in GrantIds : h # g => grants'[h] = gs[h]
          /\ grants'[g].status = "approved"
          /\ grants'[g].request = r
      BY <1>7, <2>2 DEF Approve
    <2>5. grants[g].request = Nothing
      BY <1>7 DEF Approve, ApprovalInv, GrantFollowsRequest, Consistent
    <2>6. gs[g].request = Nothing
      BY <2>5 DEF SyncedGrants, ApprovalInv, ApprovalTypeOK, GrantRows
    <2>7. \A h \in GrantIds : gs[h].request # r
      BY <2>1, <2>3, ApprovalsAssumption DEF Consistent
    <2>8. QED
      BY <2>1, <2>2, <2>3, <2>4, <2>6, <2>7, ApprovalsAssumption
      DEF GrantFollowsRequest, Consistent, GrantRows
  <1>8. QED
    BY <1>1, <1>2, <1>3, <1>4, <1>5, <1>6, <1>7, RowCases
(* No step forgets a grant, links it to another request, or makes a        *)
(* request that has a grant approved again.                                *)
RowsPersist ==
    /\ \A g \in GrantIds : grants[g].status # "absent" =>
           grants'[g].status # "absent" /\ grants'[g].request = grants[g].request
    /\ \A g \in GrantIds :
           grants[g].request # Nothing /\ requests[grants[g].request].status # "approved" =>
               requests'[grants[g].request].status # "approved"

(* What a step does to the rows, as the proofs below use it. *)
LEMMA SyncedRows ==
    ASSUME ApprovalTypeOK, NEW w \in Workers
    PROVE  /\ \A g \in GrantIds :
                  /\ SyncedGrants(w)[g].request = grants[g].request
                  /\ SyncedGrants(w)[g].status \in {grants[g].status, "expired"}
                  /\ g \notin txn[w].due => SyncedGrants(w)[g] = grants[g]
           /\ \A r \in RequestIds :
                  SyncedRequests(w)[r].status \in {requests[r].status, "expired"}
  BY DEF SyncedGrants, SyncedRequests, ApprovalTypeOK, GrantRows, RequestRows

LEMMA PersistStep == ApprovalInv /\ [ApprovalNext]_approvalVars => RowsPersist
  <1> SUFFICES ASSUME ApprovalInv, [ApprovalNext]_approvalVars
               PROVE  RowsPersist
    OBVIOUS
  <1>0. /\ ApprovalTypeOK
        /\ \A g \in GrantIds : grants[g].request # Nothing => grants[g].request \in RequestIds
    BY DEF ApprovalInv, ApprovalTypeOK, GrantRows
  <1>1. CASE UNCHANGED <<grants, requests>>
    BY <1>1 DEF RowsPersist
  <1>2. ASSUME NEW r \in RequestIds, NEW kind \in RequestKinds, NEW auth \in Asked,
               NEW ttl \in Ttls, CreateRequest(r, kind, auth, ttl)
        PROVE  RowsPersist
    BY <1>2, <1>0 DEF CreateRequest, RowsPersist, ApprovalTypeOK
  <1>3. ASSUME NEW w \in Workers, NEW g \in GrantIds, NEW t \in Nat, NEW auth \in Asked,
               CreateGrant(w, g, auth, t)
        PROVE  RowsPersist
    BY <1>3, <1>0 DEF CreateGrant, RowsPersist, ApprovalTypeOK
  <1>4. ASSUME NEW w \in Workers, SyncCommit(w)
        PROVE  RowsPersist
    BY <1>4, <1>0, SyncedRows DEF SyncCommit, RowsPersist
  <1>5. ASSUME NEW w \in Workers, Deny(w)
        PROVE  RowsPersist
    <2>1. \A r \in RequestIds : requests'[r].status \in
              {SyncedRequests(w)[r].status, "denied"}
      BY <1>5, <1>0, SyncedTypes DEF Deny, DecideRequest, ApprovalTypeOK, RequestRows
    <2>2. QED
      BY <1>5, <2>1, <1>0, SyncedRows DEF Deny, RowsPersist
  <1>6. ASSUME NEW w \in Workers, Revoke(w)
        PROVE  RowsPersist
    <2>1. \A r \in RequestIds : requests'[r].status \in
              {SyncedRequests(w)[r].status, "revoked"}
      BY <1>6, <1>0, SyncedTypes DEF Revoke, DecideRequest, ApprovalTypeOK, RequestRows
    <2>2. \A g \in GrantIds :
              /\ grants'[g].request = SyncedGrants(w)[g].request
              /\ grants'[g].status \in {SyncedGrants(w)[g].status, "revoked"}
      BY <1>6, <1>0, SyncedTypes DEF Revoke, GrantRows
    <2>3. QED
      BY <2>1, <2>2, <1>0, SyncedRows DEF RowsPersist
  <1>7. ASSUME NEW w \in Workers, NEW g \in GrantIds, NEW t \in Nat, Approve(w, g, t)
        PROVE  RowsPersist
    <2> DEFINE r == txn[w].target
    <2>1. /\ SyncedRequests(w)[r].status = "pending"
          /\ r \in RequestIds
      BY <1>7 DEF Approve, DecideRequest, SyncDone, ApprovalInv, ReadsStayTrue, Decisions
    <2>2. requests[r].status = "pending"
      BY <2>1, <1>0, SyncedRows
    <2>3. \A h \in GrantIds : grants[h].request # r
      BY <2>1, <2>2, ApprovalsAssumption DEF ApprovalInv, GrantFollowsRequest, Consistent
    <2>4. \A s \in RequestIds : s # r => requests'[s] = SyncedRequests(w)[s]
      BY <1>7, <1>0, SyncedTypes DEF Approve, DecideRequest
    <2>5. \A h \in GrantIds : h # g => grants'[h] = SyncedGrants(w)[h]
      BY <1>7, <1>0, SyncedTypes DEF Approve
    <2>6. grants[g].status = "absent" /\ grants[g].request = Nothing
      BY <1>7 DEF Approve, ApprovalInv, GrantFollowsRequest, Consistent
    <2>7. QED
      BY <2>3, <2>4, <2>5, <2>6, <1>0, SyncedRows DEF RowsPersist
  <1>8. QED
    BY <1>1, <1>2, <1>3, <1>4, <1>5, <1>6, <1>7, RowCases

LEMMA ReadsStep == ApprovalInv /\ [ApprovalNext]_approvalVars => ReadsStayTrue'
  <1> SUFFICES ASSUME ApprovalInv, [ApprovalNext]_approvalVars
               PROVE  ReadsStayTrue'
    OBVIOUS
  <1>0. RowsPersist /\ ApprovalTypeOK /\ ReadsStayTrue
    BY PersistStep DEF ApprovalInv
  <1> DEFINE Good(v) ==
        /\ \A g \in txn'[v].due :
               /\ grants'[g].status # "absent"
               /\ grants'[g].request # Nothing /\ txn'[v].seen[g] \notin {"unread", "approved"}
                      => requests'[grants'[g].request].status # "approved"
        /\ txn'[v].pc = "called" => \A g \in GrantIds : txn'[v].seen[g] = "unread"
        /\ txn'[v].pc # "idle" /\ txn'[v].op \in Decisions => txn'[v].target \in RequestIds
  <1>1. ASSUME NEW v \in Workers, txn'[v] = txn[v]
        PROVE  Good(v)
    <2>1. txn[v].due \subseteq GrantIds
      BY <1>0 DEF ApprovalTypeOK, Txns
    <2>2. QED
      BY <1>0, <1>1, <2>1 DEF RowsPersist, ReadsStayTrue
  <1>2. ASSUME NEW v \in Workers, txn'[v] = Idle
        PROVE  Good(v)
    BY <1>2 DEF Idle
  <1>3. CASE UNCHANGED txn
    BY <1>1, <1>3 DEF ReadsStayTrue
  <1>4. ASSUME NEW w \in Workers, Finish(w)
        PROVE  ReadsStayTrue'
    <2>1. \A v \in Workers : txn'[v] = IF v = w THEN Idle ELSE txn[v]
      BY <1>0, <1>4 DEF Finish, ApprovalTypeOK
    <2>2. QED
      BY <1>1, <1>2, <2>1 DEF ReadsStayTrue
  <1>5. ASSUME NEW w \in Workers, NEW op \in Ops, NEW target, Call(w, op, target),
               op \in Decisions => target \in RequestIds
        PROVE  ReadsStayTrue'
    <2>1. /\ \A v \in Workers : v # w => txn'[v] = txn[v]
          /\ txn'[w].due = {} /\ txn'[w].op = op /\ txn'[w].target = target
          /\ txn'[w].seen = [g \in GrantIds |-> "unread"]
      BY <1>0, <1>5 DEF Call, ApprovalTypeOK, Idle
    <2>2. QED
      BY <1>1, <1>5, <2>1 DEF ReadsStayTrue
  <1>6. ASSUME NEW w \in Workers, SyncSelect(w)
        PROVE  ReadsStayTrue'
    <2>1. \A v \in Workers : v # w => txn'[v] = txn[v]
      BY <1>0, <1>6 DEF SyncSelect, ApprovalTypeOK
    <2>2. /\ txn'[w].due = DueGrants(txn[w].now)
          /\ txn'[w].seen = txn[w].seen /\ txn'[w].op = txn[w].op
          /\ txn'[w].target = txn[w].target /\ txn[w].pc = "called"
          /\ grants' = grants /\ requests' = requests
      BY <1>0, <1>6 DEF SyncSelect, ApprovalTypeOK, Txns
    <2>3. txn'[w].pc = "synced" /\ DueGrants(txn[w].now) \subseteq GrantIds
      BY <1>0, <1>6 DEF SyncSelect, ApprovalTypeOK, Txns, DueGrants
    <2>4. Good(w)
      BY <1>0, <2>2, <2>3 DEF ReadsStayTrue, DueGrants
    <2>5. QED
      BY <1>1, <2>1, <2>4 DEF ReadsStayTrue
  <1>7. ASSUME NEW w \in Workers, NEW h \in GrantIds, SyncGet(w, h)
        PROVE  ReadsStayTrue'
    <2>1. \A v \in Workers : v # w => txn'[v] = txn[v]
      BY <1>0, <1>7 DEF SyncGet, ApprovalTypeOK
    <2>2. /\ \A g \in GrantIds : txn'[w].seen[g] =
                 IF g = h THEN requests[grants[h].request].status ELSE txn[w].seen[g]
          /\ txn'[w].due = txn[w].due /\ txn'[w].op = txn[w].op
          /\ txn'[w].target = txn[w].target
          /\ txn'[w].pc = "synced" /\ txn[w].pc = "synced"
          /\ grants' = grants /\ requests' = requests
          /\ txn[w].due \subseteq GrantIds
      BY <1>0, <1>7 DEF SyncGet, ApprovalTypeOK, Txns
    <2>3. Good(w)
      BY <1>0, <2>2 DEF ReadsStayTrue
    <2>4. QED
      BY <1>1, <2>1, <2>3 DEF ReadsStayTrue
  <1>8. QED
    BY <1>3, <1>4, <1>5, <1>6, <1>7, TxnCases

LEMMA InitInv == ApprovalInit => ApprovalInv
  <1> SUFFICES ASSUME ApprovalInit PROVE ApprovalInv
    OBVIOUS
  <1>1. NoAuthority \in Authorities
    BY DEF NoAuthority, Authorities
  <1>2. NoRequestRow \in RequestRows /\ NoGrantRow \in GrantRows
    BY <1>1 DEF NoRequestRow, NoGrantRow, RequestRows, GrantRows, RequestStatuses, GrantStatuses
  <1>3. ApprovalTypeOK
    BY <1>2, IdleType DEF ApprovalInit, ApprovalTypeOK
  <1>4. GrantFollowsRequest
    BY DEF ApprovalInit, GrantFollowsRequest, Consistent, NoGrantRow, NoRequestRow
  <1>5. ReadsStayTrue
    BY DEF ApprovalInit, ReadsStayTrue, Idle
  <1>6. QED
    BY <1>3, <1>4, <1>5 DEF ApprovalInv

(* ApprovalInv is inductive. *)
LEMMA InvStep == ApprovalInv /\ [ApprovalNext]_approvalVars => ApprovalInv'
  BY TypeStep, ConsistentStep, ReadsStep DEF ApprovalInv

LEMMA InvHolds == ApprovalSpec => []ApprovalInv
  BY InitInv, InvStep, PTL DEF ApprovalSpec

(* Every reachable state of the approval tables is well formed. *)
THEOREM ApprovalTypeCorrect == ApprovalSpec => []ApprovalTypeOK
  <1>1. ApprovalInv => ApprovalTypeOK
    BY DEF ApprovalInv
  <1>2. QED
    BY InvHolds, <1>1, PTL

(* A linked grant is approved exactly while its request is, in every       *)
(* interleaving of decisions and expiry synchronisations.                  *)
THEOREM GrantFollowsRequestAlways == ApprovalSpec => []GrantFollowsRequest
  <1>1. ApprovalInv => GrantFollowsRequest
    BY DEF ApprovalInv
  <1>2. QED
    BY InvHolds, <1>1, PTL

(* One step of NoRevival: what has ended stays ended. *)
EndedStay ==
    /\ \A g \in GrantIds : grants[g].status \in {"expired", "revoked"} =>
           grants'[g].status \in {"expired", "revoked"}
    /\ \A r \in RequestIds : requests[r].status \in {"denied", "expired", "revoked"} =>
           requests'[r].status \in {"denied", "expired", "revoked"}

LEMMA EndedStep == ApprovalInv /\ [ApprovalNext]_approvalVars => EndedStay
  <1> SUFFICES ASSUME ApprovalInv, [ApprovalNext]_approvalVars
               PROVE  EndedStay
    OBVIOUS
  <1>0. ApprovalTypeOK
    BY DEF ApprovalInv
  <1>1. CASE UNCHANGED <<grants, requests>>
    BY <1>1 DEF EndedStay
  <1>2. ASSUME NEW r \in RequestIds, NEW kind \in RequestKinds, NEW auth \in Asked,
               NEW ttl \in Ttls, CreateRequest(r, kind, auth, ttl)
        PROVE  EndedStay
    BY <1>0, <1>2 DEF EndedStay, CreateRequest, ApprovalTypeOK
  <1>3. ASSUME NEW w \in Workers, NEW g \in GrantIds, NEW t \in Nat, NEW auth \in Asked,
               CreateGrant(w, g, auth, t)
        PROVE  EndedStay
    BY <1>0, <1>3 DEF EndedStay, CreateGrant, ApprovalTypeOK
  <1>4. ASSUME NEW w \in Workers, SyncCommit(w)
        PROVE  EndedStay
    BY <1>0, <1>4, SyncedRows DEF EndedStay, SyncCommit
  <1>5. ASSUME NEW w \in Workers, NEW r, NEW from, NEW to, NEW event,
               DecideRequest(w, r, from, to, event), from \in {"pending", "approved"}
        PROVE  \A s \in RequestIds : requests[s].status \in {"denied", "expired", "revoked"} =>
                   requests'[s].status \in {"denied", "expired", "revoked"}
    <2>1. \A s \in RequestIds : s # r => requests'[s] = SyncedRequests(w)[s]
      BY <1>0, <1>5, SyncedTypes DEF DecideRequest
    <2>2. r \in RequestIds => requests[r].status \notin {"denied", "expired", "revoked"}
      BY <1>0, <1>5, SyncedRows DEF DecideRequest
    <2>3. QED
      BY <1>0, <2>1, <2>2, SyncedRows
  <1>6. ASSUME NEW w \in Workers, Deny(w)
        PROVE  EndedStay
    BY <1>0, <1>5, <1>6, SyncedRows DEF EndedStay, Deny
  <1>7. ASSUME NEW w \in Workers, Revoke(w)
        PROVE  EndedStay
    <2>1. \A g \in GrantIds : grants'[g].status \in {SyncedGrants(w)[g].status, "revoked"}
      BY <1>0, <1>7, SyncedTypes DEF Revoke, GrantRows
    <2>2. QED
      BY <1>0, <1>5, <1>7, <2>1, SyncedRows DEF EndedStay, Revoke
  <1>8. ASSUME NEW w \in Workers, NEW g \in GrantIds, NEW t \in Nat, Approve(w, g, t)
        PROVE  EndedStay
    <2>1. /\ \A h \in GrantIds : h # g => grants'[h] = SyncedGrants(w)[h]
          /\ grants[g].status = "absent"
      BY <1>0, <1>8, SyncedTypes DEF Approve
    <2>2. QED
      BY <1>0, <1>5, <1>8, <2>1, SyncedRows DEF EndedStay, Approve
  <1>9. QED
    BY <1>1, <1>2, <1>3, <1>4, <1>6, <1>7, <1>8, RowCases

(* A revoked or expired grant never authorises again and a settled request *)
(* is never pending or approved again, in every interleaving.              *)
THEOREM NoRevivalAlways == ApprovalSpec => NoRevival
  <1>1. EndedStay => [/\ \A g \in GrantIds : grants[g].status \in {"expired", "revoked"} =>
                             grants'[g].status \in {"expired", "revoked"}
                      /\ \A r \in RequestIds :
                             requests[r].status \in {"denied", "expired", "revoked"} =>
                                 requests'[r].status \in {"denied", "expired", "revoked"}
                     ]_approvalVars
    BY DEF EndedStay
  <1>2. QED
    BY InvHolds, EndedStep, <1>1, PTL DEF ApprovalSpec, NoRevival
-----------------------------------------------------------------------------
(* The history of a request *)

(* What HistoryExplainsStatus needs to be inductive: a request that does   *)
(* not exist has no history, and a denial is the end of the story.         *)
HistoryInv ==
    /\ HistoryExplainsStatus
    /\ \A r \in RequestIds :
           /\ requests[r].status = "absent" => events[r] = {}
           /\ "denied" \in events[r] => requests[r].status = "denied"

(* The part of HistoryInv that speaks of one row and its history. *)
Explained(status, history) ==
    /\ status \in EventTypes => status \in history
    /\ status = "pending" => history = {"requested"}
    /\ status = "absent" => history = {}
    /\ "denied" \in history => history = {"requested", "denied"} /\ status = "denied"
    /\ {"revoked", "expired"} \cap history # {} => "approved" \in history

(* The synchronisation's writes keep every row explained: the requests it  *)
(* expires once were approved, whatever has become of them since.          *)
LEMMA SyncExplained ==
    ASSUME ApprovalInv, HistoryInv, NEW w \in Workers, NEW r \in RequestIds
    PROVE  Explained(SyncedRequests(w)[r].status, SyncedEvents(w)[r])
  <1>1. Explained(requests[r].status, events[r])
    BY DEF HistoryInv, HistoryExplainsStatus, Explained
  <1>2. CASE r \in Expiring(w)
    <2>1. PICK g \in txn[w].due : grants[g].request = r
      BY <1>2 DEF Expiring
    <2>2. g \in GrantIds
      BY <2>1 DEF ApprovalInv, ApprovalTypeOK, Txns
    <2>3. requests[r].status \in {"approved", "expired", "revoked"}
      BY <2>1, <2>2, ApprovalsAssumption DEF ApprovalInv, GrantFollowsRequest, Consistent
    <2>4. "approved" \in events[r] /\ "denied" \notin events[r]
      BY <1>1, <2>3 DEF Explained, EventTypes
    <2>5. /\ SyncedRequests(w)[r].status = "expired"
          /\ SyncedEvents(w)[r] = events[r] \cup {"expired"}
      BY <1>2 DEF SyncedRequests, SyncedEvents, ApprovalInv, ApprovalTypeOK, RequestRows
    <2>6. QED
      BY <2>4, <2>5 DEF Explained, EventTypes
  <1>3. CASE r \notin Expiring(w)
    BY <1>1, <1>3 DEF SyncedRequests, SyncedEvents
  <1>4. QED
    BY <1>2, <1>3

(* A decision keeps every row explained. *)
LEMMA DecisionExplained ==
    ASSUME ApprovalInv, HistoryInv, NEW w \in Workers, NEW r \in RequestIds,
           NEW from, NEW to, NEW event,
           DecideRequest(w, r, from, to, event), to.status = event,
           \/ from = "pending" /\ event \in {"approved", "denied"}
           \/ from = "approved" /\ event = "revoked"
    PROVE  \A s \in RequestIds : Explained(requests'[s].status, events'[s])
  <1>1. /\ requests' = [SyncedRequests(w) EXCEPT ![r] = to]
        /\ events' = [SyncedEvents(w) EXCEPT ![r] = @ \cup {event}]
        /\ SyncedRequests(w)[r].status = from
    BY DEF DecideRequest
  <1>2. /\ SyncedRequests(w) \in [RequestIds -> RequestRows]
        /\ SyncedEvents(w) \in [RequestIds -> SUBSET EventTypes]
    BY SyncedTypes DEF ApprovalInv
  <1>3. \A s \in RequestIds : s # r => Explained(requests'[s].status, events'[s])
    BY <1>1, <1>2, SyncExplained
  <1>4. /\ requests'[r].status = event
        /\ events'[r] = SyncedEvents(w)[r] \cup {event}
    BY <1>1, <1>2
  <1>5. Explained(from, SyncedEvents(w)[r])
    BY <1>1, SyncExplained
  <1>6. Explained(event, SyncedEvents(w)[r] \cup {event})
    <2>1. CASE from = "pending" /\ event = "approved"
      BY <1>5, <2>1 DEF Explained, EventTypes
    <2>2. CASE from = "pending" /\ event = "denied"
      BY <1>5, <2>2 DEF Explained, EventTypes
    <2>3. CASE from = "approved" /\ event = "revoked"
      BY <1>5, <2>3 DEF Explained, EventTypes
    <2>4. QED
      BY <2>1, <2>2, <2>3
  <1>7. QED
    BY <1>3, <1>4, <1>6

LEMMA HistoryStep ==
    ApprovalInv /\ ApprovalInv' /\ HistoryInv /\ [ApprovalNext]_approvalVars => HistoryInv'
  <1> SUFFICES ASSUME ApprovalInv, ApprovalInv', HistoryInv, [ApprovalNext]_approvalVars
               PROVE  \A s \in RequestIds : Explained(requests'[s].status, events'[s])
    BY ApprovalsAssumption
    DEF Explained, HistoryInv, HistoryExplainsStatus, HasGrant, ApprovalInv,
        GrantFollowsRequest, Consistent
  <1>0. \A s \in RequestIds : Explained(requests[s].status, events[s])
    BY DEF HistoryInv, HistoryExplainsStatus, Explained
  <1>1. CASE UNCHANGED <<requests, events>>
    BY <1>0, <1>1
  <1>2. ASSUME NEW r \in RequestIds, NEW kind \in RequestKinds, NEW auth \in Asked,
               NEW ttl \in Ttls, CreateRequest(r, kind, auth, ttl)
        PROVE  \A s \in RequestIds : Explained(requests'[s].status, events'[s])
    <2>1. /\ \A s \in RequestIds : s # r => requests'[s] = requests[s] /\ events'[s] = events[s]
          /\ requests'[r].status = "pending"
          /\ events'[r] = events[r] \cup {"requested"}
          /\ requests[r].status = "absent"
      BY <1>2 DEF CreateRequest, ApprovalInv, ApprovalTypeOK
    <2>2. events'[r] = {"requested"}
      BY <1>0, <2>1 DEF Explained
    <2>3. Explained(requests'[r].status, events'[r])
      BY <2>1, <2>2 DEF Explained, EventTypes
    <2>4. QED
      BY <1>0, <2>1, <2>3
  <1>3. ASSUME NEW w \in Workers, SyncCommit(w)
        PROVE  \A s \in RequestIds : Explained(requests'[s].status, events'[s])
    BY <1>3, SyncExplained DEF SyncCommit
  <1>4. ASSUME NEW w \in Workers, txn[w].op \in Decisions, SyncDone(w)
        PROVE  /\ txn[w].target \in RequestIds
               /\ \A status : [requests[txn[w].target] EXCEPT !.status = status].status = status
    BY <1>4 DEF SyncDone, ApprovalInv, ReadsStayTrue, ApprovalTypeOK, RequestRows
  <1>5. ASSUME NEW w \in Workers, Deny(w)
        PROVE  \A s \in RequestIds : Explained(requests'[s].status, events'[s])
    <2> DEFINE r == txn[w].target
               to == [requests[r] EXCEPT !.status = "denied"]
    <2>1. txn[w].op = "deny" /\ DecideRequest(w, r, "pending", to, "denied")
      BY <1>5 DEF Deny
    <2>2. SyncDone(w) /\ txn[w].op \in Decisions
      BY <2>1 DEF DecideRequest, Decisions
    <2>3. r \in RequestIds /\ to.status = "denied"
      BY <1>4, <2>2
    <2> HIDE DEF r, to
    <2>4. QED
      BY <2>1, <2>3, DecisionExplained
  <1>6. ASSUME NEW w \in Workers, Revoke(w)
        PROVE  \A s \in RequestIds : Explained(requests'[s].status, events'[s])
    <2> DEFINE r == txn[w].target
               to == [requests[r] EXCEPT !.status = "revoked"]
    <2>1. txn[w].op = "revoke" /\ DecideRequest(w, r, "approved", to, "revoked")
      BY <1>6 DEF Revoke
    <2>2. SyncDone(w) /\ txn[w].op \in Decisions
      BY <2>1 DEF DecideRequest, Decisions
    <2>3. r \in RequestIds /\ to.status = "revoked"
      BY <1>4, <2>2
    <2> HIDE DEF r, to
    <2>4. QED
      BY <2>1, <2>3, DecisionExplained
  <1>7. ASSUME NEW w \in Workers, NEW g \in GrantIds, NEW t \in Nat, Approve(w, g, t)
        PROVE  \A s \in RequestIds : Explained(requests'[s].status, events'[s])
    <2>1. txn[w].target \in RequestIds
      BY <1>4, <1>7 DEF Approve, DecideRequest, Decisions
    <2>2. [requests[txn[w].target] EXCEPT !.status = "approved", !.grant = g].status = "approved"
      BY <2>1 DEF ApprovalInv, ApprovalTypeOK, RequestRows
    <2>3. QED
      BY <1>7, <2>1, <2>2, DecisionExplained DEF Approve
  <1>8. QED
    BY <1>1, <1>2, <1>3, <1>5, <1>6, <1>7, RowCases DEF CreateGrant

(* The history of a request explains its status in every reachable state,  *)
(* also when a synchronisation that read the request while it was approved *)
(* commits after its revocation.                                           *)
THEOREM HistoryExplainsStatusAlways == ApprovalSpec => []HistoryExplainsStatus
  <1>1. ApprovalInit => HistoryInv
    BY DEF ApprovalInit, HistoryInv, HistoryExplainsStatus, NoRequestRow, EventTypes
  <1>2. HistoryInv => HistoryExplainsStatus
    BY DEF HistoryInv
  <1>3. QED
    BY InvHolds, HistoryStep, <1>1, <1>2, PTL DEF ApprovalSpec
-----------------------------------------------------------------------------
(* Expiry *)

(* What ExpiryNotEarly needs to be inductive: a handler's clock reading    *)
(* lies in the past, and the grants it selected had expired by then.       *)
ExpiryInv ==
    /\ ExpiryNotEarly
    /\ \A w \in Workers :
           /\ txn[w].now <= clock
           /\ \A g \in txn[w].due : grants[g].expires <= txn[w].now

(* No step changes the expiry of a grant that exists. *)
LEMMA ExpiresPersist ==
    ASSUME ApprovalInv, [ApprovalNext]_approvalVars, NEW g \in GrantIds,
           grants[g].status # "absent"
    PROVE  grants'[g].expires = grants[g].expires
  <1>0. ApprovalTypeOK
    BY DEF ApprovalInv
  <1>1. \A w \in Workers : SyncedGrants(w)[g].expires = grants[g].expires
    BY <1>0 DEF SyncedGrants, ApprovalTypeOK, GrantRows
  <1>2. CASE UNCHANGED grants
    BY <1>2
  <1>3. ASSUME NEW w \in Workers, NEW h \in GrantIds, NEW t \in Nat, NEW auth \in Asked,
               CreateGrant(w, h, auth, t)
        PROVE  grants'[g].expires = grants[g].expires
    BY <1>0, <1>3 DEF CreateGrant, ApprovalTypeOK
  <1>4. ASSUME NEW w \in Workers, SyncCommit(w) \/ Deny(w)
        PROVE  grants'[g].expires = grants[g].expires
    BY <1>1, <1>4 DEF SyncCommit, Deny
  <1>5. ASSUME NEW w \in Workers, Revoke(w)
        PROVE  grants'[g].expires = grants[g].expires
    <2>1. grants'[g].expires = SyncedGrants(w)[g].expires
      BY <1>0, <1>5, SyncedTypes DEF Revoke, GrantRows
    <2>2. QED
      BY <1>1, <2>1
  <1>6. ASSUME NEW w \in Workers, NEW h \in GrantIds, NEW t \in Nat, Approve(w, h, t)
        PROVE  grants'[g].expires = grants[g].expires
    <2>1. grants'[g] = SyncedGrants(w)[g]
      BY <1>0, <1>6, SyncedTypes DEF Approve
    <2>2. QED
      BY <1>1, <2>1
  <1>7. QED
    BY <1>2, <1>3, <1>4, <1>5, <1>6, RowCases DEF CreateRequest

(* The clock never runs backwards. *)
LEMMA ClockStep ==
    ASSUME clock \in Nat, [ApprovalNext]_approvalVars
    PROVE  clock' \in Nat /\ clock <= clock'
  <1>1. CASE Tick
    BY <1>1 DEF Tick
  <1>2. ASSUME NEW w \in Workers, NEW r, NEW from, NEW to, NEW event,
               DecideRequest(w, r, from, to, event)
        PROVE  clock' = clock
    BY <1>2 DEF DecideRequest
  <1>3. \A w \in Workers : Deny(w) \/ Revoke(w) => clock' = clock
    BY <1>2 DEF Deny, Revoke
  <1>4. \A w \in Workers, g \in GrantIds : \A t : Approve(w, g, t) => clock' = clock
    BY <1>2 DEF Approve
  <1>5. \A w \in Workers, g \in GrantIds, auth \in Asked : \A t :
            CreateGrant(w, g, auth, t) => clock' = clock
    BY DEF CreateGrant
  <1>6. \A r \in RequestIds, kind \in RequestKinds, auth \in Asked, ttl \in Ttls :
            CreateRequest(r, kind, auth, ttl) => clock' = clock
    BY DEF CreateRequest
  <1>7. ASSUME NEW w \in Workers
        PROVE  /\ \A op, target : Call(w, op, target) => clock' = clock
               /\ SyncSelect(w) \/ Abort(w) \/ SyncCommit(w) => clock' = clock
               /\ \A g \in GrantIds : SyncGet(w, g) => clock' = clock
    BY DEF Call, SyncSelect, SyncGet, Abort, SyncCommit
  <1>8. QED
    BY <1>1, <1>3, <1>4, <1>5, <1>6, <1>7, StepCases DEF approvalVars

(* What a handler holds stays true while others run. *)
LEMMA DueStep ==
    ASSUME ApprovalInv, ExpiryInv, [ApprovalNext]_approvalVars, NEW w \in Workers
    PROVE  /\ txn'[w].now <= clock'
           /\ \A g \in txn'[w].due : grants'[g].expires <= txn'[w].now
  <1>0. ApprovalTypeOK /\ ReadsStayTrue
    BY DEF ApprovalInv
  <1>1. clock \in Nat /\ txn[w].now \in Nat /\ txn[w].due \subseteq GrantIds
    BY <1>0 DEF ApprovalTypeOK, Txns
  <1>2. \A g \in txn[w].due : grants'[g].expires = grants[g].expires
    BY <1>0, <1>1, ExpiresPersist DEF ReadsStayTrue
  <1>3. clock' \in Nat /\ clock <= clock'
    BY <1>1, ClockStep
  <1>4. CASE txn'[w] = txn[w]
    BY <1>1, <1>2, <1>3, <1>4 DEF ExpiryInv
  <1>5. CASE txn'[w] = Idle
    BY <1>3, <1>5 DEF Idle
  <1>6. ASSUME NEW v \in Workers, Finish(v)
        PROVE  txn'[w] \in {txn[w], Idle}
    BY <1>0, <1>6 DEF Finish, ApprovalTypeOK
  <1>7. ASSUME NEW v \in Workers, NEW op, NEW target, Call(v, op, target), txn'[w] # txn[w]
        PROVE  txn'[w].now <= clock' /\ txn'[w].due = {}
    BY <1>0, <1>1, <1>7 DEF Call, Idle, ApprovalTypeOK
  <1>8. ASSUME NEW v \in Workers, SyncSelect(v), txn'[w] # txn[w]
        PROVE  /\ txn'[w].now <= clock'
               /\ \A g \in txn'[w].due : grants'[g].expires <= txn'[w].now
    <2>1. /\ txn'[w].now = txn[w].now /\ txn'[w].due = DueGrants(txn[w].now)
          /\ clock' = clock /\ grants' = grants
      BY <1>0, <1>8 DEF SyncSelect, ApprovalTypeOK, Txns
    <2>2. QED
      BY <2>1 DEF ExpiryInv, DueGrants
  <1>9. ASSUME NEW v \in Workers, NEW g \in GrantIds, SyncGet(v, g)
        PROVE  /\ txn'[w].now = txn[w].now /\ txn'[w].due = txn[w].due
               /\ clock' = clock /\ grants' = grants
    BY <1>0, <1>9 DEF SyncGet, ApprovalTypeOK, Txns
  <1>10. QED
    <2>1. CASE \E v \in Workers, g \in GrantIds : SyncGet(v, g)
      BY <1>1, <1>2, <1>9, <2>1 DEF ExpiryInv
    <2>2. QED
      BY <1>4, <1>5, <1>6, <1>7, <1>8, <2>1, TxnCases

(* The grants and the requests a synchronisation expires were due. *)
LEMMA SyncNotEarly ==
    ASSUME ApprovalInv, ExpiryInv, NEW w \in Workers, NEW g \in GrantIds,
           \/ SyncedGrants(w)[g].status = "expired"
           \/ /\ grants[g].request # Nothing
              /\ SyncedRequests(w)[grants[g].request].status = "expired"
    PROVE  grants[g].expires <= clock
  <1>0. /\ ApprovalTypeOK /\ GrantFollowsRequest
        /\ clock \in Nat /\ txn[w].now \in Nat /\ txn[w].due \subseteq GrantIds
        /\ grants[g].expires \in Nat
    BY DEF ApprovalInv, ApprovalTypeOK, Txns, GrantRows
  <1>1. CASE g \in txn[w].due
    BY <1>0, <1>1 DEF ExpiryInv
  <1>2. CASE SyncedGrants(w)[g].status = "expired" /\ g \notin txn[w].due
    BY <1>2, <1>0, SyncedRows DEF ExpiryInv, ExpiryNotEarly
  <1>3. CASE /\ grants[g].request # Nothing /\ g \notin txn[w].due
             /\ SyncedRequests(w)[grants[g].request].status = "expired"
    <2> DEFINE r == grants[g].request
    <2>1. r \in RequestIds
      BY <1>0, <1>3 DEF ApprovalTypeOK, GrantRows
    <2>2. r \notin Expiring(w)
      <3> SUFFICES ASSUME r \in Expiring(w) PROVE FALSE
        OBVIOUS
      <3>1. PICK d \in txn[w].due : grants[d].request = r
        BY DEF Expiring
      <3>2. d = g
        BY <1>0, <1>3, <3>1 DEF GrantFollowsRequest, Consistent
      <3>3. QED
        BY <1>3, <3>1, <3>2
    <2>3. requests[r].status = "expired"
      BY <1>3, <2>1, <2>2 DEF SyncedRequests
    <2>4. QED
      BY <1>3, <2>3 DEF ExpiryInv, ExpiryNotEarly, Linked
  <1>4. QED
    BY <1>1, <1>2, <1>3

LEMMA ExpiryStep ==
    ApprovalInv /\ ApprovalInv' /\ ExpiryInv /\ [ApprovalNext]_approvalVars => ExpiryInv'
  <1> SUFFICES ASSUME ApprovalInv, ApprovalInv', ExpiryInv, [ApprovalNext]_approvalVars
               PROVE  ExpiryNotEarly'
    BY DueStep DEF ExpiryInv
  <1>0. /\ ApprovalTypeOK /\ ApprovalTypeOK' /\ GrantFollowsRequest /\ GrantFollowsRequest'
        /\ clock \in Nat /\ clock' \in Nat /\ clock <= clock'
    BY ClockStep DEF ApprovalInv, ApprovalTypeOK
  <1>1. \A g \in GrantIds :
            /\ grants[g].request # Nothing => grants[g].request \in RequestIds
            /\ grants[g].expires \in Nat
            /\ grants[g].status = "absent" => grants[g].request = Nothing
    BY <1>0 DEF ApprovalTypeOK, GrantRows, GrantFollowsRequest, Consistent
  <1> DEFINE Early(g) == /\ \/ grants'[g].status = "expired"
                            \/ /\ grants'[g].request # Nothing
                               /\ requests'[grants'[g].request].status = "expired"
                         /\ ~(grants'[g].expires <= clock')
  <1> SUFFICES ASSUME NEW g \in GrantIds, Early(g)
               PROVE  FALSE
    BY DEF ExpiryNotEarly, Linked
  <1>2. CASE UNCHANGED <<grants, requests>>
    BY <1>0, <1>1, <1>2 DEF ExpiryInv, ExpiryNotEarly, Linked
  <1>3. ASSUME NEW r \in RequestIds, NEW kind \in RequestKinds, NEW auth \in Asked,
               NEW ttl \in Ttls, CreateRequest(r, kind, auth, ttl)
        PROVE  FALSE
    <2>1. /\ \A s \in RequestIds : s # r => requests'[s] = requests[s]
          /\ requests'[r].status = "pending" /\ grants' = grants
      BY <1>0, <1>3 DEF CreateRequest, ApprovalTypeOK
    <2>2. QED
      BY <1>0, <1>1, <2>1 DEF ExpiryInv, ExpiryNotEarly, Linked
  <1>4. ASSUME NEW w \in Workers, NEW h \in GrantIds, NEW t \in Nat, NEW auth \in Asked,
               CreateGrant(w, h, auth, t)
        PROVE  FALSE
    <2>1. /\ g # h => grants'[g] = grants[g]
          /\ grants'[h].status = "approved" /\ grants'[h].request = Nothing
          /\ requests' = requests
      BY <1>0, <1>4 DEF CreateGrant, ApprovalTypeOK
    <2>2. QED
      BY <1>0, <1>1, <2>1 DEF ExpiryInv, ExpiryNotEarly, Linked
  <1>5. ASSUME NEW w \in Workers, grants'[g].request = grants[g].request,
               grants'[g].expires = grants[g].expires,
               \/ SyncedGrants(w)[g].status = "expired"
               \/ /\ grants[g].request # Nothing
                  /\ SyncedRequests(w)[grants[g].request].status = "expired"
        PROVE  FALSE
    BY <1>0, <1>1, <1>5, SyncNotEarly
  <1>6. ASSUME NEW w \in Workers
        PROVE  /\ SyncedGrants(w)[g].request = grants[g].request
               /\ SyncedGrants(w)[g].expires = grants[g].expires
    BY <1>0 DEF SyncedGrants, ApprovalTypeOK, GrantRows
  <1>7. ASSUME NEW w \in Workers, SyncCommit(w)
        PROVE  FALSE
    BY <1>5, <1>6, <1>7 DEF SyncCommit
  <1>8. ASSUME NEW w \in Workers, Deny(w)
        PROVE  FALSE
    <2>1. \A s \in RequestIds : requests'[s].status \in {SyncedRequests(w)[s].status, "denied"}
      BY <1>0, <1>8, SyncedTypes DEF Deny, DecideRequest, ApprovalTypeOK, RequestRows
    <2>2. grants'[g] = SyncedGrants(w)[g]
      BY <1>8 DEF Deny
    <2>3. QED
      BY <1>1, <1>5, <1>6, <2>1, <2>2
  <1>9. ASSUME NEW w \in Workers, Revoke(w)
        PROVE  FALSE
    <2>1. \A s \in RequestIds : requests'[s].status \in {SyncedRequests(w)[s].status, "revoked"}
      BY <1>0, <1>9, SyncedTypes DEF Revoke, DecideRequest, ApprovalTypeOK, RequestRows
    <2>2. /\ grants'[g].request = SyncedGrants(w)[g].request
          /\ grants'[g].expires = SyncedGrants(w)[g].expires
          /\ grants'[g].status \in {SyncedGrants(w)[g].status, "revoked"}
      BY <1>0, <1>9, SyncedTypes DEF Revoke, GrantRows
    <2>3. QED
      BY <1>1, <1>5, <1>6, <2>1, <2>2
  <1>10. ASSUME NEW w \in Workers, NEW h \in GrantIds, NEW t \in Nat, Approve(w, h, t)
         PROVE  FALSE
    <2> DEFINE r == txn[w].target
    <2>1. /\ \A s \in RequestIds : s # r => requests'[s] = SyncedRequests(w)[s]
          /\ r \in RequestIds => requests'[r].status = "approved"
      BY <1>0, <1>10, SyncedTypes DEF Approve, DecideRequest, ApprovalTypeOK, RequestRows
    <2>2. /\ g # h => grants'[g] = SyncedGrants(w)[g]
          /\ grants'[h].status = "approved" /\ grants'[h].request = r
      BY <1>0, <1>10, SyncedTypes DEF Approve
    <2>3. grants'[g].request \in RequestIds \cup {Nothing}
      BY <1>0 DEF ApprovalTypeOK, GrantRows
    <2>4. QED
      BY <1>1, <1>5, <1>6, <2>1, <2>2, <2>3
  <1>11. QED
    BY <1>2, <1>3, <1>4, <1>7, <1>8, <1>9, <1>10, RowCases

(* No grant, and no request with a grant, is marked expired before the     *)
(* grant's expiry time, although every handler marks with the time it read *)
(* when it started.                                                        *)
THEOREM ExpiryNotEarlyAlways == ApprovalSpec => []ExpiryNotEarly
  <1>1. ApprovalInit => ExpiryInv
    BY DEF ApprovalInit, ExpiryInv, ExpiryNotEarly, Linked, NoGrantRow, Idle
  <1>2. ExpiryInv => ExpiryNotEarly
    BY DEF ExpiryInv
  <1>3. QED
    BY InvHolds, ExpiryStep, <1>1, <1>2, PTL DEF ApprovalSpec
-----------------------------------------------------------------------------
(* The authority a grant carries *)

(* A grant carries exactly the authority its request asked for, and no     *)
(* authority crosses clients.                                              *)
GrantCarriesRequest ==
    /\ \A g \in GrantIds : grants[g].status # "absent" =>
           /\ SingleClient(grants[g].auth)
           /\ Linked(g) => requests[grants[g].request].auth = grants[g].auth
    /\ \A r \in RequestIds : requests[r].status # "absent" => SingleClient(requests[r].auth)

(* No step changes what an existing grant or request is about. *)
AuthorityPersists ==
    /\ \A g \in GrantIds : grants[g].status # "absent" => grants'[g].auth = grants[g].auth
    /\ \A r \in RequestIds : requests[r].status # "absent" =>
           requests'[r].status # "absent" /\ requests'[r].auth = requests[r].auth

LEMMA SyncedAuthorities ==
    ASSUME ApprovalTypeOK, NEW w \in Workers
    PROVE  /\ \A g \in GrantIds : SyncedGrants(w)[g].auth = grants[g].auth
           /\ \A r \in RequestIds : SyncedRequests(w)[r].auth = requests[r].auth
  BY DEF SyncedGrants, SyncedRequests, ApprovalTypeOK, GrantRows, RequestRows

(* A decision changes no authority. *)
LEMMA DecisionAuthority ==
    ASSUME ApprovalTypeOK, NEW w \in Workers, NEW r \in RequestIds, NEW from, NEW to, NEW event,
           DecideRequest(w, r, from, to, event), to.auth = requests[r].auth, to.status = event,
           event # "absent"
    PROVE  \A s \in RequestIds :
               /\ requests'[s].auth = requests[s].auth
               /\ requests'[s].status = "absent" => requests[s].status = "absent"
  <1>1. \A s \in RequestIds : s # r => requests'[s] = SyncedRequests(w)[s]
    BY SyncedTypes DEF DecideRequest
  <1>2. requests'[r] = to
    BY SyncedTypes DEF DecideRequest
  <1>3. QED
    BY <1>1, <1>2, SyncedAuthorities, SyncedRows

LEMMA AuthorityStep == ApprovalInv /\ [ApprovalNext]_approvalVars => AuthorityPersists
  <1> SUFFICES ASSUME ApprovalInv, [ApprovalNext]_approvalVars
               PROVE  AuthorityPersists
    OBVIOUS
  <1>0. ApprovalTypeOK
    BY DEF ApprovalInv
  <1>1. CASE UNCHANGED <<grants, requests>>
    BY <1>1 DEF AuthorityPersists
  <1>2. ASSUME NEW r \in RequestIds, NEW kind \in RequestKinds, NEW auth \in Asked,
               NEW ttl \in Ttls, CreateRequest(r, kind, auth, ttl)
        PROVE  AuthorityPersists
    BY <1>0, <1>2 DEF CreateRequest, AuthorityPersists, ApprovalTypeOK
  <1>3. ASSUME NEW w \in Workers, NEW g \in GrantIds, NEW t \in Nat, NEW auth \in Asked,
               CreateGrant(w, g, auth, t)
        PROVE  AuthorityPersists
    BY <1>0, <1>3 DEF CreateGrant, AuthorityPersists, ApprovalTypeOK
  <1>4. ASSUME NEW w \in Workers, SyncCommit(w)
        PROVE  AuthorityPersists
    BY <1>0, <1>4, SyncedRows, SyncedAuthorities DEF SyncCommit, AuthorityPersists
  <1>5. ASSUME NEW w \in Workers, txn[w].op \in Decisions, SyncDone(w)
        PROVE  txn[w].target \in RequestIds
    BY <1>5 DEF SyncDone, ApprovalInv, ReadsStayTrue
  <1>6. ASSUME NEW w \in Workers, Deny(w)
        PROVE  AuthorityPersists
    <2> DEFINE to == [requests[txn[w].target] EXCEPT !.status = "denied"]
    <2>1. txn[w].target \in RequestIds
      BY <1>5, <1>6 DEF Deny, DecideRequest, Decisions
    <2>2. to.status = "denied" /\ to.auth = requests[txn[w].target].auth
      BY <1>0, <2>1 DEF ApprovalTypeOK, RequestRows
    <2>3. \A s \in RequestIds :
              /\ requests'[s].auth = requests[s].auth
              /\ requests'[s].status = "absent" => requests[s].status = "absent"
      BY <1>0, <1>6, <2>1, <2>2, DecisionAuthority DEF Deny
    <2>4. QED
      BY <1>0, <1>6, <2>3, SyncedAuthorities DEF Deny, AuthorityPersists
  <1>7. ASSUME NEW w \in Workers, Revoke(w)
        PROVE  AuthorityPersists
    <2> DEFINE to == [requests[txn[w].target] EXCEPT !.status = "revoked"]
    <2>1. txn[w].target \in RequestIds
      BY <1>5, <1>7 DEF Revoke, DecideRequest, Decisions
    <2>2. to.status = "revoked" /\ to.auth = requests[txn[w].target].auth
      BY <1>0, <2>1 DEF ApprovalTypeOK, RequestRows
    <2>3. \A s \in RequestIds :
              /\ requests'[s].auth = requests[s].auth
              /\ requests'[s].status = "absent" => requests[s].status = "absent"
      BY <1>0, <1>7, <2>1, <2>2, DecisionAuthority DEF Revoke
    <2>4. \A g \in GrantIds : grants'[g].auth = SyncedGrants(w)[g].auth
      BY <1>0, <1>7, SyncedTypes DEF Revoke, GrantRows
    <2>5. QED
      BY <1>0, <2>3, <2>4, SyncedAuthorities DEF AuthorityPersists
  <1>8. ASSUME NEW w \in Workers, NEW g \in GrantIds, NEW t \in Nat, Approve(w, g, t)
        PROVE  AuthorityPersists
    <2> DEFINE to == [requests[txn[w].target] EXCEPT !.status = "approved", !.grant = g]
    <2>1. txn[w].target \in RequestIds
      BY <1>5, <1>8 DEF Approve, DecideRequest, Decisions
    <2>2. to.status = "approved" /\ to.auth = requests[txn[w].target].auth
      BY <1>0, <2>1 DEF ApprovalTypeOK, RequestRows
    <2>3. \A s \in RequestIds :
              /\ requests'[s].auth = requests[s].auth
              /\ requests'[s].status = "absent" => requests[s].status = "absent"
      BY <1>0, <1>8, <2>1, <2>2, DecisionAuthority DEF Approve
    <2>4. \A h \in GrantIds : h # g => grants'[h].auth = SyncedGrants(w)[h].auth
      BY <1>0, <1>8, SyncedTypes DEF Approve
    <2>5. QED
      BY <1>0, <1>8, <2>3, <2>4, SyncedAuthorities DEF Approve, AuthorityPersists
  <1>9. QED
    BY <1>1, <1>2, <1>3, <1>4, <1>6, <1>7, <1>8, RowCases

(* A grant or a request that comes into being carries what it should. *)
LEMMA NewAuthority ==
    ASSUME ApprovalInv, GrantCarriesRequest, [ApprovalNext]_approvalVars
    PROVE  /\ \A g \in GrantIds : grants[g].status = "absent" /\ grants'[g].status # "absent" =>
                  /\ SingleClient(grants'[g].auth)
                  /\ grants'[g].request # Nothing =>
                         requests'[grants'[g].request].auth = grants'[g].auth
           /\ \A r \in RequestIds : requests[r].status = "absent" /\ requests'[r].status # "absent"
                  => SingleClient(requests'[r].auth)
  <1> DEFINE New == /\ \A g \in GrantIds :
                         grants[g].status = "absent" /\ grants'[g].status # "absent" =>
                             /\ SingleClient(grants'[g].auth)
                             /\ grants'[g].request # Nothing =>
                                    requests'[grants'[g].request].auth = grants'[g].auth
                    /\ \A r \in RequestIds :
                         requests[r].status = "absent" /\ requests'[r].status # "absent"
                             => SingleClient(requests'[r].auth)
  <1>0. ApprovalTypeOK /\ ReadsStayTrue
    BY DEF ApprovalInv
  <1>1. \A w \in Workers :
            /\ \A g \in GrantIds : grants[g].status = "absent" => SyncedGrants(w)[g] = grants[g]
            /\ \A r \in RequestIds : requests[r].status = "absent" =>
                   SyncedRequests(w)[r] = requests[r]
    <2> SUFFICES ASSUME NEW w \in Workers
                 PROVE  /\ \A g \in GrantIds : grants[g].status = "absent" =>
                               SyncedGrants(w)[g] = grants[g]
                        /\ \A r \in RequestIds : requests[r].status = "absent" =>
                               SyncedRequests(w)[r] = requests[r]
      OBVIOUS
    <2>1. \A r \in RequestIds : r \in Expiring(w) => requests[r].status # "absent"
      BY <1>0, ApprovalsAssumption
      DEF Expiring, ApprovalInv, GrantFollowsRequest, Consistent, ApprovalTypeOK, Txns
    <2>2. QED
      BY <1>0, <2>1 DEF SyncedGrants, SyncedRequests, ReadsStayTrue
  <1>2. CASE UNCHANGED <<grants, requests>>
    BY <1>2
  <1>3. ASSUME NEW r \in RequestIds, NEW kind \in RequestKinds, NEW auth \in Asked,
               NEW ttl \in Ttls, CreateRequest(r, kind, auth, ttl)
        PROVE  New
    BY <1>0, <1>3 DEF CreateRequest, ApprovalTypeOK
  <1>4. ASSUME NEW w \in Workers, NEW g \in GrantIds, NEW t \in Nat, NEW auth \in Asked,
               CreateGrant(w, g, auth, t)
        PROVE  New
    BY <1>0, <1>4 DEF CreateGrant, ApprovalTypeOK
  <1>5. ASSUME NEW w \in Workers, SyncCommit(w)
        PROVE  New
    BY <1>1, <1>5 DEF SyncCommit
  <1>6. ASSUME NEW w \in Workers, NEW r, NEW from, NEW to, NEW event, from # "absent",
               DecideRequest(w, r, from, to, event)
        PROVE  \A s \in RequestIds : requests[s].status = "absent" => requests'[s] = requests[s]
    BY <1>0, <1>1, <1>6, SyncedTypes DEF DecideRequest
  <1>7. ASSUME NEW w \in Workers, Deny(w)
        PROVE  New
    BY <1>1, <1>6, <1>7 DEF Deny
  <1>8. ASSUME NEW w \in Workers, Revoke(w)
        PROVE  New
    <2>1. \A g \in GrantIds : grants[g].status = "absent" => grants'[g] = grants[g]
      BY <1>0, <1>1, <1>8 DEF Revoke, ApprovalTypeOK
    <2>2. QED
      BY <1>6, <1>8, <2>1 DEF Revoke
  <1>9. ASSUME NEW w \in Workers, NEW g \in GrantIds, NEW t \in Nat, Approve(w, g, t)
        PROVE  New
    <2> DEFINE r == txn[w].target
    <2>1. r \in RequestIds /\ SyncedRequests(w)[r].status = "pending"
      BY <1>9 DEF Approve, DecideRequest, SyncDone, ApprovalInv, ReadsStayTrue, Decisions
    <2>2. requests[r].status = "pending"
      BY <1>0, <2>1, SyncedRows
    <2>3. SingleClient(requests[r].auth) /\ requests'[r].auth = requests[r].auth
      BY <2>1, <2>2, AuthorityStep DEF GrantCarriesRequest, AuthorityPersists
    <2>4. /\ \A h \in GrantIds : h # g => grants'[h] = SyncedGrants(w)[h]
          /\ grants'[g].auth = requests[r].auth /\ grants'[g].request = r
      BY <1>0, <1>9, SyncedTypes DEF Approve
    <2>5. QED
      BY <1>1, <1>6, <1>9, <2>3, <2>4 DEF Approve
  <1>10. QED
    BY <1>2, <1>3, <1>4, <1>5, <1>7, <1>8, <1>9, RowCases

LEMMA CarriesStep ==
    ApprovalInv /\ GrantCarriesRequest /\ [ApprovalNext]_approvalVars => GrantCarriesRequest'
  <1> SUFFICES ASSUME ApprovalInv, GrantCarriesRequest, [ApprovalNext]_approvalVars
               PROVE  GrantCarriesRequest'
    OBVIOUS
  <1>1. RowsPersist /\ AuthorityPersists
    BY PersistStep, AuthorityStep
  <1>2. \A g \in GrantIds : grants[g].request # Nothing =>
            /\ grants[g].request \in RequestIds
            /\ requests[grants[g].request].status # "absent"
    BY DEF ApprovalInv, ApprovalTypeOK, GrantRows, GrantFollowsRequest, Consistent
  <1>3. ASSUME NEW g \in GrantIds, grants[g].status # "absent"
        PROVE  /\ SingleClient(grants'[g].auth)
               /\ grants'[g].request # Nothing =>
                      requests'[grants'[g].request].auth = grants'[g].auth
    BY <1>1, <1>2, <1>3 DEF RowsPersist, AuthorityPersists, GrantCarriesRequest, Linked
  <1>4. ASSUME NEW r \in RequestIds, requests[r].status # "absent"
        PROVE  SingleClient(requests'[r].auth)
    BY <1>1, <1>4 DEF AuthorityPersists, GrantCarriesRequest
  <1>5. QED
    BY <1>3, <1>4, NewAuthority DEF GrantCarriesRequest, Linked

(* An approval gives exactly what was asked for, and neither a request nor *)
(* a grant, an emergency grant included, ever spans two clients.           *)
THEOREM GrantCarriesRequestAlways == ApprovalSpec => []GrantCarriesRequest
  <1>1. ApprovalInit => GrantCarriesRequest
    BY DEF ApprovalInit, GrantCarriesRequest, NoGrantRow, NoRequestRow
  <1>2. QED
    BY InvHolds, CarriesStep, <1>1, PTL DEF ApprovalSpec
-----------------------------------------------------------------------------
(* All of the invariants together, for the modules that build on this one. *)
BoundaryInv == ApprovalInv /\ HistoryInv /\ ExpiryInv /\ GrantCarriesRequest

LEMMA BoundaryStart == ApprovalInit => BoundaryInv
  <1>1. ApprovalInit => HistoryInv
    BY DEF ApprovalInit, HistoryInv, HistoryExplainsStatus, NoRequestRow, EventTypes
  <1>2. ApprovalInit => ExpiryInv
    BY DEF ApprovalInit, ExpiryInv, ExpiryNotEarly, Linked, NoGrantRow, Idle
  <1>3. ApprovalInit => GrantCarriesRequest
    BY DEF ApprovalInit, GrantCarriesRequest, NoGrantRow, NoRequestRow
  <1>4. QED
    BY InitInv, <1>1, <1>2, <1>3 DEF BoundaryInv

LEMMA BoundaryStep == BoundaryInv /\ [ApprovalNext]_approvalVars => BoundaryInv'
  BY InvStep, HistoryStep, ExpiryStep, CarriesStep DEF BoundaryInv

(* What every step leaves alone in the grants that exist. *)
LEMMA GrantsPersist ==
    ASSUME ApprovalInv, [ApprovalNext]_approvalVars, NEW g \in GrantIds,
           grants[g].status # "absent"
    PROVE  /\ grants'[g].status # "absent"
           /\ grants'[g].request = grants[g].request
           /\ grants'[g].auth = grants[g].auth
           /\ grants'[g].expires = grants[g].expires
           /\ grants[g].status \in {"expired", "revoked"} =>
                  grants'[g].status \in {"expired", "revoked"}
  <1>1. RowsPersist /\ AuthorityPersists /\ EndedStay
    BY PersistStep, AuthorityStep, EndedStep
  <1>2. grants'[g].expires = grants[g].expires
    BY ExpiresPersist
  <1>3. QED
    BY <1>1, <1>2 DEF RowsPersist, AuthorityPersists, EndedStay
=============================================================================
