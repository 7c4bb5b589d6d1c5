--------------------------- MODULE IdentityProofs ---------------------------
(***************************************************************************)
(* Theorems about device identity: enrollment tokens, credentials and the  *)
(* agents that hold them, for every set of hosts, processes, tokens and    *)
(* ids, and any number of failed cycles.                                   *)
(***************************************************************************)
EXTENDS AgentIdentity, TLAPS, FiniteSetTheorems

-----------------------------------------------------------------------------
(* The inductive invariant *)

(* A state file that was written names an installation and a credential. *)
StateSound(m) == m # NoState => m.install \in Installs /\ m.cred \in Creds

(* What a process has in hand for the call it makes. *)
ProcSound(p) ==
    LET m == proc[p].mem IN
    /\ proc[p].step \notin {"idle", "fresh"} => m.install \in Installs /\ m.cred \in Creds
    /\ proc[p].step = "exchange" => proc[p].token \in Tokens
    /\ proc[p].step \in {"check_current", "rotate", "check_candidate"} => m.candidate \in Creds

(* A request names what its handler needs. *)
WellFormed(q) ==
    /\ q.cred \in Creds
    /\ q.kind = "exchange" => q.token \in Tokens /\ q.install \in Installs /\ q.host \in Hosts
    /\ q.kind = "rotate" => q.new \in Creds

AgentsSound ==
    /\ \A h \in Hosts : StateSound(disk[h])
    /\ \A p \in Procs : ProcSound(p)
    /\ \A o \in orphans : WellFormed(o.request)

(* The tables of the control plane. *)
EndpointsSound ==
    /\ \A h \in Hosts : endpoints[h].mode = "device" <=> endpoints[h].install # Nothing
    /\ \A g, h \in Hosts : endpoints[g].install = endpoints[h].install
                           /\ endpoints[g].install # Nothing => g = h

CredsSound ==
    /\ \A c \in Creds : creds[c].status = "active" =>
           creds[c].host \in Hosts /\ endpoints[creds[c].host].mode = "device"
    /\ \A c, d \in Creds : creds[c].status = "active" /\ creds[d].status = "active"
                           /\ creds[c].host = creds[d].host => c = d

RedemptionsSound ==
    /\ IsFiniteSet(redemptions)
    /\ \A r \in redemptions : creds[r.cred].status # "absent"
    /\ \A r, s \in redemptions : r.cred = s.cred => r = s

IdentityInv ==
    /\ IdentityTypeOK
    /\ AgentsSound
    /\ EndpointsSound
    /\ CredsSound
    /\ RedemptionsSound
    /\ TokenUsesCounted
-----------------------------------------------------------------------------
(* What a step does to the control plane *)

(* The requests that may still be executed. *)
InFlight(q) ==
    \/ \E p \in Procs : proc[p].step \in {"exchange", "rotate"} /\ q = RequestOf(p)
    \/ \E o \in orphans : q = o.request

Enrolls(q) ==
    /\ InFlight(q) /\ q.kind = "exchange"
    /\ \E live \in BOOLEAN : Redeems(q, live)
    /\ Redeem(q)

Rotates(q) ==
    /\ InFlight(q) /\ q.kind = "rotate"
    /\ creds[q.cred].status = "active" /\ creds[q.new].status = "absent"
    /\ creds' = [creds EXCEPT
                   ![q.cred].status = "replaced", ![q.cred].by = q.new,
                   ![q.new] = [NoCred EXCEPT !.status = "active", !.host = creds[q.cred].host]]
    /\ UNCHANGED <<tokens, endpoints, redemptions>>

ServerStep ==
    \/ OperatorStep
    \/ \E t \in Tokens : CreateToken(t)
    \/ \E q : Enrolls(q) \/ Rotates(q)

LEMMA RequestSound ==
    ASSUME IdentityInv, NEW q, InFlight(q)
    PROVE  WellFormed(q) /\ q.host \in Hosts
  <1>1. ASSUME NEW p \in Procs, proc[p].step \in {"exchange", "rotate"}, q = RequestOf(p)
        PROVE  WellFormed(q) /\ q.host \in Hosts
    <2>1. HostOf[p] \in Hosts
      BY AgentAssumption
    <2>2. ProcSound(p)
      BY DEF IdentityInv, AgentsSound
    <2>3. QED
      BY <1>1, <2>1, <2>2 DEF RequestOf, WellFormed, ProcSound, MeSteps
  <1>2. ASSUME NEW o \in orphans, q = o.request
        PROVE  WellFormed(q) /\ q.host \in Hosts
    BY <1>2 DEF IdentityInv, AgentsSound, IdentityTypeOK, LostRequests
  <1>3. QED
    BY <1>1, <1>2 DEF InFlight

(* A handler that changes anything is a first exchange or a rotation. *)
LEMMA HandleCases ==
    ASSUME NEW q, NEW live \in BOOLEAN, NEW answer, Handle(q, live, answer), InFlight(q)
    PROVE  Enrolls(q) \/ Rotates(q) \/ UNCHANGED serverVars
  <1>1. CASE q.kind = "exchange" /\ Exchange(q, live, answer)
    BY <1>1 DEF Exchange, Enrolls
  <1>2. CASE q.kind = "me" /\ Me(q.cred, answer)
    BY <1>2 DEF Me
  <1>3. CASE q.kind = "rotate" /\ Rotate(q.cred, q.new, answer)
    BY <1>3 DEF Rotate, Rotates
  <1>4. QED
    BY <1>1, <1>2, <1>3 DEF Handle

LEMMA ServerCases ==
    ASSUME IdentityInv, [IdentityNext]_identityVars
    PROVE  ServerStep \/ UNCHANGED serverVars
  <1>1. ASSUME NEW p \in Procs, Serve(p)
        PROVE  ServerStep \/ UNCHANGED serverVars
    <2>1. PICK answer \in {"ok", "unauthorized", "conflict"} :
              Handle(RequestOf(p), proc[p].live, answer)
      BY <1>1 DEF Serve
    <2>2. proc[p].step \in CallSteps /\ proc[p].live \in BOOLEAN
      BY <1>1 DEF Serve, IdentityInv, IdentityTypeOK, ProcStates
    <2>3. CASE proc[p].step \in MeSteps
      <3>1. RequestOf(p).kind = "me"
        BY <2>3 DEF RequestOf
      <3>2. QED
        BY <2>1, <3>1 DEF Handle, Me
    <2>4. CASE proc[p].step \in {"exchange", "rotate"}
      <3>1. InFlight(RequestOf(p))
        BY <2>4 DEF InFlight
      <3>2. QED
        BY <2>1, <2>2, <3>1, HandleCases DEF ServerStep
    <2>5. QED
      BY <2>2, <2>3, <2>4 DEF CallSteps
  <1>2. ASSUME NEW o \in orphans, ServeOrphan(o)
        PROVE  ServerStep \/ UNCHANGED serverVars
    <2>1. InFlight(o.request) /\ o.live \in BOOLEAN
      BY DEF InFlight, IdentityInv, IdentityTypeOK
    <2>2. QED
      BY <1>2, <2>1, HandleCases DEF ServeOrphan, ServerStep
  <1>3. ASSUME NEW p \in Procs,
               \/ \E goal \in {"run", "rotate"} : Start(p, goal)
               \/ AgentStep(p)
               \/ GiveUp(p)
        PROVE  Serve(p) \/ UNCHANGED serverVars
    <2>1. (\E goal \in {"run", "rotate"} : Start(p, goal)) \/ GiveUp(p) => UNCHANGED serverVars
      BY DEF Start, GiveUp
    <2>2. Receive(p) \/ (\E i \in Installs, c \in Creds : Prepare(p, i, c)) => UNCHANGED serverVars
      BY DEF Receive, Prepare
    <2>3. AskExchange(p) \/ AskAfterConflict(p) \/ PromoteEnrollment(p) \/ Validated(p)
          => UNCHANGED serverVars
      BY DEF AskExchange, AskAfterConflict, PromoteEnrollment, Validated
    <2>4. ClearBootstrap(p) \/ EndSession(p) \/ (\E c \in Creds : NewCandidate(p, c))
          => UNCHANGED serverVars
      BY DEF ClearBootstrap, EndSession, NewCandidate
    <2>5. AskRotate(p) \/ AskCandidate(p) \/ PromoteRotation(p) \/ DiscardCandidate(p)
          \/ Refused(p) => UNCHANGED serverVars
      BY DEF AskRotate, AskCandidate, PromoteRotation, DiscardCandidate, Refused
    <2>6. QED
      BY <1>3, <2>1, <2>2, <2>3, <2>4, <2>5 DEF AgentStep
  <1>4. \A o \in orphans : ReceiveOrphan(o) => UNCHANGED serverVars
    BY DEF ReceiveOrphan
  <1>5. UNCHANGED identityVars => UNCHANGED serverVars
    BY DEF identityVars
  <1>6. QED
    BY <1>1, <1>2, <1>3, <1>4, <1>5 DEF IdentityNext, ServerStep
-----------------------------------------------------------------------------
(* The operators' steps *)

(* Revocation and expiry of a credential leave its host alone and make     *)
(* nothing active.                                                         *)
Weakened(c) ==
    /\ creds' \in [Creds -> CredRows]
    /\ \A d \in Creds \ {c} : creds'[d] = creds[d]
    /\ creds'[c].host = creds[c].host
    /\ creds'[c].status \in {creds[c].status, "revoked"}
    /\ UNCHANGED <<tokens, endpoints, redemptions>>

LEMMA CredentialWeakened ==
    ASSUME IdentityInv, NEW c \in Creds, RevokeCredential(c) \/ ExpireCredential(c)
    PROVE  Weakened(c)
  <1>0. creds \in [Creds -> CredRows] /\ creds[c] \in CredRows
    BY DEF IdentityInv, IdentityTypeOK, ServerTypeOK
  <1>1. CASE RevokeCredential(c)
    <2> DEFINE row == [creds[c] EXCEPT !.status = "revoked"]
    <2>1. row \in CredRows /\ row.host = creds[c].host /\ row.status = "revoked"
      BY <1>0 DEF CredRows
    <2>2. creds' = [creds EXCEPT ![c] = row] /\ UNCHANGED <<tokens, endpoints, redemptions>>
      BY <1>1 DEF RevokeCredential
    <2> HIDE DEF row
    <2>3. QED
      BY <1>0, <2>1, <2>2 DEF Weakened
  <1>2. CASE ExpireCredential(c)
    <2> DEFINE row == [creds[c] EXCEPT !.expired = TRUE]
    <2>1. row \in CredRows /\ row.host = creds[c].host /\ row.status = creds[c].status
      BY <1>0 DEF CredRows
    <2>2. creds' = [creds EXCEPT ![c] = row] /\ UNCHANGED <<tokens, endpoints, redemptions>>
      BY <1>2 DEF ExpireCredential
    <2> HIDE DEF row
    <2>3. QED
      BY <1>0, <2>1, <2>2 DEF Weakened
  <1>3. QED
    BY <1>1, <1>2

(* Approval and a legacy enrollment leave devices in their mode. *)
EndpointKept(h) ==
    /\ endpoints' \in [Hosts -> EndpointRows]
    /\ \A g \in Hosts : endpoints'[g].install = endpoints[g].install
                        /\ (endpoints'[g].mode = "device" <=> endpoints[g].mode = "device")
    /\ UNCHANGED <<tokens, creds, redemptions>>

LEMMA EndpointsKept ==
    ASSUME IdentityInv, NEW h \in Hosts, ApproveEndpoint(h) \/ LegacyEnroll(h)
    PROVE  EndpointKept(h)
  <1>0. endpoints \in [Hosts -> EndpointRows] /\ endpoints[h] \in EndpointRows
    BY DEF IdentityInv, IdentityTypeOK, ServerTypeOK
  <1>1. CASE ApproveEndpoint(h)
    <2> DEFINE row == [endpoints[h] EXCEPT !.status = "active"]
    <2>1. row \in EndpointRows /\ row.install = endpoints[h].install /\ row.mode = endpoints[h].mode
      BY <1>0 DEF EndpointRows
    <2>2. endpoints' = [endpoints EXCEPT ![h] = row] /\ UNCHANGED <<tokens, creds, redemptions>>
      BY <1>1 DEF ApproveEndpoint
    <2> HIDE DEF row
    <2>3. QED
      BY <1>0, <2>1, <2>2 DEF EndpointKept
  <1>2. CASE LegacyEnroll(h)
    <2> DEFINE row == [endpoints[h] EXCEPT !.mode = "legacy_shared"]
    <2>1. row \in EndpointRows /\ row.install = endpoints[h].install /\ row.mode = "legacy_shared"
      BY <1>0 DEF EndpointRows
    <2>2. /\ endpoints' = [endpoints EXCEPT ![h] = row] /\ endpoints[h].mode = "absent"
          /\ UNCHANGED <<tokens, creds, redemptions>>
      BY <1>2 DEF LegacyEnroll
    <2> HIDE DEF row
    <2>3. QED
      BY <1>0, <2>1, <2>2 DEF EndpointKept
  <1>3. QED
    BY <1>1, <1>2

(* Operators change a token's flags, not its count. *)
TokenKept ==
    /\ tokens' \in [Tokens -> TokenRows]
    /\ \A t \in Tokens : tokens'[t].uses = tokens[t].uses
    /\ UNCHANGED <<endpoints, creds, redemptions>>

LEMMA TokensKept ==
    ASSUME IdentityInv, NEW t \in Tokens, CreateToken(t) \/ RevokeToken(t) \/ ExpireToken(t)
    PROVE  TokenKept
  <1>0. tokens \in [Tokens -> TokenRows] /\ tokens[t] \in TokenRows
    BY DEF IdentityInv, IdentityTypeOK, ServerTypeOK
  <1>1. /\ [tokens[t] EXCEPT !.exists = TRUE] \in TokenRows
        /\ [tokens[t] EXCEPT !.exists = TRUE].uses = tokens[t].uses
        /\ [tokens[t] EXCEPT !.revoked = TRUE] \in TokenRows
        /\ [tokens[t] EXCEPT !.revoked = TRUE].uses = tokens[t].uses
        /\ [tokens[t] EXCEPT !.expired = TRUE] \in TokenRows
        /\ [tokens[t] EXCEPT !.expired = TRUE].uses = tokens[t].uses
    BY <1>0 DEF TokenRows
  <1>2. ASSUME NEW row \in TokenRows, row.uses = tokens[t].uses,
               tokens' = [tokens EXCEPT ![t] = row], UNCHANGED <<endpoints, creds, redemptions>>
        PROVE  TokenKept
    BY <1>0, <1>2 DEF TokenKept
  <1>3. CASE CreateToken(t)
    BY <1>1, <1>2, <1>3 DEF CreateToken
  <1>4. CASE RevokeToken(t)
    BY <1>1, <1>2, <1>4 DEF RevokeToken
  <1>5. CASE ExpireToken(t)
    BY <1>1, <1>2, <1>5 DEF ExpireToken
  <1>6. QED
    BY <1>3, <1>4, <1>5
-----------------------------------------------------------------------------
(* Enrollment and rotation *)

ServerInv == ServerTypeOK /\ EndpointsSound /\ CredsSound /\ RedemptionsSound /\ TokenUsesCounted

Redemption(q) ==
    [token |-> q.token, install |-> q.install, host |-> q.host, cred |-> q.cred]

(* What a first exchange finds and the rows that it writes. *)
EnrollWrites(q) ==
    /\ q.token \in Tokens /\ q.install \in Installs /\ q.host \in Hosts /\ q.cred \in Creds
    /\ endpoints[q.host].mode # "device" /\ creds[q.cred].status = "absent"
    /\ \A h \in Hosts : endpoints[h].install # q.install
    /\ tokens[q.token].uses < MaxUses[q.token]
    /\ Redemption(q) \notin redemptions /\ Redemption(q) \in Redemptions
    /\ redemptions' = redemptions \cup {Redemption(q)}
    /\ tokens' \in [Tokens -> TokenRows]
    /\ tokens'[q.token].uses = tokens[q.token].uses + 1
    /\ \A t \in Tokens \ {q.token} : tokens'[t] = tokens[t]
    /\ endpoints' \in [Hosts -> EndpointRows]
    /\ endpoints'[q.host].mode = "device" /\ endpoints'[q.host].install = q.install
    /\ \A h \in Hosts \ {q.host} : endpoints'[h] = endpoints[h]
    /\ creds' \in [Creds -> CredRows]
    /\ creds'[q.cred].status = "active" /\ creds'[q.cred].host = q.host
    /\ \A c \in Creds \ {q.cred} : creds'[c] = creds[c]

LEMMA EnrollRows ==
    ASSUME IdentityInv, NEW q, Enrolls(q)
    PROVE  EnrollWrites(q)
  <1> DEFINE r == Redemption(q)
  <1>0. /\ tokens \in [Tokens -> TokenRows] /\ endpoints \in [Hosts -> EndpointRows]
        /\ creds \in [Creds -> CredRows]
    BY DEF IdentityInv, IdentityTypeOK, ServerTypeOK
  <1>1. q.token \in Tokens /\ q.install \in Installs /\ q.host \in Hosts /\ q.cred \in Creds
    BY RequestSound DEF Enrolls, WellFormed
  <1>2. PICK live \in BOOLEAN : Redeems(q, live)
    BY DEF Enrolls
  <1>3. /\ endpoints[q.host].mode # "device" /\ creds[q.cred].status = "absent"
        /\ \A h \in Hosts : endpoints[h].install # q.install
        /\ tokens[q.token].uses < MaxUses[q.token]
    BY <1>2 DEF Redeems, Usable, InUse
  <1>4. r \notin redemptions
    BY <1>2 DEF Redeems, RedemptionOf, Redemption
  <1>5. r \in Redemptions /\ redemptions' = redemptions \cup {r}
    BY <1>1 DEF Enrolls, Redeem, Redemptions, Redemption
  <1>6. /\ tokens' \in [Tokens -> TokenRows]
        /\ tokens'[q.token].uses = tokens[q.token].uses + 1
        /\ \A t \in Tokens \ {q.token} : tokens'[t] = tokens[t]
    <2> DEFINE row == [tokens[q.token] EXCEPT !.uses = tokens[q.token].uses + 1]
    <2>1. row \in TokenRows /\ row.uses = tokens[q.token].uses + 1
      BY <1>0, <1>1 DEF TokenRows
    <2>2. tokens' = [tokens EXCEPT ![q.token] = row]
      BY DEF Enrolls, Redeem
    <2> HIDE DEF row
    <2>3. QED
      BY <1>0, <1>1, <2>1, <2>2
  <1>7. /\ endpoints' \in [Hosts -> EndpointRows]
        /\ endpoints'[q.host].mode = "device" /\ endpoints'[q.host].install = q.install
        /\ \A h \in Hosts \ {q.host} : endpoints'[h] = endpoints[h]
    <2> DEFINE row == [mode |-> "device", install |-> q.install,
                       status |-> IF Policy[q.token] = "approved" THEN "active" ELSE "pending"]
    <2>1. row \in EndpointRows /\ row.mode = "device" /\ row.install = q.install
      BY <1>1 DEF EndpointRows
    <2>2. endpoints' = [endpoints EXCEPT ![q.host] = row]
      BY DEF Enrolls, Redeem
    <2> HIDE DEF row
    <2>3. QED
      BY <1>0, <1>1, <2>1, <2>2
  <1>8. /\ creds' \in [Creds -> CredRows]
        /\ creds'[q.cred].status = "active" /\ creds'[q.cred].host = q.host
        /\ \A c \in Creds \ {q.cred} : creds'[c] = creds[c]
    <2> DEFINE row == [NoCred EXCEPT !.status = "active", !.host = q.host]
    <2>1. row \in CredRows /\ row.status = "active" /\ row.host = q.host
      BY <1>1 DEF CredRows, NoCred
    <2>2. creds' = [creds EXCEPT ![q.cred] = row]
      BY DEF Enrolls, Redeem
    <2> HIDE DEF row
    <2>3. QED
      BY <1>0, <1>1, <2>1, <2>2
  <1>9. QED
    BY <1>1, <1>3, <1>4, <1>5, <1>6, <1>7, <1>8 DEF EnrollWrites

LEMMA EnrollKeeps ==
    ASSUME IdentityInv, NEW q, Enrolls(q)
    PROVE  ServerInv'
  <1> DEFINE r == Redemption(q)
  <1>a. EnrollWrites(q)
    BY EnrollRows
  <1>0. EndpointsSound /\ CredsSound /\ RedemptionsSound /\ TokenUsesCounted
        /\ redemptions \subseteq Redemptions /\ Nothing \notin Installs
        /\ tokens \in [Tokens -> TokenRows] /\ endpoints \in [Hosts -> EndpointRows]
    BY IdentityAssumption DEF IdentityInv, IdentityTypeOK, ServerTypeOK
  <1>1. ServerTypeOK'
    BY <1>0, <1>a DEF ServerTypeOK, EnrollWrites
  <1>2. EndpointsSound'
    BY <1>0, <1>a DEF EndpointsSound, EnrollWrites
  <1>3. CredsSound'
    <2>1. ASSUME NEW c \in Creds, creds'[c].status = "active"
          PROVE  creds'[c].host \in Hosts /\ endpoints'[creds'[c].host].mode = "device"
      BY <1>0, <2>1, <1>a DEF CredsSound, EnrollWrites
    <2>2. ASSUME NEW c \in Creds, creds[c].status = "active"
          PROVE  creds[c].host # q.host
      BY <1>0, <2>2, <1>a DEF CredsSound, EnrollWrites
    <2>3. ASSUME NEW c \in Creds, NEW d \in Creds, creds'[c].status = "active",
                 creds'[d].status = "active", creds'[c].host = creds'[d].host
          PROVE  c = d
      BY <1>0, <2>2, <2>3, <1>a DEF CredsSound, EnrollWrites
    <2>4. QED
      BY <2>1, <2>3 DEF CredsSound
  <1>4. RedemptionsSound'
    <2>1. IsFiniteSet(redemptions')
      BY <1>0, <1>a, FS_AddElement DEF RedemptionsSound, EnrollWrites
    <2>2. r.cred = q.cred /\ \A s \in redemptions : s.cred \in Creds /\ s.cred # q.cred
      BY <1>0, <1>a DEF RedemptionsSound, Redemptions, EnrollWrites, Redemption
    <2>3. redemptions' = redemptions \cup {r} /\ creds'[q.cred].status = "active"
          /\ \A c \in Creds \ {q.cred} : creds'[c] = creds[c]
      BY <1>a DEF EnrollWrites
    <2>4. \A s \in redemptions' : creds'[s.cred].status # "absent"
      BY <1>0, <2>2, <2>3 DEF RedemptionsSound
    <2>5. \A s1, s2 \in redemptions' : s1.cred = s2.cred => s1 = s2
      BY <1>0, <2>2, <2>3 DEF RedemptionsSound
    <2>6. QED
      BY <2>1, <2>4, <2>5 DEF RedemptionsSound
  <1>5. TokenUsesCounted'
    <2> DEFINE Of(t, R) == {s \in R : s.token = t}
    <2>0. MaxUses \in [Tokens -> Nat \ {0}]
      BY IdentityAssumption
    <2>1. ASSUME NEW t \in Tokens, t # q.token
          PROVE  tokens'[t].uses = Cardinality(Of(t, redemptions')) /\ tokens'[t].uses <= MaxUses[t]
      <3>1. Of(t, redemptions') = Of(t, redemptions)
        BY <2>1, <1>a DEF EnrollWrites, Redemption
      <3>2. QED
        BY <1>0, <2>1, <3>1, <1>a DEF TokenUsesCounted, EnrollWrites
    <2>2. tokens'[q.token].uses = Cardinality(Of(q.token, redemptions'))
      <3>1. Of(q.token, redemptions') = Of(q.token, redemptions) \cup {r}
        BY <1>a DEF EnrollWrites, Redemption
      <3>2. r \notin Of(q.token, redemptions)
        BY <1>a DEF EnrollWrites
      <3>3. IsFiniteSet(Of(q.token, redemptions))
        BY <1>0, FS_Subset DEF RedemptionsSound
      <3>4. Cardinality(Of(q.token, redemptions')) = Cardinality(Of(q.token, redemptions)) + 1
        BY <3>1, <3>2, <3>3, FS_AddElement
      <3>5. tokens[q.token].uses = Cardinality(Of(q.token, redemptions))
        BY <1>0, <1>a DEF TokenUsesCounted, EnrollWrites
      <3>6. QED
        BY <3>4, <3>5, <1>a DEF EnrollWrites
    <2>3. tokens'[q.token].uses <= MaxUses[q.token]
      <3>1. tokens[q.token].uses \in Nat /\ MaxUses[q.token] \in Nat
        BY <1>0, <2>0, <1>a DEF TokenRows, EnrollWrites
      <3>2. QED
        BY <3>1, <1>a DEF EnrollWrites
    <2>4. QED
      BY <2>1, <2>2, <2>3 DEF TokenUsesCounted
  <1>6. QED
    BY <1>1, <1>2, <1>3, <1>4, <1>5 DEF ServerInv

(* The rows that a rotation writes. *)
LEMMA RotateRows ==
    ASSUME IdentityInv, NEW q, Rotates(q)
    PROVE  /\ q.cred \in Creds /\ q.new \in Creds /\ q.cred # q.new
           /\ creds[q.cred].status = "active" /\ creds[q.new].status = "absent"
           /\ creds[q.cred].host \in Hosts
           /\ creds' \in [Creds -> CredRows]
           /\ creds'[q.cred].status = "replaced" /\ creds'[q.cred].host = creds[q.cred].host
           /\ creds'[q.new].status = "active" /\ creds'[q.new].host = creds[q.cred].host
           /\ \A c \in Creds \ {q.cred, q.new} : creds'[c] = creds[c]
           /\ UNCHANGED <<tokens, endpoints, redemptions>>
  <1>0. creds \in [Creds -> CredRows]
    BY DEF IdentityInv, IdentityTypeOK, ServerTypeOK
  <1>1. /\ q.cred \in Creds /\ q.new \in Creds /\ q.cred # q.new
        /\ creds[q.cred].status = "active" /\ creds[q.new].status = "absent"
        /\ creds[q.cred].host \in Hosts
    BY RequestSound DEF Rotates, WellFormed, IdentityInv, CredsSound
  <1> DEFINE old == [creds[q.cred] EXCEPT !.status = "replaced", !.by = q.new]
             new == [NoCred EXCEPT !.status = "active", !.host = creds[q.cred].host]
  <1>2. old \in CredRows /\ old.status = "replaced" /\ old.host = creds[q.cred].host
    BY <1>0, <1>1 DEF CredRows
  <1>3. new \in CredRows /\ new.status = "active" /\ new.host = creds[q.cred].host
    BY <1>1 DEF CredRows, NoCred
  <1>4. creds' = [creds EXCEPT ![q.cred] = old, ![q.new] = new]
    BY <1>0, <1>1 DEF Rotates
  <1> HIDE DEF old, new
  <1>5. QED
    BY <1>0, <1>1, <1>2, <1>3, <1>4 DEF Rotates

LEMMA RotateKeeps ==
    ASSUME IdentityInv, NEW q, Rotates(q)
    PROVE  ServerInv'
  <1>0. EndpointsSound /\ CredsSound /\ RedemptionsSound /\ TokenUsesCounted /\ ServerTypeOK
    BY DEF IdentityInv, IdentityTypeOK
  <1>1. UNCHANGED <<tokens, endpoints, redemptions>>
    BY RotateRows
  <1>2. ServerTypeOK' /\ EndpointsSound' /\ TokenUsesCounted'
    BY <1>0, <1>1, RotateRows DEF ServerTypeOK, EndpointsSound, TokenUsesCounted
  <1>3. CredsSound'
    <2>1. ASSUME NEW c \in Creds, creds'[c].status = "active"
          PROVE  creds'[c].host \in Hosts /\ endpoints'[creds'[c].host].mode = "device"
      BY <1>0, <1>1, <2>1, RotateRows DEF CredsSound
    <2>2. ASSUME NEW c \in Creds \ {q.cred}, creds[c].status = "active"
          PROVE  creds[c].host # creds[q.cred].host
      BY <1>0, <2>2, RotateRows DEF CredsSound
    <2>3. ASSUME NEW c \in Creds, NEW d \in Creds, creds'[c].status = "active",
                 creds'[d].status = "active", creds'[c].host = creds'[d].host
          PROVE  c = d
      BY <1>0, <2>2, <2>3, RotateRows DEF CredsSound
    <2>4. QED
      BY <2>1, <2>3 DEF CredsSound
  <1>4. RedemptionsSound'
    <2>1. \A s \in redemptions : s.cred \in Creds
      BY <1>0 DEF ServerTypeOK, Redemptions
    <2>2. \A c \in Creds : creds[c].status # "absent" => creds'[c].status # "absent"
      BY RotateRows
    <2>3. QED
      BY <1>0, <1>1, <2>1, <2>2 DEF RedemptionsSound
  <1>5. QED
    BY <1>2, <1>3, <1>4 DEF ServerInv

LEMMA ServerKeeps ==
    ASSUME IdentityInv, [IdentityNext]_identityVars
    PROVE  ServerInv'
  <1>0. EndpointsSound /\ CredsSound /\ RedemptionsSound /\ TokenUsesCounted /\ ServerTypeOK
    BY DEF IdentityInv, IdentityTypeOK
  <1>1. CASE UNCHANGED serverVars
    BY <1>0, <1>1 DEF serverVars, ServerInv, ServerTypeOK, EndpointsSound, CredsSound,
                      RedemptionsSound, TokenUsesCounted
  <1>2. CASE TokenKept
    BY <1>0, <1>2 DEF TokenKept, ServerInv, ServerTypeOK, EndpointsSound, CredsSound,
                      RedemptionsSound, TokenUsesCounted
  <1>3. ASSUME NEW c \in Creds, Weakened(c)
        PROVE  ServerInv'
    <2>1. \A s \in redemptions : s.cred \in Creds
      BY <1>0 DEF ServerTypeOK, Redemptions
    <2>2. ServerTypeOK' /\ EndpointsSound' /\ TokenUsesCounted'
      BY <1>0, <1>3 DEF Weakened, ServerTypeOK, EndpointsSound, TokenUsesCounted
    <2>3. \A d \in Creds : /\ creds'[d].host = creds[d].host
                           /\ creds'[d].status = "active" => creds[d].status = "active"
                           /\ creds[d].status # "absent" => creds'[d].status # "absent"
      BY <1>3 DEF Weakened
    <2>4. CredsSound'
      BY <1>0, <1>3, <2>3 DEF Weakened, CredsSound
    <2>5. RedemptionsSound'
      BY <1>0, <1>3, <2>1, <2>3 DEF Weakened, RedemptionsSound
    <2>6. QED
      BY <2>2, <2>4, <2>5 DEF ServerInv
  <1>4. ASSUME NEW h \in Hosts, EndpointKept(h)
        PROVE  ServerInv'
    <2>1. ServerTypeOK' /\ RedemptionsSound' /\ TokenUsesCounted'
      BY <1>0, <1>4 DEF EndpointKept, ServerTypeOK, RedemptionsSound, TokenUsesCounted
    <2>2. \A g \in Hosts : /\ endpoints'[g].install = endpoints[g].install
                           /\ endpoints'[g].mode = "device" <=> endpoints[g].mode = "device"
      BY <1>4 DEF EndpointKept
    <2>3. EndpointsSound'
      BY <1>0, <2>2 DEF EndpointsSound
    <2>4. creds' = creds
      BY <1>4 DEF EndpointKept
    <2>5. CredsSound'
      BY <1>0, <2>2, <2>4 DEF CredsSound
    <2>6. QED
      BY <2>1, <2>3, <2>5 DEF ServerInv
  <1>5. CASE OperatorStep \/ \E t \in Tokens : CreateToken(t)
    BY <1>2, <1>3, <1>4, <1>5, TokensKept, CredentialWeakened, EndpointsKept DEF OperatorStep
  <1>6. QED
    BY <1>1, <1>5, ServerCases, EnrollKeeps, RotateKeeps DEF ServerStep
-----------------------------------------------------------------------------
(* What a step does to the agents *)

LostCalls == [request : LostRequests, phase : {"sent", "received"}, live : BOOLEAN]

ProcsKept == proc' \in [Procs -> ProcStates] /\ \A p \in Procs : ProcSound(p)'
DisksKept == disk' \in [Hosts -> States] /\ \A h \in Hosts : StateSound(disk[h])'
OrphansKept == orphans' \subseteq LostCalls /\ \A o \in orphans' : WellFormed(o.request)
RestKept ==
    /\ config' \in [Hosts -> Tokens \cup {Nothing}]
    /\ generated' \subseteq Installs \cup Creds
    /\ faults' \in 0..MaxFaults
AgentsKept == ProcsKept /\ DisksKept /\ OrphansKept /\ RestKept

LEMMA AgentTypes ==
    ASSUME IdentityInv
    PROVE  /\ proc \in [Procs -> ProcStates] /\ \A p \in Procs : ProcSound(p)
           /\ disk \in [Hosts -> States] /\ \A h \in Hosts : StateSound(disk[h])
           /\ orphans \subseteq LostCalls /\ \A o \in orphans : WellFormed(o.request)
           /\ config \in [Hosts -> Tokens \cup {Nothing}]
           /\ generated \subseteq Installs \cup Creds
           /\ faults \in 0..MaxFaults
  BY DEF IdentityInv, IdentityTypeOK, AgentsSound, LostCalls

LEMMA IdleType ==
    /\ NoState \in States /\ IdleProc \in ProcStates /\ IdleProc.step = "idle"
  BY DEF NoState, States, IdleProc, ProcStates, Steps

(* A process that has just loaded what its host's file holds. *)
LEMMA StartedType ==
    ASSUME NEW goal \in {"run", "rotate"}, NEW t \in Tokens \cup {Nothing}, NEW m \in States,
           NEW step \in {"fresh", "check_current", "recover_enrollment", "validate"}
    PROVE  [IdleProc EXCEPT !.goal = goal, !.token = t, !.mem = m, !.step = step] \in ProcStates
  <1>1. step \in Steps
    BY DEF Steps, CallSteps, MeSteps
  <1>2. QED
    BY <1>1, IdleType DEF ProcStates

(* What is left alone is kept. *)
LEMMA KeptAlone ==
    ASSUME IdentityInv
    PROVE  /\ UNCHANGED proc => ProcsKept
           /\ UNCHANGED disk => DisksKept
           /\ UNCHANGED orphans => OrphansKept
           /\ UNCHANGED <<config, generated, faults>> => RestKept
  <1>1. UNCHANGED proc => ProcsKept
    BY AgentTypes DEF ProcsKept, ProcSound
  <1>2. UNCHANGED disk => DisksKept
    BY AgentTypes DEF DisksKept, StateSound, NoState
  <1>3. UNCHANGED orphans => OrphansKept
    BY AgentTypes DEF OrphansKept
  <1>4. UNCHANGED <<config, generated, faults>> => RestKept
    BY AgentTypes DEF RestKept
  <1>5. QED
    BY <1>1, <1>2, <1>3, <1>4

(* One process changes. *)
LEMMA ProcChange ==
    ASSUME IdentityInv, NEW p \in Procs, NEW s \in ProcStates, proc' = [proc EXCEPT ![p] = s],
           s.step \notin {"idle", "fresh"} => s.mem.install \in Installs /\ s.mem.cred \in Creds,
           s.step = "exchange" => s.token \in Tokens,
           s.step \in {"check_current", "rotate", "check_candidate"} => s.mem.candidate \in Creds
    PROVE  ProcsKept
  <1>0. proc \in [Procs -> ProcStates] /\ \A q \in Procs : ProcSound(q)
    BY AgentTypes
  <1>1. /\ proc' \in [Procs -> ProcStates] /\ proc'[p] = s
        /\ \A q \in Procs \ {p} : proc'[q] = proc[q]
    BY <1>0
  <1>2. \A q \in Procs \ {p} : ProcSound(q)'
    BY <1>0, <1>1 DEF ProcSound
  <1>3. ProcSound(p)'
    BY <1>1 DEF ProcSound
  <1>4. QED
    BY <1>1, <1>2, <1>3 DEF ProcsKept

LEMMA FailKeeps ==
    ASSUME IdentityInv, NEW p \in Procs, Fail(p)
    PROVE  ProcsKept
  BY ProcChange, IdleType DEF Fail

LEMMA GotoKeeps ==
    ASSUME IdentityInv, NEW p \in Procs, NEW s \in Steps, NEW m \in States, Goto(p, s, m),
           s \notin {"idle", "fresh"} => m.install \in Installs /\ m.cred \in Creds,
           s = "exchange" => proc[p].token \in Tokens,
           s \in {"check_current", "rotate", "check_candidate"} => m.candidate \in Creds
    PROVE  ProcsKept
  <1> DEFINE new == [proc[p] EXCEPT !.step = s, !.mem = m, !.phase = "sent",
                                    !.live = FALSE, !.answer = "none"]
  <1>0. proc[p] \in ProcStates
    BY AgentTypes
  <1>1. new \in ProcStates /\ new.step = s /\ new.mem = m /\ new.token = proc[p].token
    BY <1>0 DEF ProcStates
  <1>2. proc' = [proc EXCEPT ![p] = new]
    BY DEF Goto
  <1> HIDE DEF new
  <1>3. QED
    BY <1>1, <1>2, ProcChange

LEMMA SaveKeeps ==
    ASSUME IdentityInv, NEW p \in Procs, NEW m \in States, Save(p, m),
           m.install \in Installs, m.cred \in Creds
    PROVE  DisksKept
  <1>0. disk \in [Hosts -> States] /\ (\A h \in Hosts : StateSound(disk[h]))
        /\ HostOf[p] \in Hosts
    BY AgentTypes, AgentAssumption
  <1>1. disk' \in [Hosts -> States] /\ disk'[HostOf[p]] = m
        /\ \A h \in Hosts \ {HostOf[p]} : disk'[h] = disk[h]
    BY <1>0 DEF Save
  <1>2. \A h \in Hosts : StateSound(disk'[h])
    BY <1>0, <1>1 DEF StateSound
  <1>3. QED
    BY <1>1, <1>2 DEF DisksKept, StateSound, NoState

(* The state a process holds, in a step that waits for an answer. *)
LEMMA MemSound ==
    ASSUME IdentityInv, NEW p \in Procs, proc[p].step \notin {"idle", "fresh"}
    PROVE  /\ proc[p].mem \in States
           /\ proc[p].mem.install \in Installs /\ proc[p].mem.cred \in Creds
           /\ proc[p].step \in {"check_current", "rotate", "check_candidate"} =>
                  proc[p].mem.candidate \in Creds
  <1>1. ProcSound(p) /\ proc[p] \in ProcStates
    BY AgentTypes
  <1>2. QED
    BY <1>1 DEF ProcSound, ProcStates

(* The control plane receives and serves the call of a process. *)
LEMMA CallKept ==
    ASSUME IdentityInv, NEW p \in Procs, Receive(p) \/ Serve(p)
    PROVE  AgentsKept
  <1>0. proc[p] \in ProcStates /\ ProcSound(p)
    BY AgentTypes
  <1>1. ASSUME NEW phase \in {"received", "answered"}, NEW live \in BOOLEAN,
               NEW answer \in {"none", "ok", "unauthorized", "conflict"},
               proc' = [proc EXCEPT ![p] = [proc[p] EXCEPT !.phase = phase, !.live = live,
                                                           !.answer = answer]]
        PROVE  ProcsKept
    <2> DEFINE new == [proc[p] EXCEPT !.phase = phase, !.live = live, !.answer = answer]
    <2>1. /\ new \in ProcStates /\ new.step = proc[p].step /\ new.mem = proc[p].mem
          /\ new.token = proc[p].token
      BY <1>0 DEF ProcStates
    <2>2. proc' = [proc EXCEPT ![p] = new]
      BY <1>1
    <2> HIDE DEF new
    <2>3. QED
      BY <1>0, <2>1, <2>2, ProcChange DEF ProcSound
  <1>2. CASE Receive(p)
    <2>1. LiveNow(RequestOf(p)) \in BOOLEAN
      BY DEF LiveNow
    <2>2. ProcsKept
      <3>1. CASE Admits(RequestOf(p))
        BY <1>1, <1>2, <2>1, <3>1 DEF Receive
      <3>2. CASE ~Admits(RequestOf(p))
        BY <1>1, <1>2, <2>1, <3>2 DEF Receive
      <3>3. QED
        BY <3>1, <3>2
    <2>3. QED
      BY <1>2, <2>2, KeptAlone DEF Receive, AgentsKept
  <1>3. CASE Serve(p)
    <2>1. PICK answer \in {"ok", "unauthorized", "conflict"} :
              proc' = [proc EXCEPT ![p].phase = "answered", ![p].answer = answer]
      BY <1>3 DEF Serve
    <2>2. proc' = [proc EXCEPT ![p] = [proc[p] EXCEPT !.phase = "answered", !.live = proc[p].live,
                                                      !.answer = answer]]
      <3>1. [proc[p] EXCEPT !.phase = "answered", !.answer = answer] =
            [proc[p] EXCEPT !.phase = "answered", !.live = proc[p].live, !.answer = answer]
        BY <1>0 DEF ProcStates
      <3>2. proc' = [proc EXCEPT ![p] = [proc[p] EXCEPT !.phase = "answered", !.answer = answer]]
        BY <2>1
      <3>3. QED
        BY <3>1, <3>2
    <2>3. proc[p].live \in BOOLEAN
      BY <1>0 DEF ProcStates
    <2>4. ProcsKept
      BY <1>1, <2>2, <2>3
    <2>5. QED
      BY <1>3, <2>4, KeptAlone DEF Serve, AgentsKept
  <1>4. QED
    BY <1>2, <1>3

LEMMA StartKept ==
    ASSUME IdentityInv, NEW p \in Procs, NEW goal \in {"run", "rotate"}, Start(p, goal)
    PROVE  AgentsKept
  <1> DEFINE m == disk[HostOf[p]]
             step == IF m = NoState THEN "fresh" ELSE AfterLoad(m)
             new == [IdleProc EXCEPT !.goal = goal, !.token = config[HostOf[p]], !.mem = m,
                                     !.step = step]
  <1>0. HostOf[p] \in Hosts
    BY AgentAssumption
  <1>1. m \in States /\ StateSound(m) /\ config[HostOf[p]] \in Tokens \cup {Nothing}
    BY <1>0, AgentTypes
  <1>2. /\ step \in {"fresh", "check_current", "recover_enrollment", "validate"}
        /\ step # "fresh" => m # NoState
        /\ step = "check_current" => m.candidate # Nothing
    BY DEF AfterLoad
  <1>3. /\ new \in ProcStates /\ new.step = step /\ new.mem = m
    <2> HIDE DEF m, step
    <2>1. new \in ProcStates
      BY <1>1, <1>2, StartedType, Zenon
    <2>2. new.step = step /\ new.mem = m
      BY DEF IdleProc
    <2>3. QED
      BY <2>1, <2>2
  <1>4. proc' = [proc EXCEPT ![p] = new]
    BY DEF Start
  <1>5. /\ step # "fresh" => m.install \in Installs /\ m.cred \in Creds
        /\ step = "check_current" => m.candidate \in Creds
    BY <1>1, <1>2 DEF StateSound, States
  <1> HIDE DEF new, m, step
  <1>6. ProcsKept
    BY <1>2, <1>3, <1>4, <1>5, ProcChange
  <1>7. QED
    BY <1>6, KeptAlone DEF Start, AgentsKept

LEMMA PrepareKept ==
    ASSUME IdentityInv, NEW p \in Procs, NEW i \in Installs, NEW c \in Creds, Prepare(p, i, c)
    PROVE  AgentsKept
  <1> DEFINE m == [NoState EXCEPT !.install = i, !.cred = c]
  <1>1. m \in States /\ m.install = i /\ m.cred = c
    BY IdleType DEF States
  <1>2. Save(p, m) /\ Goto(p, "recover_enrollment", m) /\ generated' = generated \cup {i, c}
        /\ UNCHANGED <<serverVars, config, orphans, faults>>
    BY DEF Prepare
  <1> HIDE DEF m
  <1>3. ProcsKept /\ DisksKept
    BY <1>1, <1>2, GotoKeeps, SaveKeeps DEF Steps, CallSteps, MeSteps
  <1>4. QED
    BY <1>2, <1>3, KeptAlone, AgentTypes DEF AgentsKept, RestKept

(* The process goes on with the state it has. *)
LEMMA AskKept ==
    ASSUME IdentityInv, NEW p \in Procs,
           AskExchange(p) \/ AskAfterConflict(p) \/ Validated(p) \/ AskRotate(p) \/ AskCandidate(p)
    PROVE  AgentsKept
  <1> DEFINE m == proc[p].mem
  <1>1. proc[p].step \in {"recover_enrollment", "exchange", "validate", "check_current", "rotate"}
    BY DEF AskExchange, AskAfterConflict, Validated, AskRotate, AskCandidate, Answered
  <1>2. /\ m \in States /\ m.install \in Installs /\ m.cred \in Creds
        /\ proc[p].step \in {"check_current", "rotate"} => m.candidate \in Creds
        /\ proc[p].token \in Tokens \cup {Nothing}
    BY <1>1, MemSound, AgentTypes DEF ProcStates
  <1>3. \E s \in {"exchange", "after_conflict", "clear", "rotate", "check_candidate"} :
            /\ Goto(p, s, m)
            /\ s = "exchange" => proc[p].token \in Tokens
            /\ s \in {"rotate", "check_candidate"} => m.candidate \in Creds
    <2>1. AskExchange(p) => Goto(p, "exchange", m) /\ proc[p].token \in Tokens
      BY <1>2 DEF AskExchange
    <2>2. AskAfterConflict(p) => Goto(p, "after_conflict", m)
      BY DEF AskAfterConflict
    <2>3. Validated(p) => Goto(p, "clear", m)
      BY DEF Validated
    <2>4. AskRotate(p) => Goto(p, "rotate", m) /\ m.candidate \in Creds
      BY <1>2 DEF AskRotate, Answered
    <2>5. AskCandidate(p) => Goto(p, "check_candidate", m) /\ m.candidate \in Creds
      BY <1>2 DEF AskCandidate, Answered
    <2>6. QED
      BY <2>1, <2>2, <2>3, <2>4, <2>5
  <1>4. UNCHANGED <<disk, config, orphans, generated, faults>>
    BY DEF AskExchange, AskAfterConflict, Validated, AskRotate, AskCandidate
  <1>5. ProcsKept
    BY <1>2, <1>3, GotoKeeps DEF Steps, CallSteps, MeSteps
  <1>6. QED
    BY <1>4, <1>5, KeptAlone DEF AgentsKept

LEMMA PromoteEnrollmentKept ==
    ASSUME IdentityInv, NEW p \in Procs, PromoteEnrollment(p)
    PROVE  AgentsKept
  <1> DEFINE m == [proc[p].mem EXCEPT !.endpoint = creds[proc[p].mem.cred].host]
  <1>1. /\ proc[p].mem \in States /\ proc[p].mem.install \in Installs
        /\ proc[p].mem.cred \in Creds
    BY MemSound DEF PromoteEnrollment, Answered
  <1>2. creds[proc[p].mem.cred].host \in Hosts \cup {Nothing}
    BY <1>1 DEF IdentityInv, IdentityTypeOK, ServerTypeOK, CredRows
  <1>3. m \in States /\ m.install \in Installs /\ m.cred \in Creds
    BY <1>1, <1>2 DEF States
  <1>4. Save(p, m) /\ Goto(p, "clear", m) /\ UNCHANGED <<config, orphans, generated, faults>>
    BY DEF PromoteEnrollment
  <1> HIDE DEF m
  <1>5. ProcsKept /\ DisksKept
    BY <1>3, <1>4, GotoKeeps, SaveKeeps DEF Steps, CallSteps, MeSteps
  <1>6. QED
    BY <1>4, <1>5, KeptAlone DEF AgentsKept

LEMMA ClearKept ==
    ASSUME IdentityInv, NEW p \in Procs, ClearBootstrap(p)
    PROVE  AgentsKept
  <1>1. /\ proc[p].mem \in States /\ proc[p].mem.install \in Installs
        /\ proc[p].mem.cred \in Creds
    BY MemSound DEF ClearBootstrap
  <1>2. ProcsKept
    BY <1>1, GotoKeeps DEF ClearBootstrap, Steps, CallSteps, MeSteps
  <1>3. RestKept
    BY AgentTypes DEF ClearBootstrap, RestKept
  <1>4. QED
    BY <1>2, <1>3, KeptAlone DEF ClearBootstrap, AgentsKept

LEMMA NewCandidateKept ==
    ASSUME IdentityInv, NEW p \in Procs, NEW c \in Creds, NewCandidate(p, c)
    PROVE  AgentsKept
  <1> DEFINE m == [proc[p].mem EXCEPT !.candidate = c]
             new == [proc[p] EXCEPT !.step = "check_current", !.mem = m, !.rotating = TRUE,
                                    !.phase = "sent"]
  <1>0. proc[p] \in ProcStates
    BY AgentTypes
  <1>1. /\ proc[p].mem \in States /\ proc[p].mem.install \in Installs
        /\ proc[p].mem.cred \in Creds
    BY MemSound DEF NewCandidate
  <1>2. m \in States /\ m.install \in Installs /\ m.cred \in Creds /\ m.candidate = c
    BY <1>1 DEF States
  <1>3. /\ Save(p, m) /\ proc' = [proc EXCEPT ![p] = new] /\ generated' = generated \cup {c}
        /\ UNCHANGED <<config, orphans, faults>>
    BY DEF NewCandidate
  <1> HIDE DEF m
  <1>4. new \in ProcStates /\ new.step = "check_current" /\ new.mem = m
    BY <1>0, <1>2 DEF ProcStates, Steps, CallSteps, MeSteps
  <1> HIDE DEF new
  <1>5. ProcsKept /\ DisksKept
    BY <1>2, <1>3, <1>4, ProcChange, SaveKeeps
  <1>6. QED
    BY <1>3, <1>5, KeptAlone, AgentTypes DEF AgentsKept, RestKept

LEMMA PromoteRotationKept ==
    ASSUME IdentityInv, NEW p \in Procs, PromoteRotation(p)
    PROVE  AgentsKept
  <1> DEFINE m == [proc[p].mem EXCEPT !.cred = proc[p].mem.candidate, !.candidate = Nothing]
             step == IF proc[p].rotating THEN "confirm" ELSE "validate"
  <1>1. /\ proc[p].mem \in States /\ proc[p].mem.install \in Installs
        /\ proc[p].mem.candidate \in Creds
    BY MemSound DEF PromoteRotation, Answered
  <1>2. m \in States /\ m.install \in Installs /\ m.cred \in Creds
    BY <1>1 DEF States
  <1>3. Save(p, m) /\ Goto(p, step, m) /\ UNCHANGED <<config, orphans, generated, faults>>
    BY DEF PromoteRotation
  <1>4. step \in {"confirm", "validate"} /\ step \in Steps
    BY DEF Steps, CallSteps, MeSteps
  <1> HIDE DEF m, step
  <1>5. ProcsKept /\ DisksKept
    BY <1>2, <1>3, <1>4, GotoKeeps, SaveKeeps
  <1>6. QED
    BY <1>3, <1>5, KeptAlone DEF AgentsKept

LEMMA DiscardKept ==
    ASSUME IdentityInv, NEW p \in Procs, DiscardCandidate(p)
    PROVE  AgentsKept
  <1> DEFINE m == [proc[p].mem EXCEPT !.candidate = Nothing]
  <1>1. /\ proc[p].mem \in States /\ proc[p].mem.install \in Installs
        /\ proc[p].mem.cred \in Creds
    BY MemSound DEF DiscardCandidate, Answered
  <1>2. m \in States /\ m.install \in Installs /\ m.cred \in Creds
    BY <1>1 DEF States
  <1>3. Save(p, m) /\ Fail(p) /\ UNCHANGED <<config, orphans, generated, faults>>
    BY DEF DiscardCandidate
  <1> HIDE DEF m
  <1>4. ProcsKept /\ DisksKept
    BY <1>2, <1>3, FailKeeps, SaveKeeps
  <1>5. QED
    BY <1>3, <1>4, KeptAlone DEF AgentsKept

LEMMA EndKept ==
    ASSUME IdentityInv, NEW p \in Procs, EndSession(p) \/ Refused(p)
    PROVE  AgentsKept
  <1>1. Fail(p) /\ UNCHANGED <<disk, config, orphans, generated, faults>>
    BY DEF EndSession, Refused
  <1>2. QED
    BY <1>1, FailKeeps, KeptAlone DEF AgentsKept

(* A request that is given up is one that its handler can be given. *)
LEMMA GiveUpKept ==
    ASSUME IdentityInv, NEW p \in Procs, GiveUp(p)
    PROVE  AgentsKept
  <1>0. proc[p] \in ProcStates /\ HostOf[p] \in Hosts
    BY AgentTypes, AgentAssumption
  <1>1. ProcsKept
    BY FailKeeps DEF GiveUp, Fail
  <1>2. OrphansKept
    <2>1. CASE orphans' = orphans
      BY <2>1, KeptAlone
    <2>2. CASE /\ proc[p].step \in {"exchange", "rotate"} /\ proc[p].phase # "answered"
               /\ orphans' = orphans \cup {[request |-> RequestOf(p), phase |-> proc[p].phase,
                                            live |-> proc[p].live]}
      <3> DEFINE o == [request |-> RequestOf(p), phase |-> proc[p].phase, live |-> proc[p].live]
      <3>1. InFlight(RequestOf(p))
        BY <2>2 DEF InFlight
      <3>2. WellFormed(RequestOf(p))
        BY <3>1, RequestSound
      <3>3. RequestOf(p) \in LostRequests
        <4>1. /\ proc[p].mem \in States /\ proc[p].mem.install \in Installs
              /\ proc[p].mem.cred \in Creds
          BY <2>2, MemSound
        <4>2. proc[p].token \in Tokens \cup {Nothing}
              /\ proc[p].mem.candidate \in Creds \cup {Nothing}
          BY <1>0, <4>1 DEF ProcStates, States
        <4>3. QED
          BY <1>0, <2>2, <4>1, <4>2 DEF RequestOf, LostRequests, MeSteps
      <3>4. proc[p].phase \in {"sent", "received"} /\ proc[p].live \in BOOLEAN
        BY <1>0, <2>2 DEF ProcStates
      <3>5. o \in LostCalls /\ o.request = RequestOf(p)
        BY <3>3, <3>4 DEF LostCalls
      <3>6. orphans' = orphans \cup {o}
        BY <2>2
      <3> HIDE DEF o
      <3>7. QED
        BY <3>2, <3>5, <3>6, AgentTypes DEF OrphansKept
    <2>3. QED
      BY <2>1, <2>2 DEF GiveUp
  <1>3. RestKept
    <2>1. faults \in 0..MaxFaults /\ MaxFaults \in Nat
      BY AgentTypes, AgentAssumption
    <2>2. faults' \in 0..MaxFaults
      BY <2>1 DEF GiveUp
    <2>3. QED
      BY <2>2, AgentTypes DEF GiveUp, RestKept
  <1>4. QED
    BY <1>1, <1>2, <1>3, KeptAlone DEF GiveUp, AgentsKept

LEMMA ReceiveOrphanKept ==
    ASSUME IdentityInv, NEW o \in orphans, ReceiveOrphan(o)
    PROVE  AgentsKept
  <1> DEFINE n == [o EXCEPT !.phase = "received", !.live = LiveNow(o.request)]
  <1>1. o \in LostCalls /\ WellFormed(o.request)
    BY AgentTypes
  <1>2. LiveNow(o.request) \in BOOLEAN
    BY DEF LiveNow
  <1>3. n \in LostCalls /\ n.request = o.request
    BY <1>1, <1>2 DEF LostCalls
  <1>4. orphans' = orphans \cup {n}
    BY DEF ReceiveOrphan
  <1> HIDE DEF n
  <1>5. OrphansKept
    BY <1>1, <1>3, <1>4, AgentTypes DEF OrphansKept
  <1>6. QED
    BY <1>5, KeptAlone DEF ReceiveOrphan, AgentsKept

LEMMA AgentsStep ==
    ASSUME IdentityInv, [IdentityNext]_identityVars
    PROVE  AgentsKept
  <1>1. UNCHANGED agentVars => AgentsKept
    BY KeptAlone DEF agentVars, AgentsKept
  <1>2. (OperatorStep /\ UNCHANGED agentVars) \/ (\E t \in Tokens : CreateToken(t) /\ UNCHANGED agentVars)
        => AgentsKept
    BY <1>1
  <1>3. (\E o \in orphans : ReceiveOrphan(o) \/ ServeOrphan(o)) => AgentsKept
    BY <1>1, ReceiveOrphanKept DEF ServeOrphan
  <1>4. ASSUME NEW p \in Procs, AgentStep(p)
        PROVE  AgentsKept
    BY <1>4, CallKept, PrepareKept, AskKept, PromoteEnrollmentKept, ClearKept, EndKept,
       NewCandidateKept, PromoteRotationKept, DiscardKept DEF AgentStep
  <1>5. UNCHANGED identityVars => UNCHANGED agentVars
    BY DEF identityVars
  <1>6. QED
    BY <1>1, <1>2, <1>3, <1>4, <1>5, StartKept, GiveUpKept DEF IdentityNext
-----------------------------------------------------------------------------
(* Theorems about the control plane *)

LEMMA IdentityStart == IdentityInit => IdentityInv
  <1> SUFFICES ASSUME IdentityInit
               PROVE  IdentityInv
    OBVIOUS
  <1>1. ServerTypeOK
    <2>1. NoEndpoint \in EndpointRows
      BY DEF NoEndpoint, EndpointRows
    <2>2. NoCred \in CredRows /\ [NoCred EXCEPT !.status = "replaced"] \in CredRows
      BY DEF NoCred, CredRows
    <2>3. tokens \in [Tokens -> TokenRows]
      BY DEF IdentityInit, ServerInit, TokenRows
    <2>4. QED
      BY <2>1, <2>2, <2>3 DEF IdentityInit, ServerInit, ServerTypeOK
  <1>2. IdentityTypeOK
    BY <1>1, IdleType, AgentAssumption DEF IdentityInit, IdentityTypeOK
  <1>3. AgentsSound
    BY IdleType DEF IdentityInit, AgentsSound, StateSound, ProcSound
  <1>4. EndpointsSound
    BY DEF IdentityInit, ServerInit, EndpointsSound, NoEndpoint
  <1>5. \A c \in Creds : creds[c].status # "active"
    BY DEF IdentityInit, ServerInit, NoCred
  <1>6. RedemptionsSound
    BY FS_EmptySet DEF IdentityInit, ServerInit, RedemptionsSound
  <1>7. TokenUsesCounted
    <2> SUFFICES ASSUME NEW t \in Tokens
                 PROVE  /\ tokens[t].uses = Cardinality({r \in redemptions : r.token = t})
                        /\ tokens[t].uses <= MaxUses[t]
      BY DEF TokenUsesCounted
    <2>1. {r \in redemptions : r.token = t} = {} /\ tokens[t].uses = 0
      BY DEF IdentityInit, ServerInit
    <2>2. MaxUses[t] \in Nat
      BY IdentityAssumption
    <2>3. QED
      BY <2>1, <2>2, FS_EmptySet
  <1>8. QED
    BY <1>2, <1>3, <1>4, <1>5, <1>6, <1>7 DEF IdentityInv, CredsSound

LEMMA IdentityStep == IdentityInv /\ [IdentityNext]_identityVars => IdentityInv'
  <1> SUFFICES ASSUME IdentityInv, [IdentityNext]_identityVars
               PROVE  IdentityInv'
    OBVIOUS
  <1>1. ServerInv' /\ AgentsKept
    BY ServerKeeps, AgentsStep
  <1>2. IdentityTypeOK'
    BY <1>1 DEF ServerInv, AgentsKept, ProcsKept, DisksKept, OrphansKept, RestKept, LostCalls,
                IdentityTypeOK
  <1>3. AgentsSound'
    BY <1>1 DEF AgentsKept, ProcsKept, DisksKept, OrphansKept, AgentsSound, WellFormed
  <1>4. QED
    BY <1>1, <1>2, <1>3 DEF ServerInv, IdentityInv

LEMMA IdentityInvAlways == IdentitySpec => []IdentityInv
  BY IdentityStart, IdentityStep, PTL DEF IdentitySpec

(* Every column and every state file holds what it may hold, whatever is   *)
(* lost, late or repeated (DeviceIdentity's tables, the agent's state.go). *)
THEOREM IdentityTypeCorrect == IdentitySpec => []IdentityTypeOK
  <1>1. IdentityInv => IdentityTypeOK
    BY DEF IdentityInv
  <1>2. QED
    BY <1>1, IdentityInvAlways, PTL

(* An enrollment token enrolls as many devices as it counts and never more *)
(* than max_uses, however often an exchange is repeated                    *)
(* (exchange_enrollment_token).                                            *)
THEOREM TokenUsesCountedAlways == IdentitySpec => []TokenUsesCounted
  <1>1. IdentityInv => TokenUsesCounted
    BY DEF IdentityInv
  <1>2. QED
    BY <1>1, IdentityInvAlways, PTL

(* A device has one identity at a time: one active credential, one host    *)
(* for its installation, and a credential of its own for each redemption.  *)
(* The partial unique index on active credentials is never needed          *)
(* (exchange_enrollment_token, rotate_device_credential).                  *)
THEOREM OneIdentityPerDeviceAlways == IdentitySpec => []OneIdentityPerDevice
  <1>1. ASSUME IdentityInv
        PROVE  OneIdentityPerDevice
    <2>0. EndpointsSound /\ CredsSound /\ RedemptionsSound
      BY <1>1 DEF IdentityInv
    <2>1. ASSUME NEW h \in Hosts
          PROVE  Cardinality(ActiveCreds(h)) <= 1
      <3>1. CASE ActiveCreds(h) = {}
        BY <3>1, FS_EmptySet
      <3>2. CASE ActiveCreds(h) # {}
        <4>1. PICK c \in Creds : ActiveCreds(h) = {c}
          BY <2>0, <3>2 DEF ActiveCreds, CredsSound
        <4>2. Cardinality(ActiveCreds(h)) = 1
          BY <4>1, FS_Singleton
        <4>3. QED
          BY <4>2
      <3>3. QED
        BY <3>1, <3>2
    <2>2. QED
      BY <2>0, <2>1 DEF OneIdentityPerDevice, EndpointsSound, RedemptionsSound
  <1>2. QED
    BY <1>1, IdentityInvAlways, PTL

(* A device that was cut off stays cut off: nothing that is late, repeated *)
(* or new gives its endpoint an active credential again                    *)
(* (rotate_device_credential, exchange_enrollment_token,                   *)
(* revoke_device_credential).                                              *)
THEOREM CutOffStaysCutOffAlways == IdentitySpec => CutOffStaysCutOff
  <1> DEFINE Stays == \A h \in Hosts : endpoints[h].mode = "device" /\ ActiveCreds(h) = {} =>
                          endpoints'[h].mode = "device" /\ ActiveCreds(h)' = {}
  <1>1. ASSUME IdentityInv, [IdentityNext]_identityVars
        PROVE  Stays
    <2>1. CASE UNCHANGED serverVars
      BY <2>1 DEF serverVars, ActiveCreds
    <2>2. CASE TokenKept
      BY <2>2 DEF TokenKept, ActiveCreds
    <2>3. ASSUME NEW c \in Creds, Weakened(c)
          PROVE  Stays
      BY <2>3 DEF Weakened, ActiveCreds
    <2>4. ASSUME NEW g \in Hosts, EndpointKept(g)
          PROVE  Stays
      BY <2>4 DEF EndpointKept, ActiveCreds
    <2>5. ASSUME NEW q, Enrolls(q)
          PROVE  Stays
      <3>1. EnrollWrites(q)
        BY <1>1, <2>5, EnrollRows
      <3>2. QED
        BY <3>1 DEF EnrollWrites, ActiveCreds
    <2>6. ASSUME NEW q, Rotates(q)
          PROVE  Stays
      BY <1>1, <2>6, RotateRows DEF ActiveCreds
    <2>7. OperatorStep \/ (\E t \in Tokens : CreateToken(t)) => Stays
      BY <1>1, <2>2, <2>3, <2>4, TokensKept, CredentialWeakened, EndpointsKept DEF OperatorStep
    <2>8. QED
      BY <1>1, <2>1, <2>5, <2>6, <2>7, ServerCases DEF ServerStep
  <1>2. IdentityInv /\ [IdentityNext]_identityVars => [Stays]_serverVars
    BY <1>1
  <1>3. QED
    BY <1>2, IdentityInvAlways, PTL DEF IdentitySpec, CutOffStaysCutOff
-----------------------------------------------------------------------------
(* The device holds its credential.  The agent loads its state file, saves *)
(* it before it sends what is in it, and is alone on its host.             *)

(* One agent process at a time on a host: now a cycle of the service, now  *)
(* the operator's `-action rotate-credential`, as Start's goal says.       *)
OneProcessPerHost == \A p, q \in Procs : HostOf[p] = HostOf[q] => p = q

(* While a cycle runs the process has in memory what its host has on disk, *)
(* and a candidate only while it reconciles a rotation.                    *)
MemoryIsDisk ==
    \A p \in Procs :
        /\ proc[p].step # "idle" => proc[p].mem = disk[HostOf[p]]
        /\ proc[p].step = "fresh" => proc[p].mem = NoState
        /\ proc[p].step \notin {"idle", "check_current", "rotate", "check_candidate"} =>
               proc[p].mem.candidate = Nothing

(* The credentials that a host holds. *)
Held(h) == {disk[h].cred, disk[h].candidate} \ {Nothing}

(* Each was generated by its host and is held by no other. *)
HeldApart ==
    /\ \A h \in Hosts : Held(h) \subseteq generated
    /\ \A h \in Hosts : disk[h].candidate # Nothing => disk[h].cred # disk[h].candidate
    /\ \A g, h \in Hosts : Held(g) \cap Held(h) # {} => g = h

(* The requests that may still be executed, as a set. *)
Requests ==
    {RequestOf(p) : p \in {q \in Procs : proc[q].step \in {"exchange", "rotate"}}}
        \cup {o.request : o \in orphans}

(* A request can make a credential active only while its host's state      *)
(* file, m, holds it.                                                      *)
HeldBy(q, m) ==
    /\ m # NoState
    /\ q.kind = "exchange" => \/ creds[q.cred].status # "absent"
                              \/ endpoints[q.host].mode = "device"
                              \/ q.cred = m.cred
    /\ q.kind = "rotate" => \/ creds[q.new].status # "absent"
                            \/ q.cred = m.cred /\ q.new = m.candidate

RequestsHeld == \A q \in Requests : HeldBy(q, disk[q.host])

(* An answer about a candidate stays true: what it lets the agent forget   *)
(* is not active and does not become so.                                   *)
AnswerHeld(p) ==
    LET m == proc[p].mem IN
    /\ /\ proc[p].step \in {"rotate", "check_candidate"}
       /\ proc[p].phase = "answered" /\ proc[p].answer = "ok"
       => /\ creds[m.cred].status # "active" /\ creds[m.candidate].status # "absent"
          /\ endpoints[HostOf[p]].mode = "device"
    /\ proc[p].step = "rotate" /\ proc[p].phase = "answered" /\ proc[p].answer = "conflict"
       => creds[m.candidate].status \notin {"absent", "active"}

HoldInv ==
    /\ MemoryIsDisk
    /\ HeldApart
    /\ RequestsHeld
    /\ \A p \in Procs : AnswerHeld(p)
    /\ DeviceHoldsActiveCredential

LEMMA RequestsInFlight == \A q : q \in Requests <=> InFlight(q)
  BY DEF Requests, InFlight

(* An active credential that host h holds is the credential of h. *)
LEMMA HolderIsHost ==
    ASSUME IdentityInv, HoldInv, NEW h \in Hosts, NEW c \in Creds, c \in Held(h),
           creds[c].status = "active"
    PROVE  creds[c].host = h /\ endpoints[h].mode = "device"
  <1>1. creds[c].host \in Hosts /\ endpoints[creds[c].host].mode = "device"
    BY DEF IdentityInv, CredsSound
  <1>2. c \in ActiveCreds(creds[c].host) /\ c # Nothing
    BY IdentityAssumption DEF ActiveCreds
  <1>3. c \in Held(creds[c].host)
    BY <1>1, <1>2 DEF HoldInv, DeviceHoldsActiveCredential, Held
  <1>4. QED
    BY <1>1, <1>3 DEF HoldInv, HeldApart

(* One process, and the file of its host, change. *)
LEMMA OneAgent ==
    ASSUME IdentityInv, IdentityInv', HoldInv, OneProcessPerHost, UNCHANGED serverVars,
           NEW p \in Procs, NEW s \in ProcStates, NEW m \in States,
           proc' = [proc EXCEPT ![p] = s], disk' = [disk EXCEPT ![HostOf[p]] = m],
           \A o \in orphans' : o.request \in Requests, generated \subseteq generated',
           s.step # "idle" => s.mem = m,
           s.step = "fresh" => m = NoState,
           s.step \notin {"idle", "check_current", "rotate", "check_candidate"} =>
               m.candidate = Nothing,
           s.phase = "answered" => s.answer = "unauthorized",
           {m.cred, m.candidate} \ {Nothing} \subseteq
               Held(HostOf[p]) \cup (generated' \ generated),
           m.candidate # Nothing => m.cred # m.candidate,
           \A q \in Requests : q.host = HostOf[p] => HeldBy(q, m),
           ActiveCreds(HostOf[p]) \subseteq {m.cred, m.candidate}
    PROVE  HoldInv'
  <1> DEFINE h == HostOf[p]
  <1>0. /\ disk \in [Hosts -> States] /\ proc \in [Procs -> ProcStates] /\ h \in Hosts
        /\ HostOf \in [Procs -> Hosts]
    BY AgentTypes, AgentAssumption
  <1>1. /\ disk'[h] = m /\ \A g \in Hosts \ {h} : disk'[g] = disk[g]
        /\ proc'[p] = s /\ \A r \in Procs \ {p} : proc'[r] = proc[r]
    BY <1>0
  <1>2. \A r \in Procs \ {p} : HostOf[r] \in Hosts \ {h}
    BY <1>0 DEF OneProcessPerHost
  <1>3. UNCHANGED <<creds, endpoints>>
    BY DEF serverVars
  <1>4. MemoryIsDisk'
    <2>1. ASSUME NEW r \in Procs, r # p
          PROVE  /\ proc'[r].step # "idle" => proc'[r].mem = disk'[HostOf[r]]
                 /\ proc'[r].step = "fresh" => proc'[r].mem = NoState
                 /\ proc'[r].step \notin {"idle", "check_current", "rotate", "check_candidate"} =>
                        proc'[r].mem.candidate = Nothing
      BY <1>1, <1>2, <2>1 DEF HoldInv, MemoryIsDisk
    <2>2. QED
      BY <1>1, <2>1 DEF MemoryIsDisk
  <1>5. HeldApart'
    <2>1. /\ Held(h)' = {m.cred, m.candidate} \ {Nothing}
          /\ \A g \in Hosts \ {h} : Held(g)' = Held(g)
      BY <1>1 DEF Held
    <2>2. \A g \in Hosts : Held(g)' \subseteq generated'
      BY <2>1 DEF HoldInv, HeldApart
    <2>3. \A g \in Hosts \ {h} : Held(g)' \cap Held(h)' = {}
      BY <1>0, <2>1 DEF HoldInv, HeldApart
    <2>4. \A g, k \in Hosts : Held(g)' \cap Held(k)' # {} => g = k
      BY <1>0, <2>1, <2>3 DEF HoldInv, HeldApart
    <2>5. \A g \in Hosts : disk'[g].candidate # Nothing => disk'[g].cred # disk'[g].candidate
      BY <1>1 DEF HoldInv, HeldApart
    <2>6. QED
      BY <2>2, <2>4, <2>5 DEF HeldApart
  <1>6. RequestsHeld'
    <2>1. \A q, n : HeldBy(q, n)' <=> HeldBy(q, n)
      BY <1>3 DEF HeldBy
    <2>2. ASSUME NEW q \in Requests
          PROVE  HeldBy(q, disk'[q.host])
      <3>1. q.host \in Hosts
        BY RequestsInFlight, RequestSound
      <3>2. HeldBy(q, disk[q.host])
        BY DEF HoldInv, RequestsHeld
      <3>3. QED
        BY <1>1, <3>1, <3>2
    <2>3. ASSUME s.step \in {"exchange", "rotate"}
          PROVE  HeldBy(RequestOf(p)', disk'[RequestOf(p)'.host])
      <3>1. s.mem = m /\ m.cred \in Creds
        BY <1>1, <2>3 DEF IdentityInv, AgentsSound, ProcSound
      <3>2. RequestOf(p)'.host = h /\ RequestOf(p)'.cred = m.cred /\ RequestOf(p)'.new = m.candidate
        BY <1>1, <2>3, <3>1 DEF RequestOf
      <3>3. m # NoState
        BY <3>1, IdentityAssumption DEF NoState
      <3>4. QED
        BY <1>1, <3>2, <3>3 DEF HeldBy
    <2>4. ASSUME NEW q \in Requests'
          PROVE  q \in Requests \/ (s.step \in {"exchange", "rotate"} /\ q = RequestOf(p)')
      <3>1. CASE \E o \in orphans' : q = o.request
        BY <3>1
      <3>2. CASE \E r \in Procs : proc'[r].step \in {"exchange", "rotate"} /\ q = RequestOf(r)'
        <4>1. PICK r \in Procs : proc'[r].step \in {"exchange", "rotate"} /\ q = RequestOf(r)'
          BY <3>2
        <4>2. CASE r = p
          BY <1>1, <4>1, <4>2
        <4>3. CASE r # p
          BY <1>1, <4>1, <4>3 DEF RequestOf, Requests
        <4>4. QED
          BY <4>2, <4>3
      <3>3. QED
        BY <2>4, <3>1, <3>2 DEF Requests
    <2>5. QED
      BY <2>1, <2>2, <2>3, <2>4 DEF RequestsHeld
  <1>7. \A r \in Procs : AnswerHeld(r)'
    <2>1. AnswerHeld(p)'
      BY <1>1 DEF AnswerHeld
    <2>2. ASSUME NEW r \in Procs, r # p
          PROVE  AnswerHeld(r)'
      BY <1>1, <1>3, <2>2 DEF HoldInv, AnswerHeld
    <2>3. QED
      BY <2>1, <2>2
  <1>8. DeviceHoldsActiveCredential'
    <2>1. \A g : ActiveCreds(g)' = ActiveCreds(g)
      BY <1>3 DEF ActiveCreds
    <2>2. QED
      BY <1>1, <2>1 DEF HoldInv, DeviceHoldsActiveCredential
  <1>9. QED
    BY <1>4, <1>5, <1>6, <1>7, <1>8 DEF HoldInv

(* One process goes on; the files stay as they are. *)
LEMMA SameDisk ==
    ASSUME IdentityInv, IdentityInv', HoldInv, OneProcessPerHost, UNCHANGED serverVars,
           NEW p \in Procs, NEW s \in ProcStates,
           proc' = [proc EXCEPT ![p] = s], UNCHANGED <<disk, generated>>,
           \A o \in orphans' : o.request \in Requests,
           s.step # "idle" => s.mem = disk[HostOf[p]],
           s.step = "fresh" => s.mem = NoState,
           s.step \notin {"idle", "check_current", "rotate", "check_candidate"} =>
               s.mem.candidate = Nothing,
           s.phase = "answered" => s.answer = "unauthorized"
    PROVE  HoldInv'
  <1> DEFINE h == HostOf[p]
             m == disk[h]
  <1>0. disk \in [Hosts -> States] /\ h \in Hosts
    BY AgentTypes, AgentAssumption
  <1>1. m \in States /\ disk' = [disk EXCEPT ![h] = m]
    BY <1>0
  <1>2. {m.cred, m.candidate} \ {Nothing} \subseteq Held(h) \cup (generated' \ generated)
    BY DEF Held
  <1>3. m.candidate # Nothing => m.cred # m.candidate
    BY <1>0 DEF HoldInv, HeldApart
  <1>4. \A q \in Requests : q.host = h => HeldBy(q, m)
    BY DEF HoldInv, RequestsHeld
  <1>5. ActiveCreds(h) \subseteq {m.cred, m.candidate}
    BY <1>0 DEF HoldInv, DeviceHoldsActiveCredential
  <1>6. /\ s.step = "fresh" => m = NoState
        /\ s.step \notin {"idle", "check_current", "rotate", "check_candidate"} =>
               m.candidate = Nothing
    OBVIOUS
  <1> HIDE DEF m
  <1>7. QED
    BY <1>1, <1>2, <1>3, <1>4, <1>5, <1>6, OneAgent DEF m

LEMMA OrphansAreRequests ==
    UNCHANGED orphans => \A o \in orphans' : o.request \in Requests
  BY DEF Requests

(* The steps of a process that leave the files alone. *)
LEMMA FailHolds ==
    ASSUME IdentityInv, IdentityInv', HoldInv, OneProcessPerHost, UNCHANGED serverVars,
           NEW p \in Procs, Fail(p), UNCHANGED <<disk, generated>>,
           \A o \in orphans' : o.request \in Requests
    PROVE  HoldInv'
  <1>1. IdleProc \in ProcStates /\ IdleProc.step = "idle" /\ IdleProc.phase = "sent"
    BY IdleType DEF IdleProc
  <1>2. QED
    BY <1>1, SameDisk DEF Fail

LEMMA GotoHolds ==
    ASSUME IdentityInv, IdentityInv', HoldInv, OneProcessPerHost, UNCHANGED serverVars,
           NEW p \in Procs, NEW s \in Steps, Goto(p, s, proc[p].mem),
           UNCHANGED <<disk, generated, orphans>>,
           proc[p].step \notin {"idle", "fresh"}, s \notin {"idle", "fresh"},
           s \notin {"check_current", "rotate", "check_candidate"} =>
               proc[p].step \notin {"check_current", "rotate", "check_candidate"}
    PROVE  HoldInv'
  <1> DEFINE new == [proc[p] EXCEPT !.step = s, !.mem = proc[p].mem, !.phase = "sent",
                                    !.live = FALSE, !.answer = "none"]
  <1>0. proc[p] \in ProcStates
    BY AgentTypes
  <1>1. new \in ProcStates /\ new.step = s /\ new.mem = proc[p].mem /\ new.phase = "sent"
    BY <1>0 DEF ProcStates
  <1>2. proc' = [proc EXCEPT ![p] = new]
    BY DEF Goto
  <1>3. /\ proc[p].mem = disk[HostOf[p]]
        /\ s \notin {"check_current", "rotate", "check_candidate"} =>
               proc[p].mem.candidate = Nothing
    BY DEF HoldInv, MemoryIsDisk
  <1> HIDE DEF new
  <1>4. QED
    BY <1>1, <1>2, <1>3, SameDisk, OrphansAreRequests

LEMMA AskHolds ==
    ASSUME IdentityInv, IdentityInv', HoldInv, OneProcessPerHost, NEW p \in Procs,
           \/ AskExchange(p) \/ AskAfterConflict(p) \/ Validated(p) \/ ClearBootstrap(p)
           \/ AskRotate(p) \/ AskCandidate(p)
    PROVE  HoldInv'
  <1>1. UNCHANGED <<disk, generated, orphans>> /\ UNCHANGED serverVars
    BY DEF AskExchange, AskAfterConflict, Validated, ClearBootstrap, AskRotate, AskCandidate
  <1>2. CASE AskExchange(p) \/ AskAfterConflict(p) \/ Validated(p) \/ ClearBootstrap(p)
    <2>1. proc[p].step \in {"recover_enrollment", "exchange", "validate", "clear"}
      BY <1>2 DEF AskExchange, AskAfterConflict, Validated, ClearBootstrap, Answered
    <2>2. PICK s \in {"exchange", "after_conflict", "clear", "session"} : Goto(p, s, proc[p].mem)
      BY <1>2 DEF AskExchange, AskAfterConflict, Validated, ClearBootstrap
    <2>3. QED
      BY <1>1, <2>1, <2>2, GotoHolds DEF Steps, CallSteps, MeSteps
  <1>3. CASE AskRotate(p) \/ AskCandidate(p)
    <2>1. proc[p].step \in {"check_current", "rotate"}
      BY <1>3 DEF AskRotate, AskCandidate, Answered
    <2>2. PICK s \in {"rotate", "check_candidate"} : Goto(p, s, proc[p].mem)
      BY <1>3 DEF AskRotate, AskCandidate
    <2>3. QED
      BY <1>1, <2>1, <2>2, GotoHolds DEF Steps, CallSteps, MeSteps
  <1>4. QED
    BY <1>2, <1>3

LEMMA EndHolds ==
    ASSUME IdentityInv, IdentityInv', HoldInv, OneProcessPerHost, NEW p \in Procs,
           EndSession(p) \/ Refused(p) \/ GiveUp(p)
    PROVE  HoldInv'
  <1>1. Fail(p) /\ UNCHANGED <<disk, generated>> /\ UNCHANGED serverVars
    BY DEF EndSession, Refused, GiveUp, Fail
  <1>2. \A o \in orphans' : o.request \in Requests
    <2>1. CASE UNCHANGED orphans
      BY <2>1, OrphansAreRequests
    <2>2. CASE /\ proc[p].step \in {"exchange", "rotate"}
               /\ orphans' = orphans \cup {[request |-> RequestOf(p), phase |-> proc[p].phase,
                                            live |-> proc[p].live]}
      BY <2>2 DEF Requests
    <2>3. QED
      BY <2>1, <2>2 DEF EndSession, Refused, GiveUp
  <1>3. QED
    BY <1>1, <1>2, FailHolds

LEMMA ReceiveHolds ==
    ASSUME IdentityInv, IdentityInv', HoldInv, OneProcessPerHost, NEW p \in Procs, Receive(p)
    PROVE  HoldInv'
  <1> DEFINE adm == Admits(RequestOf(p))
             new == [proc[p] EXCEPT !.phase = IF adm THEN "received" ELSE "answered",
                                    !.live = LiveNow(RequestOf(p)),
                                    !.answer = IF adm THEN "none" ELSE "unauthorized"]
  <1>0. proc[p] \in ProcStates /\ LiveNow(RequestOf(p)) \in BOOLEAN /\ proc[p].step \in CallSteps
    BY AgentTypes DEF LiveNow, Receive
  <1>1. proc' = [proc EXCEPT ![p] = new] /\ UNCHANGED <<disk, generated, orphans>>
        /\ UNCHANGED serverVars
    BY DEF Receive
  <1>2. /\ new \in ProcStates /\ new.step = proc[p].step /\ new.mem = proc[p].mem
        /\ new.phase = "answered" => new.answer = "unauthorized"
    BY <1>0 DEF ProcStates
  <1>3. /\ proc[p].step # "idle" => proc[p].mem = disk[HostOf[p]]
        /\ proc[p].step = "fresh" => proc[p].mem = NoState
        /\ proc[p].step \notin {"idle", "check_current", "rotate", "check_candidate"} =>
               proc[p].mem.candidate = Nothing
    BY DEF HoldInv, MemoryIsDisk
  <1> HIDE DEF new
  <1>4. QED
    BY <1>1, <1>2, <1>3, SameDisk, OrphansAreRequests

LEMMA StartHolds ==
    ASSUME IdentityInv, IdentityInv', HoldInv, OneProcessPerHost, NEW p \in Procs,
           NEW goal \in {"run", "rotate"}, Start(p, goal)
    PROVE  HoldInv'
  <1> DEFINE m == disk[HostOf[p]]
             step == IF m = NoState THEN "fresh" ELSE AfterLoad(m)
             new == [IdleProc EXCEPT !.goal = goal, !.token = config[HostOf[p]], !.mem = m,
                                     !.step = step]
  <1>0. HostOf[p] \in Hosts
    BY AgentAssumption
  <1>1. m \in States /\ config[HostOf[p]] \in Tokens \cup {Nothing}
    BY <1>0, AgentTypes
  <1>2. /\ step \in {"fresh", "check_current", "recover_enrollment", "validate"}
        /\ step = "fresh" => m = NoState
        /\ step # "check_current" => m.candidate = Nothing
    BY DEF AfterLoad, NoState
  <1>3. /\ new \in ProcStates /\ new.step = step /\ new.mem = m /\ new.phase = "sent"
    <2> HIDE DEF m, step
    <2>1. new \in ProcStates
      BY <1>1, <1>2, StartedType, Zenon
    <2>2. new.step = step /\ new.mem = m /\ new.phase = "sent"
      BY DEF IdleProc
    <2>3. QED
      BY <2>1, <2>2
  <1>4. proc' = [proc EXCEPT ![p] = new] /\ UNCHANGED <<disk, generated, orphans>>
        /\ UNCHANGED serverVars
    BY DEF Start
  <1> HIDE DEF new, step
  <1>5. QED
    BY <1>2, <1>3, <1>4, SameDisk, OrphansAreRequests

LEMMA ReceiveOrphanHolds ==
    ASSUME IdentityInv, IdentityInv', HoldInv, OneProcessPerHost, NEW o \in orphans,
           ReceiveOrphan(o)
    PROVE  HoldInv'
  <1> DEFINE n == [o EXCEPT !.phase = "received", !.live = LiveNow(o.request)]
  <1>1. o \in LostCalls
    BY AgentTypes
  <1>2. n.request = o.request /\ orphans' = orphans \cup {n}
    BY <1>1 DEF LostCalls, ReceiveOrphan
  <1> HIDE DEF n
  <1>3. UNCHANGED <<disk, proc, generated>> /\ UNCHANGED <<creds, endpoints>>
    BY DEF ReceiveOrphan, serverVars
  <1>4. Requests' = Requests
    <2>1. {q.request : q \in orphans'} = {q.request : q \in orphans}
      BY <1>2
    <2>2. \A p \in Procs : RequestOf(p)' = RequestOf(p)
      BY <1>3 DEF RequestOf
    <2>3. QED
      BY <1>3, <2>1, <2>2 DEF Requests
  <1>5. MemoryIsDisk' /\ HeldApart' /\ RequestsHeld'
    BY <1>3, <1>4 DEF HoldInv, MemoryIsDisk, HeldApart, Held, RequestsHeld, HeldBy
  <1>6. (\A p \in Procs : AnswerHeld(p)') /\ DeviceHoldsActiveCredential'
    BY <1>3 DEF HoldInv, AnswerHeld, DeviceHoldsActiveCredential, ActiveCreds
  <1>7. QED
    BY <1>5, <1>6 DEF HoldInv
-----------------------------------------------------------------------------
(* The steps that write a state file *)

(* What a process that runs knows of its host. *)
LEMMA RunsOnDisk ==
    ASSUME IdentityInv, HoldInv, NEW p \in Procs, proc[p].step # "idle"
    PROVE  LET h == HostOf[p] IN
           /\ h \in Hosts /\ proc[p].mem = disk[h]
           /\ Held(h) \subseteq generated
           /\ disk[h].candidate # Nothing => disk[h].cred # disk[h].candidate
           /\ ActiveCreds(h) \subseteq {disk[h].cred, disk[h].candidate}
           /\ \A q \in Requests : q.host = h => HeldBy(q, disk[h])
           /\ \A q \in Requests : WellFormed(q)
  <1>1. HostOf[p] \in Hosts
    BY AgentAssumption
  <1>2. \A q \in Requests : WellFormed(q)
    BY RequestsInFlight, RequestSound
  <1>3. QED
    BY <1>1, <1>2 DEF HoldInv, MemoryIsDisk, HeldApart, RequestsHeld, DeviceHoldsActiveCredential

LEMMA SaveHolds ==
    ASSUME IdentityInv, IdentityInv', HoldInv, OneProcessPerHost, UNCHANGED serverVars,
           NEW p \in Procs, NEW s \in Steps, NEW m \in States, Goto(p, s, m), Save(p, m),
           UNCHANGED orphans, generated \subseteq generated',
           s \notin {"idle", "fresh", "check_current", "rotate", "check_candidate"},
           m.candidate = Nothing,
           {m.cred} \ {Nothing} \subseteq Held(HostOf[p]) \cup (generated' \ generated),
           \A q \in Requests : q.host = HostOf[p] => HeldBy(q, m),
           ActiveCreds(HostOf[p]) \subseteq {m.cred, m.candidate}
    PROVE  HoldInv'
  <1> DEFINE new == [proc[p] EXCEPT !.step = s, !.mem = m, !.phase = "sent",
                                    !.live = FALSE, !.answer = "none"]
  <1>0. proc[p] \in ProcStates
    BY AgentTypes
  <1>1. new \in ProcStates /\ new.step = s /\ new.mem = m /\ new.phase = "sent"
    BY <1>0 DEF ProcStates
  <1>2. proc' = [proc EXCEPT ![p] = new] /\ disk' = [disk EXCEPT ![HostOf[p]] = m]
    BY DEF Goto, Save
  <1>3. {m.cred, m.candidate} \ {Nothing} \subseteq Held(HostOf[p]) \cup (generated' \ generated)
    OBVIOUS
  <1> HIDE DEF new
  <1>4. QED
    BY <1>1, <1>2, <1>3, OneAgent, OrphansAreRequests

(* A host without a state file has no active credential and no request on  *)
(* its way.                                                                *)
LEMMA PrepareHolds ==
    ASSUME IdentityInv, IdentityInv', HoldInv, OneProcessPerHost, NEW p \in Procs,
           NEW i \in Installs, NEW c \in Creds, Prepare(p, i, c)
    PROVE  HoldInv'
  <1> DEFINE h == HostOf[p]
             m == [NoState EXCEPT !.install = i, !.cred = c]
  <1>1. m \in States /\ m.cred = c /\ m.candidate = Nothing
    BY IdleType DEF States, NoState
  <1>2. /\ Save(p, m) /\ Goto(p, "recover_enrollment", m) /\ generated' = generated \cup {i, c}
        /\ c \notin generated /\ proc[p].step = "fresh"
        /\ UNCHANGED orphans /\ UNCHANGED serverVars
    BY DEF Prepare
  <1> HIDE DEF m
  <1>3. disk[h] = NoState
    BY <1>2, RunsOnDisk DEF HoldInv, MemoryIsDisk
  <1>4. \A q \in Requests : q.host # h
    BY <1>2, <1>3, RunsOnDisk DEF HeldBy
  <1>5. ActiveCreds(h) = {}
    <2>1. ActiveCreds(h) \subseteq {Nothing}
      BY <1>2, <1>3, RunsOnDisk DEF NoState
    <2>2. QED
      BY <2>1, IdentityAssumption DEF ActiveCreds
  <1>6. QED
    BY <1>1, <1>2, <1>4, <1>5, SaveHolds DEF Steps, CallSteps, MeSteps

LEMMA PromoteEnrollmentHolds ==
    ASSUME IdentityInv, IdentityInv', HoldInv, OneProcessPerHost, NEW p \in Procs,
           PromoteEnrollment(p)
    PROVE  HoldInv'
  <1> DEFINE h == HostOf[p]
             old == proc[p].mem
             m == [old EXCEPT !.endpoint = creds[old.cred].host]
  <1>0. proc[p].step \in {"recover_enrollment", "exchange", "after_conflict"}
    BY DEF PromoteEnrollment, Answered
  <1>1. old \in States /\ old.cred \in Creds /\ old = disk[h] /\ old.candidate = Nothing
    BY <1>0, MemSound, RunsOnDisk DEF HoldInv, MemoryIsDisk
  <1>2. creds[old.cred].host \in Hosts \cup {Nothing}
    BY <1>1 DEF IdentityInv, IdentityTypeOK, ServerTypeOK, CredRows
  <1>3. m \in States /\ m.cred = old.cred /\ m.candidate = Nothing /\ m # NoState
    <2>1. m \in States /\ m.cred = old.cred /\ m.candidate = Nothing
      BY <1>1, <1>2 DEF States
    <2>2. QED
      BY <1>1, <2>1, IdentityAssumption DEF NoState
  <1>4. Save(p, m) /\ Goto(p, "clear", m) /\ UNCHANGED <<orphans, generated>>
        /\ UNCHANGED serverVars
    BY DEF PromoteEnrollment
  <1> HIDE DEF m
  <1>5. \A q \in Requests : q.host = h => HeldBy(q, m)
    BY <1>0, <1>1, <1>3, RunsOnDisk DEF HeldBy
  <1>6. {m.cred} \ {Nothing} \subseteq Held(h)
    BY <1>1, <1>3 DEF Held
  <1>7. ActiveCreds(h) \subseteq {m.cred, m.candidate}
    BY <1>0, <1>1, <1>3, RunsOnDisk
  <1>8. QED
    BY <1>3, <1>4, <1>5, <1>6, <1>7, SaveHolds DEF Steps, CallSteps, MeSteps

(* The candidate takes the place of a credential that is not active and    *)
(* that no request can make active.                                        *)
LEMMA PromoteRotationHolds ==
    ASSUME IdentityInv, IdentityInv', HoldInv, OneProcessPerHost, NEW p \in Procs,
           PromoteRotation(p)
    PROVE  HoldInv'
  <1> DEFINE h == HostOf[p]
             old == proc[p].mem
             m == [old EXCEPT !.cred = old.candidate, !.candidate = Nothing]
             step == IF proc[p].rotating THEN "confirm" ELSE "validate"
  <1>0. /\ proc[p].step \in {"rotate", "check_candidate"}
        /\ proc[p].phase = "answered" /\ proc[p].answer = "ok"
    BY DEF PromoteRotation, Answered
  <1>1. old \in States /\ old.cred \in Creds /\ old.candidate \in Creds /\ old = disk[h]
    BY <1>0, MemSound, RunsOnDisk
  <1>2. /\ creds[old.cred].status # "active" /\ creds[old.candidate].status # "absent"
        /\ endpoints[h].mode = "device"
    BY <1>0 DEF HoldInv, AnswerHeld
  <1>3. m \in States /\ m.cred = old.candidate /\ m.candidate = Nothing /\ m # NoState
    <2>1. m \in States /\ m.cred = old.candidate /\ m.candidate = Nothing
      BY <1>1 DEF States
    <2>2. QED
      BY <1>1, <2>1, IdentityAssumption DEF NoState
  <1>4. Save(p, m) /\ Goto(p, step, m) /\ UNCHANGED <<orphans, generated>> /\ UNCHANGED serverVars
    BY DEF PromoteRotation
  <1>5. step \in {"confirm", "validate"} /\ step \in Steps
    BY DEF Steps, CallSteps, MeSteps
  <1> HIDE DEF m, step
  <1>6. \A q \in Requests : q.host = h => HeldBy(q, m)
    BY <1>0, <1>1, <1>2, <1>3, RunsOnDisk DEF HeldBy
  <1>7. {m.cred} \ {Nothing} \subseteq Held(h)
    BY <1>1, <1>3 DEF Held
  <1>8. ActiveCreds(h) \subseteq {m.cred, m.candidate}
    BY <1>0, <1>1, <1>2, <1>3, RunsOnDisk DEF ActiveCreds
  <1>9. QED
    BY <1>3, <1>4, <1>5, <1>6, <1>7, <1>8, SaveHolds

(* The candidate that is forgotten is not active and never will be. *)
LEMMA DiscardHolds ==
    ASSUME IdentityInv, IdentityInv', HoldInv, OneProcessPerHost, NEW p \in Procs,
           DiscardCandidate(p)
    PROVE  HoldInv'
  <1> DEFINE h == HostOf[p]
             old == proc[p].mem
             m == [old EXCEPT !.candidate = Nothing]
  <1>0. proc[p].step = "rotate" /\ proc[p].phase = "answered" /\ proc[p].answer = "conflict"
    BY DEF DiscardCandidate, Answered
  <1>1. old \in States /\ old.cred \in Creds /\ old.candidate \in Creds /\ old = disk[h]
    BY <1>0, MemSound, RunsOnDisk
  <1>2. creds[old.candidate].status \notin {"absent", "active"}
    BY <1>0 DEF HoldInv, AnswerHeld
  <1>3. m \in States /\ m.cred = old.cred /\ m.candidate = Nothing /\ m # NoState
    <2>1. m \in States /\ m.cred = old.cred /\ m.candidate = Nothing
      BY <1>1 DEF States
    <2>2. QED
      BY <1>1, <2>1, IdentityAssumption DEF NoState
  <1>4. Save(p, m) /\ Fail(p) /\ UNCHANGED <<orphans, generated>> /\ UNCHANGED serverVars
    BY DEF DiscardCandidate
  <1> HIDE DEF m
  <1>5. \A q \in Requests : q.host = h => HeldBy(q, m)
    BY <1>0, <1>1, <1>2, <1>3, RunsOnDisk DEF HeldBy
  <1>6. {m.cred, m.candidate} \ {Nothing} \subseteq Held(h)
    BY <1>1, <1>3 DEF Held
  <1>7. ActiveCreds(h) \subseteq {m.cred, m.candidate}
    BY <1>0, <1>1, <1>2, <1>3, RunsOnDisk DEF ActiveCreds
  <1>8. IdleProc \in ProcStates /\ IdleProc.step = "idle" /\ IdleProc.phase = "sent"
    BY IdleType DEF IdleProc
  <1>9. QED
    BY <1>3, <1>4, <1>5, <1>6, <1>7, <1>8, OneAgent, OrphansAreRequests DEF Fail, Save

(* A new candidate is on disk before it is sent. *)
LEMMA NewCandidateHolds ==
    ASSUME IdentityInv, IdentityInv', HoldInv, OneProcessPerHost, NEW p \in Procs,
           NEW c \in Creds, NewCandidate(p, c)
    PROVE  HoldInv'
  <1> DEFINE h == HostOf[p]
             old == proc[p].mem
             m == [old EXCEPT !.candidate = c]
             new == [proc[p] EXCEPT !.step = "check_current", !.mem = m, !.rotating = TRUE,
                                    !.phase = "sent"]
  <1>0. proc[p].step = "session" /\ c \notin generated /\ proc[p] \in ProcStates
    BY AgentTypes DEF NewCandidate
  <1>1. old \in States /\ old.cred \in Creds /\ old.candidate = Nothing /\ old = disk[h]
    BY <1>0, MemSound, RunsOnDisk DEF HoldInv, MemoryIsDisk
  <1>2. m \in States /\ m.cred = old.cred /\ m.candidate = c /\ m # NoState
    <2>1. m \in States /\ m.cred = old.cred /\ m.candidate = c
      BY <1>1 DEF States
    <2>2. QED
      BY <1>1, <2>1, IdentityAssumption DEF NoState
  <1>3. /\ Save(p, m) /\ proc' = [proc EXCEPT ![p] = new] /\ generated' = generated \cup {c}
        /\ UNCHANGED orphans /\ UNCHANGED serverVars
    BY DEF NewCandidate
  <1> HIDE DEF m
  <1>4. new \in ProcStates /\ new.step = "check_current" /\ new.mem = m /\ new.phase = "sent"
    BY <1>0, <1>2 DEF ProcStates, Steps, CallSteps, MeSteps
  <1> HIDE DEF new
  <1>5. old.cred \in Held(h) /\ old.cred \in generated
    <2>1. old.cred \in Held(h)
      BY <1>1, IdentityAssumption DEF Held
    <2>2. QED
      BY <1>0, <2>1, RunsOnDisk
  <1>6. \A q \in Requests : q.host = h => HeldBy(q, m)
    <2>1. ASSUME NEW q \in Requests, q.host = h
          PROVE  HeldBy(q, m)
      <3>1. HeldBy(q, disk[h]) /\ WellFormed(q)
        BY <1>0, <2>1, RunsOnDisk
      <3>2. q.kind = "rotate" => q.new # Nothing
        BY <3>1, IdentityAssumption DEF WellFormed
      <3>3. QED
        BY <1>1, <1>2, <3>1, <3>2 DEF HeldBy
    <2>2. QED
      BY <2>1
  <1>7. {m.cred, m.candidate} \ {Nothing} \subseteq Held(h) \cup (generated' \ generated)
    BY <1>0, <1>2, <1>3, <1>5
  <1>8. ActiveCreds(h) \subseteq {m.cred, m.candidate}
    <2>1. ActiveCreds(h) \subseteq {old.cred, Nothing} /\ Nothing \notin ActiveCreds(h)
      BY <1>0, <1>1, RunsOnDisk, IdentityAssumption DEF ActiveCreds
    <2>2. QED
      BY <1>2, <2>1
  <1>9. QED
    BY <1>0, <1>2, <1>3, <1>4, <1>5, <1>6, <1>7, <1>8, OneAgent, OrphansAreRequests DEF Save
-----------------------------------------------------------------------------
(* The steps of the control plane *)

(* A credential becomes active once, for a host that holds it. *)
StatusesKept ==
    /\ \A c \in Creds : creds[c].status # "absent" => creds'[c].status # "absent"
    /\ \A h \in Hosts : endpoints[h].mode = "device" => endpoints'[h].mode = "device"
    /\ \A c \in Creds : creds'[c].status = "active" =>
           \/ creds[c].status = "active" /\ creds'[c].host = creds[c].host
           \/ /\ creds[c].status = "absent" /\ creds'[c].host \in Hosts
              /\ LET h == creds'[c].host IN
                 \/ c = disk[h].cred /\ endpoints[h].mode # "device"
                 \/ c = disk[h].candidate

LEMMA ServerKeepsStatuses ==
    ASSUME IdentityInv, HoldInv, [IdentityNext]_identityVars
    PROVE  StatusesKept
  <1>1. CASE UNCHANGED serverVars
    BY <1>1 DEF serverVars, StatusesKept
  <1>2. CASE TokenKept
    BY <1>2 DEF TokenKept, StatusesKept
  <1>3. ASSUME NEW c \in Creds, Weakened(c)
        PROVE  StatusesKept
    BY <1>3 DEF Weakened, StatusesKept
  <1>4. ASSUME NEW h \in Hosts, EndpointKept(h)
        PROVE  StatusesKept
    BY <1>4 DEF EndpointKept, StatusesKept
  <1>5. ASSUME NEW q, Enrolls(q)
        PROVE  StatusesKept
    <2>1. EnrollWrites(q)
      BY <1>5, EnrollRows
    <2>2. q \in Requests /\ q.kind = "exchange"
      BY <1>5, RequestsInFlight DEF Enrolls
    <2>3. HeldBy(q, disk[q.host])
      BY <2>2 DEF HoldInv, RequestsHeld
    <2>4. q.cred = disk[q.host].cred
      BY <2>1, <2>2, <2>3 DEF HeldBy, EnrollWrites
    <2>5. QED
      BY <2>1, <2>4 DEF EnrollWrites, StatusesKept
  <1>6. ASSUME NEW q, Rotates(q)
        PROVE  StatusesKept
    <2>1. q \in Requests /\ q.kind = "rotate" /\ q.host \in Hosts
      BY <1>6, RequestsInFlight, RequestSound DEF Rotates
    <2>2. HeldBy(q, disk[q.host])
      BY <2>1 DEF HoldInv, RequestsHeld
    <2>3. /\ q.cred \in Creds /\ creds[q.cred].status = "active" /\ creds[q.new].status = "absent"
      BY <1>6, RotateRows
    <2>4. q.cred = disk[q.host].cred /\ q.new = disk[q.host].candidate
      BY <2>1, <2>2, <2>3 DEF HeldBy
    <2>5. q.cred \in Held(q.host)
      BY <2>3, <2>4, IdentityAssumption DEF Held
    <2>6. creds[q.cred].host = q.host
      BY <2>1, <2>3, <2>5, HolderIsHost
    <2>7. QED
      BY <1>6, <2>1, <2>4, <2>6, RotateRows DEF StatusesKept
  <1>7. OperatorStep \/ (\E t \in Tokens : CreateToken(t)) => StatusesKept
    BY <1>2, <1>3, <1>4, TokensKept, CredentialWeakened, EndpointsKept DEF OperatorStep
  <1>8. QED
    BY <1>1, <1>5, <1>6, <1>7, ServerCases DEF ServerStep

(* What was true of an answer stays true. *)
LEMMA AnswersStay ==
    ASSUME IdentityInv, HoldInv, StatusesKept, NEW p \in Procs, proc'[p] = proc[p]
    PROVE  AnswerHeld(p)'
  <1> DEFINE h == HostOf[p]
             m == proc[p].mem
  <1>0. AnswerHeld(p)
    BY DEF HoldInv
  <1>1. ASSUME proc[p].step \in {"rotate", "check_candidate"}, proc[p].phase = "answered",
               proc[p].answer = "ok"
        PROVE  /\ creds'[m.cred].status # "active" /\ creds'[m.candidate].status # "absent"
               /\ endpoints'[h].mode = "device"
    <2>1. m.cred \in Creds /\ m.candidate \in Creds /\ m = disk[h] /\ h \in Hosts
      BY <1>1, MemSound, RunsOnDisk
    <2>2. /\ creds[m.cred].status # "active" /\ creds[m.candidate].status # "absent"
          /\ endpoints[h].mode = "device"
      BY <1>0, <1>1 DEF AnswerHeld
    <2>3. ASSUME creds'[m.cred].status = "active"
          PROVE  FALSE
      <3> DEFINE g == creds'[m.cred].host
      <3>1. /\ g \in Hosts
            /\ \/ m.cred = disk[g].cred /\ endpoints[g].mode # "device"
               \/ m.cred = disk[g].candidate
        BY <2>1, <2>2, <2>3 DEF StatusesKept
      <3> HIDE DEF g
      <3>2. m.cred \in Held(g) /\ m.cred \in Held(h)
        BY <2>1, <3>1, IdentityAssumption DEF Held
      <3>3. g = h
        BY <2>1, <3>1, <3>2 DEF HoldInv, HeldApart
      <3>4. disk[h].cred # disk[h].candidate
        BY <2>1, IdentityAssumption DEF HoldInv, HeldApart
      <3>5. QED
        BY <2>1, <2>2, <3>1, <3>3, <3>4
    <2>4. QED
      BY <2>1, <2>2, <2>3 DEF StatusesKept
  <1>2. ASSUME proc[p].step = "rotate", proc[p].phase = "answered", proc[p].answer = "conflict"
        PROVE  creds'[m.candidate].status \notin {"absent", "active"}
    <2>1. m.candidate \in Creds
      BY <1>2, MemSound
    <2>2. QED
      BY <1>0, <1>2, <2>1 DEF AnswerHeld, StatusesKept
  <1>3. QED
    BY <1>1, <1>2 DEF AnswerHeld

(* The agents' side stays as it is, but for answers that arrive. *)
LEMMA ServerHolds ==
    ASSUME IdentityInv, HoldInv, StatusesKept, UNCHANGED <<disk, orphans, generated>>,
           \A p \in Procs : /\ proc'[p].step = proc[p].step /\ proc'[p].mem = proc[p].mem
                            /\ proc'[p].token = proc[p].token /\ AnswerHeld(p)'
    PROVE  HoldInv'
  <1>1. MemoryIsDisk' /\ HeldApart'
    BY DEF HoldInv, MemoryIsDisk, HeldApart, Held
  <1>2. Requests' = Requests
    <2>1. \A p \in Procs : RequestOf(p)' = RequestOf(p)
      BY DEF RequestOf
    <2>2. QED
      BY <2>1 DEF Requests
  <1>3. RequestsHeld'
    <2>1. ASSUME NEW q \in Requests
          PROVE  HeldBy(q, disk[q.host])'
      <3>1. HeldBy(q, disk[q.host])
        BY DEF HoldInv, RequestsHeld
      <3>2. WellFormed(q) /\ q.host \in Hosts
        BY RequestsInFlight, RequestSound
      <3>3. QED
        BY <3>1, <3>2 DEF WellFormed, HeldBy, StatusesKept
    <2>2. QED
      BY <1>2, <2>1 DEF RequestsHeld
  <1>4. DeviceHoldsActiveCredential'
    <2>1. ASSUME NEW h \in Hosts, NEW c \in Creds, creds'[c].status = "active", creds'[c].host = h
          PROVE  c \in {disk[h].cred, disk[h].candidate}
      BY <2>1 DEF StatusesKept, HoldInv, DeviceHoldsActiveCredential, ActiveCreds
    <2>2. QED
      BY <2>1 DEF DeviceHoldsActiveCredential, ActiveCreds
  <1>5. QED
    BY <1>1, <1>3, <1>4 DEF HoldInv

(* What a process that asks for a rotation sends. *)
LEMMA RotateRequest ==
    ASSUME NEW p \in Procs, proc[p].step = "rotate"
    PROVE  /\ RequestOf(p).kind = "rotate" /\ RequestOf(p).cred = proc[p].mem.cred
           /\ RequestOf(p).new = proc[p].mem.candidate
  BY DEF RequestOf, MeSteps

(* The answer of the control plane to a rotation or about a candidate. *)
LEMMA AnswerIsHeld ==
    ASSUME IdentityInv, HoldInv, StatusesKept, NEW p \in Procs, NEW answer,
           proc[p].step \in {"rotate", "check_candidate"},
           Handle(RequestOf(p), proc[p].live, answer)
    PROVE  LET m == proc[p].mem IN
           /\ answer = "ok" => /\ creds'[m.cred].status # "active"
                               /\ creds'[m.candidate].status # "absent"
                               /\ endpoints'[HostOf[p]].mode = "device"
           /\ proc[p].step = "rotate" /\ answer = "conflict" =>
                  creds'[m.candidate].status \notin {"absent", "active"}
  <1> DEFINE h == HostOf[p]
             m == proc[p].mem
  <1>0. /\ m.cred \in Creds /\ m.candidate \in Creds /\ m = disk[h] /\ h \in Hosts
        /\ m.cred # m.candidate /\ m.cred \in Held(h) /\ m.candidate \in Held(h)
    <2>1. m.cred \in Creds /\ m.candidate \in Creds /\ m = disk[h] /\ h \in Hosts
      BY MemSound, RunsOnDisk
    <2>2. QED
      BY <2>1, IdentityAssumption DEF Held, HoldInv, HeldApart
  <1>1. /\ creds[m.cred].status = "active" =>
               creds[m.cred].host = h /\ endpoints[h].mode = "device"
        /\ creds[m.candidate].status = "active" =>
               creds[m.candidate].host = h /\ endpoints[h].mode = "device"
    BY <1>0, HolderIsHost
  <1>2. ~(creds[m.cred].status = "active" /\ creds[m.candidate].status = "active")
    BY <1>0, <1>1 DEF IdentityInv, CredsSound
  <1>3. CASE proc[p].step = "rotate"
    <2>1. Rotate(m.cred, m.candidate, answer)
      BY <1>3, RotateRequest DEF Handle
    <2>2. CASE answer = "ok"
      <3>1. /\ creds[m.cred].status = "active" /\ UNCHANGED endpoints
            /\ creds' = [creds EXCEPT ![m.cred].status = "replaced", ![m.cred].by = m.candidate,
                           ![m.candidate] = [NoCred EXCEPT !.status = "active",
                                                           !.host = creds[m.cred].host]]
        BY <2>1, <2>2, Zenon DEF Rotate
      <3>2. creds'[m.cred].status = "replaced" /\ creds'[m.candidate].status = "active"
        <4>1. InFlight(RequestOf(p)) /\ RequestOf(p).kind = "rotate"
              /\ RequestOf(p).cred = m.cred /\ RequestOf(p).new = m.candidate
          BY <1>3, RotateRequest DEF InFlight
        <4>2. Rotates(RequestOf(p))
          <5>1. creds[m.candidate].status = "absent" /\ UNCHANGED <<tokens, endpoints, redemptions>>
            BY <2>1, <2>2, Zenon DEF Rotate
          <5>2. QED
            BY <3>1, <4>1, <5>1, Zenon DEF Rotates
        <4>3. QED
          BY <4>1, <4>2, RotateRows
      <3>3. creds[m.cred].status = "active" /\ UNCHANGED endpoints
        BY <3>1
      <3>4. QED
        BY <1>1, <2>2, <3>2, <3>3
    <2>3. CASE answer = "conflict"
      <3>1. /\ creds[m.cred].status = "active" /\ creds[m.candidate].status # "absent"
            /\ UNCHANGED creds
        BY <2>1, <2>3 DEF Rotate, serverVars
      <3>2. QED
        BY <1>2, <2>3, <3>1
    <2>4. QED
      BY <2>2, <2>3
  <1>4. CASE proc[p].step = "check_candidate"
    <2>1. Me(m.candidate, answer)
      BY <1>4 DEF RequestOf, Handle, MeSteps
    <2>2. UNCHANGED <<creds, endpoints>> /\ (answer = "ok" => creds[m.candidate].status = "active")
      BY <2>1 DEF Me, serverVars
    <2>3. QED
      BY <1>1, <1>2, <1>4, <2>2
  <1>5. QED
    BY <1>3, <1>4

LEMMA ServeHolds ==
    ASSUME IdentityInv, HoldInv, StatusesKept, NEW p \in Procs, Serve(p)
    PROVE  HoldInv'
  <1>0. proc \in [Procs -> ProcStates] /\ proc[p] \in ProcStates
    BY AgentTypes
  <1>1. PICK answer \in {"ok", "unauthorized", "conflict"} :
            /\ Handle(RequestOf(p), proc[p].live, answer)
            /\ proc' = [proc EXCEPT ![p].phase = "answered", ![p].answer = answer]
    BY DEF Serve
  <1> DEFINE new == [proc[p] EXCEPT !.phase = "answered", !.answer = answer]
  <1>2. /\ new.step = proc[p].step /\ new.mem = proc[p].mem /\ new.token = proc[p].token
        /\ new.phase = "answered" /\ new.answer = answer
    BY <1>0 DEF ProcStates
  <1>3. proc' = [proc EXCEPT ![p] = new]
    BY <1>1
  <1> HIDE DEF new
  <1>4. proc'[p] = new /\ \A r \in Procs \ {p} : proc'[r] = proc[r]
    BY <1>0, <1>3
  <1>5. AnswerHeld(p)'
    <2>1. CASE proc[p].step \in {"rotate", "check_candidate"}
      BY <1>1, <1>2, <1>4, <2>1, AnswerIsHeld DEF AnswerHeld
    <2>2. CASE proc[p].step \notin {"rotate", "check_candidate"}
      BY <1>2, <1>4, <2>2 DEF AnswerHeld
    <2>3. QED
      BY <2>1, <2>2
  <1>6. \A r \in Procs : /\ proc'[r].step = proc[r].step /\ proc'[r].mem = proc[r].mem
                         /\ proc'[r].token = proc[r].token /\ AnswerHeld(r)'
    BY <1>2, <1>4, <1>5, AnswersStay
  <1>7. QED
    BY <1>6, ServerHolds DEF Serve
-----------------------------------------------------------------------------
(* The device can always come back *)

LEMMA HoldStart == IdentityInit => HoldInv
  <1> SUFFICES ASSUME IdentityInit
               PROVE  HoldInv
    OBVIOUS
  <1>1. /\ \A h \in Hosts : disk[h] = NoState
        /\ \A p \in Procs : proc[p] = IdleProc
        /\ orphans = {} /\ \A c \in Creds : creds[c].status # "active"
    BY DEF IdentityInit, ServerInit, NoCred
  <1>2. NoState.cred = Nothing /\ NoState.candidate = Nothing /\ IdleProc.step = "idle"
    BY DEF NoState, IdleProc
  <1>3. MemoryIsDisk /\ \A p \in Procs : AnswerHeld(p)
    BY <1>1, <1>2 DEF MemoryIsDisk, AnswerHeld
  <1>4. HeldApart
    BY <1>1, <1>2 DEF HeldApart, Held
  <1>5. RequestsHeld
    BY <1>1, <1>2 DEF RequestsHeld, Requests
  <1>6. DeviceHoldsActiveCredential
    BY <1>1 DEF DeviceHoldsActiveCredential, ActiveCreds
  <1>7. QED
    BY <1>3, <1>4, <1>5, <1>6 DEF HoldInv

LEMMA HoldStep ==
    ASSUME OneProcessPerHost
    PROVE  IdentityInv /\ HoldInv /\ [IdentityNext]_identityVars => HoldInv'
  <1> SUFFICES ASSUME IdentityInv, HoldInv, [IdentityNext]_identityVars
               PROVE  HoldInv'
    OBVIOUS
  <1>0. IdentityInv' /\ StatusesKept
    BY IdentityStep, ServerKeepsStatuses
  <1>1. UNCHANGED agentVars => HoldInv'
    <2> SUFFICES ASSUME UNCHANGED agentVars
                 PROVE  HoldInv'
      OBVIOUS
    <2>1. UNCHANGED <<disk, proc, orphans, generated>>
      BY DEF agentVars
    <2>2. \A p \in Procs : AnswerHeld(p)'
      BY <1>0, <2>1, AnswersStay
    <2>3. QED
      BY <1>0, <2>1, <2>2, ServerHolds
  <1>2. (OperatorStep /\ UNCHANGED agentVars)
        \/ (\E t \in Tokens : CreateToken(t) /\ UNCHANGED agentVars) => HoldInv'
    BY <1>1
  <1>3. (\E o \in orphans : ReceiveOrphan(o) \/ ServeOrphan(o)) => HoldInv'
    BY <1>0, <1>1, ReceiveOrphanHolds DEF ServeOrphan
  <1>4. ASSUME NEW p \in Procs, AgentStep(p)
        PROVE  HoldInv'
    BY <1>0, <1>4, ReceiveHolds, ServeHolds, PrepareHolds, AskHolds, PromoteEnrollmentHolds,
       EndHolds, NewCandidateHolds, PromoteRotationHolds, DiscardHolds DEF AgentStep
  <1>5. UNCHANGED identityVars => UNCHANGED agentVars
    BY DEF identityVars
  <1>6. QED
    BY <1>0, <1>1, <1>2, <1>3, <1>4, <1>5, StartHolds, EndHolds DEF IdentityNext

(* agent/README.md's loss-safe bootstrap and rotation: whatever is lost,   *)
(* late or repeated, and wherever a cycle breaks off, the active           *)
(* credential of a host's endpoint is in the state file of the host, if    *)
(* one agent process at a time uses that file (ensureDeviceIdentity,       *)
(* rotateDeviceCredential, reconcilePendingRotation).                      *)
THEOREM DeviceHoldsActiveCredentialAlways ==
    ASSUME OneProcessPerHost
    PROVE  IdentitySpec => []DeviceHoldsActiveCredential
  <1>1. IdentityInit => HoldInv
    BY HoldStart
  <1>2. IdentityInv /\ HoldInv /\ [IdentityNext]_identityVars => HoldInv'
    BY HoldStep
  <1>3. HoldInv => DeviceHoldsActiveCredential
    BY DEF HoldInv
  <1>4. QED
    BY <1>1, <1>2, <1>3, IdentityInvAlways, PTL DEF IdentitySpec
=============================================================================
