--------------------------- MODULE DeviceIdentity ---------------------------
(***************************************************************************)
(* The control plane's side of device identity: enrollment tokens, their   *)
(* redemption, endpoints and device credentials                            *)
(* (backend/app/api/endpoints/device_identity.py, endpoints.py, auth.py).  *)
(*                                                                         *)
(* An endpoint is named by its host: agent_fingerprint is unique, and a    *)
(* host's agent always sends the same one.  Each handler below is the      *)
(* transaction it runs under the row locks it takes; the authentication    *)
(* that precedes it is a transaction of its own (Authentic).  Time appears *)
(* as the two events that matter, a token or a credential passing its      *)
(* expires_at.  Secrets are carried by the ids they belong to.             *)
(***************************************************************************)
EXTENDS Naturals, FiniteSets

CONSTANTS
    Hosts,         \* machines that run an agent or a legacy reporter
    Tokens,        \* enrollment token ids
    Installs,      \* installation ids agents generate
    Creds,         \* credential ids agents generate
    Taken,         \* those that belong to devices outside the model
    MaxUses,       \* max_uses of each token
    Policy,        \* approval_policy of each token
    Suits,         \* <<t, h>>: token t has no platform or that of h
    Homes,         \* <<t, h>>: a legacy endpoint of h is in the scope of t
    Nothing

ASSUME IdentityAssumption ==
    /\ MaxUses \in [Tokens -> Nat \ {0}]
    /\ Policy \in [Tokens -> {"pending", "approved"}]
    /\ Suits \subseteq Tokens \X Hosts
    /\ Homes \subseteq Tokens \X Hosts
    /\ Taken \subseteq Creds
    /\ Nothing \notin Hosts \cup Tokens \cup Installs \cup Creds

VARIABLES
    tokens,        \* enrollment_tokens rows
    endpoints,     \* endpoints rows, by host
    creds,         \* device_credentials rows
    redemptions    \* enrollment_redemptions rows

serverVars == <<tokens, endpoints, creds, redemptions>>

NoEndpoint == [mode |-> "absent", install |-> Nothing, status |-> "active"]
NoCred == [status |-> "absent", host |-> Nothing, by |-> Nothing, expired |-> FALSE]

TokenRows == [exists : BOOLEAN, uses : Nat, revoked : BOOLEAN, expired : BOOLEAN]
EndpointRows == [mode : {"absent", "legacy_shared", "device"},
                 install : Installs \cup {Nothing}, status : {"pending", "active"}]
CredRows == [status : {"absent", "active", "replaced", "revoked"}, host : Hosts \cup {Nothing},
             by : Creds \cup {Nothing}, expired : BOOLEAN]
Redemptions == [token : Tokens, install : Installs, host : Hosts, cred : Creds]

ServerTypeOK ==
    /\ tokens \in [Tokens -> TokenRows]
    /\ endpoints \in [Hosts -> EndpointRows]
    /\ creds \in [Creds -> CredRows]
    /\ redemptions \subseteq Redemptions

ServerInit ==
    /\ tokens = [t \in Tokens |->
                   [exists |-> FALSE, uses |-> 0, revoked |-> FALSE, expired |-> FALSE]]
    /\ endpoints = [h \in Hosts |-> NoEndpoint]
    /\ creds = [c \in Creds |-> IF c \in Taken THEN [NoCred EXCEPT !.status = "replaced"]
                                             ELSE NoCred]
    /\ redemptions = {}

ActiveCreds(h) == {c \in Creds : creds[c].status = "active" /\ creds[c].host = h}

(* _authenticate_device_principal *)
Authentic(c) ==
    /\ creds[c].status = "active"
    /\ ~creds[c].expired
    /\ endpoints[creds[c].host].mode = "device"

-----------------------------------------------------------------------------
(* Operators and time *)

(* create_enrollment_token *)
CreateToken(t) ==
    /\ ~tokens[t].exists
    /\ tokens' = [tokens EXCEPT ![t].exists = TRUE]
    /\ UNCHANGED <<endpoints, creds, redemptions>>

(* revoke_enrollment_token *)
RevokeToken(t) ==
    /\ tokens[t].exists
    /\ tokens' = [tokens EXCEPT ![t].revoked = TRUE]
    /\ UNCHANGED <<endpoints, creds, redemptions>>

(* Mistake: a status the table does not have. *)
RevokeUntyped(c) ==
    /\ creds[c].host # Nothing
    /\ creds' = [creds EXCEPT ![c].status = "deleted"]
    /\ UNCHANGED <<tokens, endpoints, redemptions>>

(* revoke_device_credential: also a credential that was replaced. *)
RevokeCredential(c) ==
    /\ creds[c].host # Nothing
    /\ creds' = [creds EXCEPT ![c].status = "revoked"]
    /\ UNCHANGED <<tokens, endpoints, redemptions>>

(* approve_pending_endpoint *)
ApproveEndpoint(h) ==
    /\ endpoints[h].status = "pending"
    /\ endpoints' = [endpoints EXCEPT ![h].status = "active"]
    /\ UNCHANGED <<tokens, creds, redemptions>>

(* enroll_endpoint, called by a legacy reporter: it is refused once the    *)
(* endpoint is in device mode and rewrites no field kept here if the       *)
(* endpoint is already legacy.                                             *)
LegacyEnroll(h) ==
    /\ endpoints[h].mode = "absent"
    /\ endpoints' = [endpoints EXCEPT ![h].mode = "legacy_shared"]
    /\ UNCHANGED <<tokens, creds, redemptions>>

ExpireToken(t) ==
    /\ tokens[t].exists
    /\ ~tokens[t].expired
    /\ tokens' = [tokens EXCEPT ![t].expired = TRUE]
    /\ UNCHANGED <<endpoints, creds, redemptions>>

ExpireCredential(c) ==
    /\ creds[c].host # Nothing
    /\ ~creds[c].expired
    /\ creds' = [creds EXCEPT ![c].expired = TRUE]
    /\ UNCHANGED <<tokens, endpoints, redemptions>>

OperatorStep ==
    \/ \E t \in Tokens : RevokeToken(t) \/ ExpireToken(t)
    \/ \E c \in Creds : RevokeCredential(c) \/ ExpireCredential(c)
    \/ \E h \in Hosts : ApproveEndpoint(h) \/ LegacyEnroll(h)

-----------------------------------------------------------------------------
(* exchange_enrollment_token.  A request q names its token, installation,  *)
(* host and credential; `live` says whether the token had not expired when *)
(* the handler read the clock.                                             *)

RedemptionOf(q) == {r \in redemptions : r.token = q.token /\ r.install = q.install}

SameExchange(q) ==
    [token |-> q.token, install |-> q.install, host |-> q.host, cred |-> q.cred]
        \in redemptions

(* An exchange already made is answered again, whatever became of the      *)
(* token, as long as the credential it made is good.                       *)
Replays(q) ==
    /\ SameExchange(q)
    /\ creds[q.cred].status = "active"
    /\ ~creds[q.cred].expired

Usable(t, live) ==
    /\ tokens[t].exists
    /\ ~tokens[t].revoked
    /\ live
    /\ tokens[t].uses < MaxUses[t]

(* What the checks and the unique constraints refuse with 409. *)
InUse(q) ==
    \/ \E h \in Hosts : endpoints[h].install = q.install
    \/ creds[q.cred].status # "absent"
    \/ endpoints[q.host].mode = "device"
    \/ endpoints[q.host].mode = "legacy_shared" /\ <<q.token, q.host>> \notin Homes

Conflicts(q, live) ==
    IF RedemptionOf(q) # {}
    THEN ~SameExchange(q)
    ELSE Usable(q.token, live) /\ <<q.token, q.host>> \in Suits /\ InUse(q)

Redeems(q, live) ==
    /\ RedemptionOf(q) = {}
    /\ Usable(q.token, live)
    /\ <<q.token, q.host>> \in Suits
    /\ ~InUse(q)

(* The first exchange: the use is counted, the endpoint is created or      *)
(* migrated in place, its credential and the redemption are recorded.      *)
Redeem(q) ==
    /\ tokens' = [tokens EXCEPT ![q.token].uses = @ + 1]
    /\ endpoints' = [endpoints EXCEPT ![q.host] =
                       [mode |-> "device", install |-> q.install,
                        status |-> IF Policy[q.token] = "approved" THEN "active" ELSE "pending"]]
    /\ creds' = [creds EXCEPT ![q.cred] = [NoCred EXCEPT !.status = "active", !.host = q.host]]
    /\ redemptions' = redemptions \cup
           {[token |-> q.token, install |-> q.install, host |-> q.host, cred |-> q.cred]}

(* Mistake: a repeated exchange is charged to the token again. *)
ExchangeAndCharge(q, live, answer) ==
    \/ answer = "ok" /\ Redeems(q, live) /\ Redeem(q)
    \/ /\ answer = "ok"
       /\ RedemptionOf(q) # {} /\ Replays(q)
       /\ tokens' = [tokens EXCEPT ![q.token].uses = @ + 1]
       /\ UNCHANGED <<endpoints, creds, redemptions>>

(* The handler and its answer; "unauthorized" also stands for the 422 of a *)
(* platform that does not suit, to which the agent reacts alike.           *)
Exchange(q, live, answer) ==
    \/ answer = "ok" /\ Redeems(q, live) /\ Redeem(q)
    \/ answer = "ok" /\ Replays(q) /\ UNCHANGED serverVars
    \/ answer = "conflict" /\ Conflicts(q, live) /\ UNCHANGED serverVars
    \/ /\ answer = "unauthorized"
       /\ ~Redeems(q, live) /\ ~Replays(q) /\ ~Conflicts(q, live)
       /\ UNCHANGED serverVars

-----------------------------------------------------------------------------
(* get_agent_identity *)
Me(c, answer) ==
    /\ answer = IF creds[c].status = "active" THEN "ok" ELSE "unauthorized"
    /\ UNCHANGED serverVars

(* Mistake: the current credential stays active. *)
RotateAndKeep(c, n, answer) ==
    /\ answer = "ok"
    /\ creds[c].status = "active" /\ creds[n].status = "absent"
    /\ creds' = [creds EXCEPT ![n] = [NoCred EXCEPT !.status = "active", !.host = creds[c].host]]
    /\ UNCHANGED <<tokens, endpoints, redemptions>>

(* Mistake: the authentication that came before is trusted. *)
RotateUnlocked(c, n, answer) ==
    /\ answer = "ok"
    /\ creds[n].status = "absent"
    /\ creds' = [creds EXCEPT
                   ![c].status = "replaced", ![c].by = n,
                   ![n] = [NoCred EXCEPT !.status = "active", !.host = creds[c].host]]
    /\ UNCHANGED <<tokens, endpoints, redemptions>>

(* rotate_device_credential: c is the locked current credential, n the     *)
(* replacement, another id (the agent sends no other).  The expiry of c    *)
(* was checked by its authentication only.                                 *)
Rotate(c, n, answer) ==
    \/ /\ answer = "unauthorized"
       /\ creds[c].status # "active"
       /\ UNCHANGED serverVars
    \/ /\ answer = "conflict"
       /\ creds[c].status = "active" /\ creds[n].status # "absent"
       /\ UNCHANGED serverVars
    \/ /\ answer = "ok"
       /\ creds[c].status = "active" /\ creds[n].status = "absent"
       /\ creds' = [creds EXCEPT
                      ![c].status = "replaced", ![c].by = n,
                      ![n] = [NoCred EXCEPT !.status = "active", !.host = creds[c].host]]
       /\ UNCHANGED <<tokens, endpoints, redemptions>>

-----------------------------------------------------------------------------
(* Properties *)

(* An enrollment token is worth exactly max_uses devices: its use_count is *)
(* the number of devices it enrolled, never more than max_uses, although   *)
(* lost answers make agents repeat exchanges and late copies of them       *)
(* arrive at any time (exchange_enrollment_token).                         *)
TokenUsesCounted ==
    \A t \in Tokens :
        /\ tokens[t].uses = Cardinality({r \in redemptions : r.token = t})
        /\ tokens[t].uses <= MaxUses[t]

(* A device has one identity at a time: no endpoint has two active         *)
(* credentials, no installation is bound to two hosts, and no redemption   *)
(* shares its credential.  The code keeps this by itself; the partial      *)
(* unique index on active credentials never has to refuse anything.        *)
OneIdentityPerDevice ==
    /\ \A h \in Hosts : Cardinality(ActiveCreds(h)) <= 1
    /\ \A g, h \in Hosts : endpoints[g].mode = "device" /\ endpoints[h].mode = "device"
                           /\ endpoints[g].install = endpoints[h].install => g = h
    /\ \A r, s \in redemptions : r.cred = s.cred => r = s

(* A device that was cut off stays cut off: once an operator has revoked   *)
(* the active credential of an enrolled endpoint, no late rotation, replay *)
(* of its enrollment or new enrollment gives the endpoint an active        *)
(* credential again (rotate_device_credential, exchange_enrollment_token,  *)
(* revoke_device_credential).                                              *)
CutOffStaysCutOff ==
    [][\A h \in Hosts : endpoints[h].mode = "device" /\ ActiveCreds(h) = {} =>
           endpoints'[h].mode = "device" /\ ActiveCreds(h)' = {}]_serverVars
=============================================================================
