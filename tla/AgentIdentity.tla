---------------------------- MODULE AgentIdentity ----------------------------
(***************************************************************************)
(* The endpoint agent's side of device identity, against the control plane *)
(* of module DeviceIdentity: enrollment, credential rotation and their     *)
(* recovery (agent/cmd/sha-agent/identity.go, state.go, main.go).          *)
(*                                                                         *)
(* A host keeps a device state file and a config file; stateStore.Save     *)
(* replaces the file atomically.  A process is a run of the agent binary   *)
(* on a host: the service, whose loop starts a cycle again and again, or   *)
(* an operator's `-action rotate-credential`.  A cycle begins by loading   *)
(* the state file; nothing else survives from one cycle to the next.       *)
(*                                                                         *)
(* The network loses requests and answers.  A process that waits for an    *)
(* answer may give up (time out, crash, be stopped) at any moment; the     *)
(* request it leaves behind may still be executed later, and since agents  *)
(* repeat requests word for word, more than once.                          *)
(***************************************************************************)
EXTENDS DeviceIdentity

CONSTANTS
    Procs,         \* agent processes
    HostOf,        \* the host each one runs on
    ConfigToken,   \* the enrollment token in each host's config file
    MaxFaults      \* bound on the cycles that fail half-way

ASSUME AgentAssumption ==
    /\ HostOf \in [Procs -> Hosts]
    /\ ConfigToken \in [Hosts -> Tokens]
    /\ MaxFaults \in Nat

VARIABLES
    disk,          \* the device state file of each host
    config,        \* the enrollment token in each host's config file
    proc,          \* what each process is doing
    orphans,       \* requests whose sender has given up
    generated,     \* ids agents have generated
    faults         \* cycles given up so far

agentVars == <<disk, config, proc, orphans, generated, faults>>
identityVars == <<serverVars, agentVars>>

NoState == [install |-> Nothing, cred |-> Nothing, endpoint |-> Nothing, candidate |-> Nothing]

(* The steps that wait for an answer, by the call they wait for. *)
MeSteps == {"recover_enrollment", "after_conflict", "validate", "check_current",
            "check_candidate", "confirm"}
CallSteps == MeSteps \cup {"exchange", "rotate"}
Steps == CallSteps \cup {"idle", "fresh", "clear", "session"}

(* phase: how far the call has got.  In "received" the server has          *)
(* authenticated it and read the clock.                                    *)
IdleProc == [step |-> "idle", goal |-> "run", rotating |-> FALSE, token |-> Nothing,
             mem |-> NoState, phase |-> "sent", live |-> FALSE, answer |-> "none"]

States == [install : Installs \cup {Nothing}, cred : Creds \cup {Nothing},
           endpoint : Hosts \cup {Nothing}, candidate : Creds \cup {Nothing}]

ProcStates ==
    [step : Steps, goal : {"run", "rotate"}, rotating : BOOLEAN, token : Tokens \cup {Nothing},
     mem : States, phase : {"sent", "received", "answered"}, live : BOOLEAN,
     answer : {"none", "ok", "unauthorized", "conflict"}]

(* An exchange or a rotation that nobody waits for any more. *)
LostRequests ==
    [kind : {"exchange", "rotate"}, cred : Creds, new : Creds \cup {Nothing},
     token : Tokens \cup {Nothing}, install : Installs, host : Hosts]

IdentityTypeOK ==
    /\ ServerTypeOK
    /\ disk \in [Hosts -> States]
    /\ config \in [Hosts -> Tokens \cup {Nothing}]
    /\ proc \in [Procs -> ProcStates]
    /\ orphans \subseteq [request : LostRequests, phase : {"sent", "received"}, live : BOOLEAN]
    /\ generated \subseteq Installs \cup Creds
    /\ faults \in 0 .. MaxFaults

IdentityInit ==
    /\ ServerInit
    /\ disk = [h \in Hosts |-> NoState]
    /\ config = ConfigToken
    /\ proc = [p \in Procs |-> IdleProc]
    /\ orphans = {}
    /\ generated = {}
    /\ faults = 0

-----------------------------------------------------------------------------
(* Requests and their handling by the control plane *)

(* The request the process sends in its current step. *)
RequestOf(p) ==
    LET m == proc[p].mem IN
    [kind |-> IF proc[p].step \in MeSteps THEN "me" ELSE proc[p].step,
     cred |-> IF proc[p].step = "check_candidate" THEN m.candidate ELSE m.cred,
     new |-> m.candidate, token |-> proc[p].token, install |-> m.install, host |-> HostOf[p]]

(* api_token_middleware and the start of the handler. *)
Admits(q) == q.kind = "exchange" \/ Authentic(q.cred)
LiveNow(q) == q.kind = "exchange" /\ tokens[q.token].exists /\ ~tokens[q.token].expired

Handle(q, live, answer) ==
    \/ q.kind = "exchange" /\ Exchange(q, live, answer)
    \/ q.kind = "me" /\ Me(q.cred, answer)
    \/ q.kind = "rotate" /\ Rotate(q.cred, q.new, answer)

Receive(p) ==
    LET q == RequestOf(p) IN
    /\ proc[p].step \in CallSteps
    /\ proc[p].phase = "sent"
    /\ proc' = [proc EXCEPT ![p].phase = IF Admits(q) THEN "received" ELSE "answered",
                            ![p].live = LiveNow(q),
                            ![p].answer = IF Admits(q) THEN "none" ELSE "unauthorized"]
    /\ UNCHANGED <<serverVars, disk, config, orphans, generated, faults>>

Serve(p) ==
    /\ proc[p].step \in CallSteps
    /\ proc[p].phase = "received"
    /\ \E answer \in {"ok", "unauthorized", "conflict"} :
           /\ Handle(RequestOf(p), proc[p].live, answer)
           /\ proc' = [proc EXCEPT ![p].phase = "answered", ![p].answer = answer]
    /\ UNCHANGED <<disk, config, orphans, generated, faults>>

(* The same for a request nobody waits for.  It stays: copies of it may    *)
(* follow.                                                                 *)
ReceiveOrphan(o) ==
    /\ o.phase = "sent"
    /\ Admits(o.request)
    /\ orphans' = orphans \cup {[o EXCEPT !.phase = "received", !.live = LiveNow(o.request)]}
    /\ UNCHANGED <<serverVars, disk, config, proc, generated, faults>>

ServeOrphan(o) ==
    /\ o.phase = "received"
    /\ \E answer \in {"ok", "unauthorized", "conflict"} : Handle(o.request, o.live, answer)
    /\ UNCHANGED agentVars

(* The cycle ends half-way: a timeout, a lost answer, a 5xx, a failed      *)
(* write, a crash.  A request for the identity leaves nothing to execute.  *)
GiveUp(p) ==
    /\ proc[p].step # "idle"
    /\ faults < MaxFaults
    /\ faults' = faults + 1
    /\ proc' = [proc EXCEPT ![p] = IdleProc]
    /\ orphans' = IF proc[p].step \in {"exchange", "rotate"} /\ proc[p].phase # "answered"
                  THEN orphans \cup {[request |-> RequestOf(p), phase |-> proc[p].phase,
                                      live |-> proc[p].live]}
                  ELSE orphans
    /\ UNCHANGED <<serverVars, disk, config, generated>>

-----------------------------------------------------------------------------
(* The agent *)

(* The process goes on with step s and state m; a call is sent anew. *)
Goto(p, s, m) ==
    proc' = [proc EXCEPT ![p] = [@ EXCEPT !.step = s, !.mem = m, !.phase = "sent",
                                          !.live = FALSE, !.answer = "none"]]

Save(p, m) == disk' = [disk EXCEPT ![HostOf[p]] = m]

(* An error ends the cycle, or the process. *)
Fail(p) == proc' = [proc EXCEPT ![p] = IdleProc]

(* validateIdentityResponse: an answer is about the credential that was    *)
(* sent; the endpoint it names has to be the one the state knows.          *)
Matches(p) ==
    LET m == proc[p].mem
        h == creds[RequestOf(p).cred].host
    IN /\ endpoints[h].install = m.install
       /\ m.endpoint # Nothing => h = m.endpoint

Answered(p, step, answer) ==
    /\ proc[p].step = step
    /\ proc[p].phase = "answered"
    /\ answer = IF proc[p].answer = "ok" /\ ~Matches(p) THEN "mismatch" ELSE proc[p].answer

(* ensureDeviceIdentity after the state is loaded or reconciled. *)
AfterLoad(m) == IF m.candidate # Nothing THEN "check_current"
                ELSE IF m.endpoint = Nothing THEN "recover_enrollment"
                ELSE "validate"

(* A cycle starts: the state file is loaded; without one an enrollment     *)
(* token is needed.                                                        *)
Start(p, goal) ==
    LET m == disk[HostOf[p]] IN
    /\ proc[p].step = "idle"
    /\ m = NoState => config[HostOf[p]] # Nothing
    /\ proc' = [proc EXCEPT ![p] =
                  [IdleProc EXCEPT !.goal = goal, !.token = config[HostOf[p]], !.mem = m,
                                   !.step = IF m = NoState THEN "fresh" ELSE AfterLoad(m)]]
    /\ UNCHANGED <<serverVars, disk, config, orphans, generated, faults>>

(* newPendingEnrollmentState, saved before the first exchange. *)
Prepare(p, i, c) ==
    LET m == [NoState EXCEPT !.install = i, !.cred = c] IN
    /\ proc[p].step = "fresh"
    /\ {i, c} \cap generated = {}
    /\ generated' = generated \cup {i, c}
    /\ Save(p, m)
    /\ Goto(p, "recover_enrollment", m)
    /\ UNCHANGED <<serverVars, config, orphans, faults>>

(* Mistake: the token is dropped from the config as soon as it is used. *)
AskExchangeAndForget(p) ==
    /\ Answered(p, "recover_enrollment", "unauthorized")
    /\ proc[p].token # Nothing
    /\ config' = [config EXCEPT ![HostOf[p]] = Nothing]
    /\ Goto(p, "exchange", proc[p].mem)
    /\ UNCHANGED <<serverVars, disk, orphans, generated, faults>>

(* fetchAgentIdentity did not know the credential: exchange the token. *)
AskExchange(p) ==
    /\ Answered(p, "recover_enrollment", "unauthorized")
    /\ proc[p].token # Nothing
    /\ Goto(p, "exchange", proc[p].mem)
    /\ UNCHANGED <<serverVars, disk, config, orphans, generated, faults>>

AskAfterConflict(p) ==
    /\ Answered(p, "exchange", "conflict")
    /\ Goto(p, "after_conflict", proc[p].mem)
    /\ UNCHANGED <<serverVars, disk, config, orphans, generated, faults>>

(* promoteEnrollment, its Save. *)
PromoteEnrollment(p) ==
    LET m == [proc[p].mem EXCEPT !.endpoint = creds[proc[p].mem.cred].host] IN
    /\ \E s \in {"recover_enrollment", "exchange", "after_conflict"} : Answered(p, s, "ok")
    /\ Save(p, m)
    /\ Goto(p, "clear", m)
    /\ UNCHANGED <<serverVars, config, orphans, generated, faults>>

(* ensureDeviceIdentity of an enrolled device. *)
Validated(p) ==
    /\ Answered(p, "validate", "ok")
    /\ Goto(p, "clear", proc[p].mem)
    /\ UNCHANGED <<serverVars, disk, config, orphans, generated, faults>>

(* clearPersistedBootstrapCredentials *)
ClearBootstrap(p) ==
    /\ proc[p].step = "clear"
    /\ config' = [config EXCEPT ![HostOf[p]] = Nothing]
    /\ Goto(p, "session", proc[p].mem)
    /\ UNCHANGED <<serverVars, disk, orphans, generated, faults>>

(* The session is over: for the service, after its endpoint cycle.  With   *)
(* no id left in the bound Creds there is no rotation.                     *)
EndSession(p) ==
    /\ \/ proc[p].step = "session" /\ (proc[p].goal = "run" \/ Creds \subseteq generated)
       \/ Answered(p, "confirm", "ok")
    /\ Fail(p)
    /\ UNCHANGED <<serverVars, disk, config, orphans, generated, faults>>

(* Mistake: the candidate is sent before it is saved. *)
NewCandidateUnsaved(p, c) ==
    /\ proc[p].step = "session"
    /\ proc[p].goal = "rotate"
    /\ c \notin generated
    /\ generated' = generated \cup {c}
    /\ proc' = [proc EXCEPT ![p].step = "check_current", ![p].mem.candidate = c,
                            ![p].rotating = TRUE]
    /\ UNCHANGED <<serverVars, disk, config, orphans, faults>>

(* rotateDeviceCredential: the candidate is saved before it is sent. *)
NewCandidate(p, c) ==
    LET m == [proc[p].mem EXCEPT !.candidate = c] IN
    /\ proc[p].step = "session"
    /\ proc[p].goal = "rotate"
    /\ c \notin generated
    /\ generated' = generated \cup {c}
    /\ Save(p, m)
    /\ proc' = [proc EXCEPT ![p] = [@ EXCEPT !.step = "check_current", !.mem = m,
                                             !.rotating = TRUE, !.phase = "sent"]]
    /\ UNCHANGED <<serverVars, config, orphans, faults>>

(* reconcilePendingRotation: the current credential still works. *)
AskRotate(p) ==
    /\ Answered(p, "check_current", "ok")
    /\ Goto(p, "rotate", proc[p].mem)
    /\ UNCHANGED <<serverVars, disk, config, orphans, generated, faults>>

(* Mistake: a current credential that fails ends the recovery. *)
NeverAskCandidate(p) ==
    /\ \E s \in {"check_current", "rotate"} : Answered(p, s, "unauthorized")
    /\ Fail(p)
    /\ UNCHANGED <<serverVars, disk, config, orphans, generated, faults>>

(* It does not, or no longer: perhaps the candidate took its place. *)
AskCandidate(p) ==
    /\ \E s \in {"check_current", "rotate"} : Answered(p, s, "unauthorized")
    /\ Goto(p, "check_candidate", proc[p].mem)
    /\ UNCHANGED <<serverVars, disk, config, orphans, generated, faults>>

(* promoteRotation; inside ensureDeviceIdentity the identity is validated  *)
(* next, inside rotateDeviceCredential it is confirmed.                    *)
PromoteRotation(p) ==
    LET m == [proc[p].mem EXCEPT !.cred = proc[p].mem.candidate, !.candidate = Nothing] IN
    /\ \E s \in {"rotate", "check_candidate"} : Answered(p, s, "ok")
    /\ Save(p, m)
    /\ Goto(p, IF proc[p].rotating THEN "confirm" ELSE "validate", m)
    /\ UNCHANGED <<serverVars, config, orphans, generated, faults>>

(* The control plane refused the candidate: it is discarded. *)
DiscardCandidate(p) ==
    /\ Answered(p, "rotate", "conflict")
    /\ Save(p, [proc[p].mem EXCEPT !.candidate = Nothing])
    /\ Fail(p)
    /\ UNCHANGED <<serverVars, config, orphans, generated, faults>>

(* Every other answer is an error. *)
Errors(p) ==
    (CallSteps \X {"mismatch"}) \cup
    ({"validate", "exchange", "after_conflict", "check_candidate", "confirm"}
         \X {"unauthorized"}) \cup
    IF proc[p].token = Nothing THEN {<<"recover_enrollment", "unauthorized">>} ELSE {}

Refused(p) ==
    /\ \E e \in Errors(p) : Answered(p, e[1], e[2])
    /\ Fail(p)
    /\ UNCHANGED <<serverVars, disk, config, orphans, generated, faults>>

AgentStep(p) ==
    \/ Receive(p) \/ Serve(p)
    \/ \E i \in Installs, c \in Creds : Prepare(p, i, c)
    \/ AskExchange(p) \/ AskAfterConflict(p) \/ PromoteEnrollment(p)
    \/ Validated(p) \/ ClearBootstrap(p) \/ EndSession(p)
    \/ \E c \in Creds : NewCandidate(p, c)
    \/ AskRotate(p) \/ AskCandidate(p) \/ PromoteRotation(p) \/ DiscardCandidate(p)
    \/ Refused(p)

IdentityNext ==
    \/ OperatorStep /\ UNCHANGED agentVars
    \/ \E t \in Tokens : CreateToken(t) /\ UNCHANGED agentVars
    \/ \E o \in orphans : ReceiveOrphan(o) \/ ServeOrphan(o)
    \/ \E p \in Procs :
           \/ \E goal \in {"run", "rotate"} : Start(p, goal)
           \/ AgentStep(p)
           \/ GiveUp(p)

IdentitySpec == IdentityInit /\ [][IdentityNext]_identityVars

(* The service's loop starts a cycle again after a delay, whatever ended   *)
(* the last one (runAgent), a process goes on with what it does, and an    *)
(* operator creates the tokens that are in config files.                   *)
FairIdentitySpec ==
    /\ IdentitySpec
    /\ \A p \in Procs : WF_identityVars(AgentStep(p)) /\ WF_identityVars(Start(p, "run"))
    /\ \A t \in Tokens : WF_identityVars(CreateToken(t) /\ UNCHANGED agentVars)

-----------------------------------------------------------------------------
(* Properties *)

(* agent/README.md calls bootstrap and rotation loss-safe: whatever is     *)
(* lost, late or repeated, the active credential of a device's endpoint is *)
(* one that the device's state file holds, as its current credential or as *)
(* its rotation candidate, so the device can always come back              *)
(* (ensureDeviceIdentity, rotateDeviceCredential,                          *)
(* reconcilePendingRotation).                                              *)
DeviceHoldsActiveCredential ==
    \A h \in Hosts : ActiveCreds(h) \subseteq {disk[h].cred, disk[h].candidate}

(* The same for a host on which no agent process is running: whatever the  *)
(* processes did, and in whatever order, the next one can authenticate.    *)
DeviceCanComeBack ==
    \A h \in Hosts :
        (\A p \in Procs : HostOf[p] = h => proc[p].step = "idle") =>
            ActiveCreds(h) \subseteq {disk[h].cred, disk[h].candidate}

(* The ways in which operators, time or another host can have ended host   *)
(* h's attempt to enroll.                                                  *)
EnrollmentBlocked(h) ==
    LET t == ConfigToken[h]
        c == disk[h].cred
    IN \/ /\ tokens[t].revoked \/ tokens[t].expired \/ tokens[t].uses = MaxUses[t]
          /\ \A r \in redemptions : r.host # h
       \/ c # Nothing /\ creds[c].status # "absent" /\ ~Authentic(c)
       \/ <<t, h>> \notin Suits
       \/ endpoints[h].mode = "legacy_shared" /\ <<t, h>> \notin Homes

(* Every host with an enrollment token ends up enrolled, unless an         *)
(* operator, time or another host took away what it needs, although        *)
(* cycles fail and answers are lost (ensureDeviceIdentity, runAgent).      *)
EnrollmentCompletes ==
    \A h \in Hosts : <>(disk[h].endpoint # Nothing \/ EnrollmentBlocked(h))

CutOff(h) == \A c \in ActiveCreds(h) : creds[c].expired

(* A rotation that was begun comes to an end: the candidate is promoted or *)
(* discarded by a later cycle, unless the device was cut off               *)
(* (reconcilePendingRotation).                                             *)
RotationResolves ==
    \A h \in Hosts :
        disk[h].candidate # Nothing ~> (disk[h].candidate = Nothing \/ CutOff(h))
=============================================================================
