------------------------------ MODULE AgentCycle ------------------------------
(***************************************************************************)
(* The agent's service loop and its executors (agent/cmd/sha-agent), run   *)
(* against the control plane of module ActionQueue: identity, heartbeat,   *)
(* posture, claim, execution, result, and again.                           *)
(*                                                                         *)
(* On Windows an action is a PowerShell script, a process of its own that  *)
(* the agent waits for and kills after 30 seconds.  Its statements that    *)
(* change the machine are steps of their own: it can end between any two.  *)
(* The agent has its device identity already, so its endpoint is in device *)
(* mode and approved at most once.  Nothing but SHA changes the firewall,  *)
(* and the answer to a result is left out, since the agent does the same   *)
(* whatever it says: it waits and begins the next cycle.                   *)
(***************************************************************************)
EXTENDS ActionQueue, Functions

CONSTANTS
    Commands,      \* the action of each response action, created in the order of their ids
    Profiles,      \* the firewall profiles
    RequestTicks,  \* the HTTP client's timeout
    CommandTicks,  \* runCommandWithContext's timeout
    Faults,        \* what may go wrong
    MaxFaults,     \* bound on how often
    MaxAttempts    \* bound on the claims of one action

ASSUME CycleAssumption ==
    /\ ActionIds \subseteq Nat
    /\ Commands \in [ActionIds -> {"apply_control", "rollback_control", "inspect_control"}]
    /\ {RequestTicks, CommandTicks, MaxFaults, MaxAttempts} \subseteq Nat
    /\ Faults \subseteq {"lost", "stall", "reboot", "orphan", "set", "save", "file"}

VARIABLES
    endpoint,      \* endpoints.status
    lapsed,        \* the actions whose grant was revoked or has expired
    agent,         \* the loop: where it is, the action it has, when its step times out
    scripts,       \* the PowerShell process of each action
    platform,      \* windows or linux
    profiles,      \* which profiles are enabled
    original,      \* which were when SHA first saw the machine
    artifact,      \* the rollback file
    sshFile,       \* whether the legacy hardening file is there, unchanged
    stalled,       \* the admitted results whose handlers do not move
    faults,        \* how often each thing has gone wrong
    done           \* the actions whose executor once ran to its end (for the properties)

machineVars == <<platform, profiles, original, artifact, sshFile>>
cycleVars == <<queueVars, endpoint, lapsed, agent, scripts, machineVars, stalled, faults, done>>

Waiting == [pc |-> "wait", status |-> "pending", action |-> 0, attempt |-> 0,
            result |-> "failed", due |-> 0]
Off == [Waiting EXCEPT !.pc = "off"]

NoArtifact == [state |-> "none", saved |-> [p \in Profiles |-> FALSE]]
NoScript == [step |-> "none", todo |-> {}, ok |-> TRUE, saved |-> NoArtifact.saved]

CycleInit ==
    /\ QueueInit
    /\ endpoint \in {"pending", "active"}
    /\ lapsed = {}
    /\ agent = Off
    /\ scripts = [a \in ActionIds |-> NoScript]
    /\ platform \in {"windows", "linux"}
    /\ profiles \in [Profiles -> BOOLEAN]
    /\ original = profiles
    /\ artifact = NoArtifact
    /\ sshFile = (platform = "linux")
    /\ stalled = {}
    /\ faults = [kind \in Faults |-> 0]
    /\ done = {}

Happens(kind) ==
    /\ kind \in Faults
    /\ SumFunction(faults) < MaxFaults
    /\ faults' = [faults EXCEPT ![kind] = @ + 1]

-----------------------------------------------------------------------------
(* Around the agent: the operator, the clock, the handlers. *)

CreateNext(a) ==
    /\ \A b \in ActionIds : b < a => queue[b].status # "absent"
    /\ Create(a)
    /\ UNCHANGED <<endpoint, lapsed, agent, scripts, machineVars, stalled, faults, done>>

ApproveEndpoint ==
    /\ endpoint = "pending"
    /\ endpoint' = "active"
    /\ UNCHANGED <<queueVars, lapsed, agent, scripts, machineVars, stalled, faults, done>>

(* The grant of an action is revoked, or reaches its expiry.  That is of   *)
(* interest only while the action is free.                                 *)
GrantLapses(a) ==
    /\ Free(a, now) /\ a \notin lapsed
    /\ lapsed' = lapsed \cup {a}
    /\ UNCHANGED <<queueVars, endpoint, agent, scripts, machineVars, stalled, faults, done>>

(* A request and a command last at most as long as their timeouts, and a   *)
(* handler stalls only as a fault.  Time is of interest only while a lease *)
(* is alive, and the requests that no lease depends on take theirs from    *)
(* the wait before them.                                                   *)
Tick ==
    /\ \E a \in ActionIds : queue[a].status = "leased" /\ queue[a].expires > now
    /\ \/ agent.pc \in {"off", "wait"}
       \/ agent.pc \in {"claim", "answer", "execute", "report"} /\ now < agent.due
    /\ admitted \subseteq stalled
    /\ TimePasses
    /\ UNCHANGED <<endpoint, lapsed, agent, scripts, machineVars, stalled, faults, done>>

RecordResult(p) ==
    /\ Record(p)
    /\ admitted' = admitted \ {p}
    /\ stalled' = stalled \ {p}
    /\ UNCHANGED <<endpoint, lapsed, agent, scripts, machineVars, faults, done>>

-----------------------------------------------------------------------------
(* The loop. *)

Go(next) ==
    /\ agent' = next
    /\ UNCHANGED <<endpoint, lapsed, scripts, machineVars, stalled, faults, done>>

(* The service starts, or its wait ends: runAgent calls runOnce. *)
BeginCycle ==
    /\ agent.pc \in {"off", "wait"}
    /\ Go([Waiting EXCEPT !.pc = "identity"])
    /\ UNCHANGED queueVars

(* ensureDeviceIdentity answers with the endpoint's status. *)
ReadIdentity ==
    /\ agent.pc = "identity"
    /\ Go([agent EXCEPT !.pc = "heartbeat", !.status = endpoint])
    /\ UNCHANGED queueVars

(* A pending endpoint sends its heartbeat and nothing else. *)
Heartbeat ==
    /\ agent.pc = "heartbeat"
    /\ Go(IF agent.status = "pending" THEN Waiting ELSE [agent EXCEPT !.pc = "posture"])
    /\ UNCHANGED queueVars

SendPosture ==
    /\ agent.pc = "posture"
    /\ Go([agent EXCEPT !.pc = "claim", !.due = now + RequestTicks])
    /\ UNCHANGED queueVars

(* Free, and its grant is approved and has not expired. *)
Offered(a, t) == Free(a, t) /\ a \notin lapsed

Oldest(a, t) == Offered(a, t) /\ \A b \in ActionIds : Offered(b, t) => a <= b

(* The claim is handled: it leases the oldest action offered, or none. *)
Claim(a) ==
    /\ agent.pc = "claim"
    /\ Oldest(a, now)
    /\ queue[a].attempt < MaxAttempts
    /\ Lease(a, now)
    /\ Go([agent EXCEPT !.pc = "answer", !.action = a, !.attempt = queue'[a].attempt])

ClaimNothing ==
    /\ agent.pc = "claim"
    /\ ~\E a \in ActionIds : Offered(a, now)
    /\ Go(Waiting)
    /\ UNCHANGED queueVars

Reporting(result) ==
    [agent EXCEPT !.pc = "report", !.result = result, !.due = now + RequestTicks]

(* executeAction of an action this platform does not implement. *)
ExecuteUnsupported ==
    /\ agent.pc = "answer"
    /\ \/ Commands[agent.action] = "inspect_control"
       \/ Commands[agent.action] = "apply_control" /\ platform = "linux"
    /\ Go(Reporting("failed"))
    /\ UNCHANGED queueVars

(* rollbackLegacyGoSSHHardening: the file is read, compared, removed. *)
ExecuteLinuxRollback ==
    /\ agent.pc = "answer"
    /\ Commands[agent.action] = "rollback_control" /\ platform = "linux"
    /\ agent' = Reporting(IF sshFile THEN "succeeded" ELSE "failed")
    /\ sshFile' = FALSE
    /\ done' = IF sshFile THEN done \cup {agent.action} ELSE done
    /\ UNCHANGED <<queueVars, endpoint, lapsed, scripts, platform, profiles, original, artifact, stalled, faults>>

(* Mistake: the command may take as long as it likes. *)
ExecuteUntimed ==
    /\ agent.pc = "answer"
    /\ Commands[agent.action] # "inspect_control" /\ platform = "windows"
    /\ agent' = [agent EXCEPT !.pc = "execute", !.due = now + LeaseTicks]
    /\ scripts' = [scripts EXCEPT ![agent.action] = [NoScript EXCEPT !.step = "check"]]
    /\ UNCHANGED <<queueVars, endpoint, lapsed, machineVars, stalled, faults, done>>

(* The script starts.  One left behind by an earlier attempt has ended: it *)
(* had the rest of a lease's life to do so.                                *)
ExecuteScript ==
    /\ agent.pc = "answer"
    /\ Commands[agent.action] # "inspect_control" /\ platform = "windows"
    /\ scripts[agent.action].step \in {"none"} \cup Results
    /\ agent' = [agent EXCEPT !.pc = "execute", !.due = now + CommandTicks]
    /\ scripts' = [scripts EXCEPT ![agent.action] = [NoScript EXCEPT !.step = "check"]]
    /\ UNCHANGED <<queueVars, endpoint, lapsed, machineVars, stalled, faults, done>>

ScriptEnded ==
    /\ agent.pc = "execute"
    /\ scripts[agent.action].step \in Results
    /\ agent' = Reporting(scripts[agent.action].step)
    /\ scripts' = [scripts EXCEPT ![agent.action] = NoScript]
    /\ UNCHANGED <<queueVars, endpoint, lapsed, machineVars, stalled, faults, done>>

(* runCommandWithContext kills the script; executeAction returns "failed". *)
KillScript ==
    /\ agent.pc = "execute"
    /\ now = agent.due
    /\ scripts[agent.action].step \notin Results
    /\ agent' = Reporting("failed")
    /\ scripts' = [scripts EXCEPT ![agent.action] = NoScript]
    /\ UNCHANGED <<queueVars, endpoint, lapsed, machineVars, stalled, faults, done>>

Accepts(a, n) == queue[a].status = "leased" /\ queue[a].attempt = n /\ queue[a].expires > now

ReportResult ==
    /\ agent.pc = "report"
    /\ IF Accepts(agent.action, agent.attempt)
       THEN Admit(agent.action, agent.attempt, agent.result)
       ELSE UNCHANGED queueVars
    /\ Go(Waiting)

AgentStep ==
    \/ BeginCycle \/ ReadIdentity \/ Heartbeat \/ SendPosture
    \/ \E a \in ActionIds : Claim(a)
    \/ ClaimNothing
    \/ ExecuteUnsupported \/ ExecuteLinuxRollback \/ ExecuteScript
    \/ ScriptEnded
    \/ ReportResult

-----------------------------------------------------------------------------
(* The scripts.  They set no $ErrorActionPreference: a command that fails  *)
(* reports a non-terminating error and the script goes on, unless it tests *)
(* what came of it and throws.                                             *)

Advance(a, next) ==
    /\ scripts' = [scripts EXCEPT ![a] = next]
    /\ UNCHANGED <<queueVars, endpoint, lapsed, agent, platform, original, sshFile, stalled>>

(* Mistake: an artifact that exists is overwritten. *)
CheckArtifactForRollback(a) ==
    /\ scripts[a].step = "check"
    /\ LET next == IF Commands[a] = "apply_control" THEN "create"
                   ELSE IF artifact.state = "whole" THEN "restore" ELSE "failed"
       IN Advance(a, [NoScript EXCEPT !.step = next, !.todo = Profiles,
                                      !.saved = artifact.saved])
    /\ UNCHANGED <<profiles, artifact, faults, done>>

(* apply refuses to overwrite an artifact; rollback needs one that parses  *)
(* into the three profiles.                                                *)
CheckArtifact(a) ==
    /\ scripts[a].step = "check"
    /\ LET next == IF Commands[a] = "apply_control"
                   THEN IF artifact.state = "none" THEN "create" ELSE "failed"
                   ELSE IF artifact.state = "whole" THEN "restore" ELSE "failed"
       IN Advance(a, [NoScript EXCEPT !.step = next, !.todo = Profiles,
                                      !.saved = artifact.saved])
    /\ UNCHANGED <<profiles, artifact, faults, done>>

(* What comes before throws: the directory cannot be secured, the owner    *)
(* cannot be told, the artifact cannot be read.                            *)
CheckFails(a) ==
    /\ Happens("file")
    /\ scripts[a].step = "check"
    /\ Advance(a, [scripts[a] EXCEPT !.step = "failed"])
    /\ UNCHANGED <<profiles, artifact, done>>

(* Set-Content creates the file and then writes what it was piped. *)
CreateArtifact(a) ==
    /\ scripts[a].step = "create"
    /\ artifact' = [NoArtifact EXCEPT !.state = "partial"]
    /\ Advance(a, [scripts[a] EXCEPT !.step = "fill"])
    /\ UNCHANGED <<profiles, faults, done>>

FillArtifact(a) ==
    /\ scripts[a].step = "fill"
    /\ artifact' = [state |-> "whole", saved |-> profiles]
    /\ Advance(a, [scripts[a] EXCEPT !.step = "set"])
    /\ UNCHANGED <<profiles, faults, done>>

(* Set-Content cannot create the file or write all of it, or               *)
(* Get-NetFirewallProfile has nothing or not all to pipe to it: nothing    *)
(* tests for that, and the profiles are set with what there is on disk.    *)
SaveFails(a) ==
    /\ Happens("save")
    /\ scripts[a].step \in {"create", "fill"}
    /\ Advance(a, [scripts[a] EXCEPT !.step = "set"])
    /\ UNCHANGED <<profiles, artifact, done>>

(* Set-NetFirewallProfile, on one of the profiles that are left. *)
SetProfile(a, p) ==
    /\ scripts[a].step \in {"set", "restore"}
    /\ p \in scripts[a].todo
    /\ profiles' = [profiles EXCEPT ![p] = scripts[a].step = "set" \/ scripts[a].saved[p]]
    /\ Advance(a, [scripts[a] EXCEPT !.todo = @ \ {p}])
    /\ UNCHANGED <<artifact, faults, done>>

SetFails(a, p) ==
    /\ Happens("set")
    /\ scripts[a].step \in {"set", "restore"}
    /\ p \in scripts[a].todo
    /\ Advance(a, [scripts[a] EXCEPT !.todo = @ \ {p}, !.ok = FALSE])
    /\ UNCHANGED <<profiles, artifact, done>>

(* The exit status is that of the last statement: for apply the setting,   *)
(* for rollback the removal of the artifact.                               *)
EndApply(a) ==
    /\ scripts[a].step = "set" /\ scripts[a].todo = {}
    /\ Advance(a, [scripts[a] EXCEPT !.step = IF scripts[a].ok THEN "succeeded" ELSE "failed"])
    /\ done' = IF scripts[a].ok THEN done \cup {a} ELSE done
    /\ UNCHANGED <<profiles, artifact, faults>>

EndRollback(a) ==
    /\ scripts[a].step = "restore" /\ scripts[a].todo = {}
    /\ artifact' = NoArtifact
    /\ Advance(a, [scripts[a] EXCEPT !.step = "succeeded"])
    /\ done' = done \cup {a}
    /\ UNCHANGED <<profiles, faults>>

(* Remove-Item is the last statement. *)
RemoveFails(a) ==
    /\ Happens("file")
    /\ scripts[a].step = "restore" /\ scripts[a].todo = {}
    /\ Advance(a, [scripts[a] EXCEPT !.step = "failed"])
    /\ UNCHANGED <<profiles, artifact, done>>

ScriptStep(a) ==
    \/ CheckArtifact(a) \/ CheckFails(a)
    \/ CreateArtifact(a) \/ FillArtifact(a) \/ SaveFails(a)
    \/ \E p \in Profiles : SetProfile(a, p) \/ SetFails(a, p)
    \/ EndApply(a)
    \/ EndRollback(a) \/ RemoveFails(a)

-----------------------------------------------------------------------------
(* What goes wrong. *)

Fault(kind) ==
    /\ Happens(kind)
    /\ UNCHANGED <<endpoint, lapsed, machineVars, done>>

(* A request does not arrive, or its answer does not; runAgent waits. *)
LoseRequest ==
    /\ Fault("lost")
    /\ agent.pc \in {"identity", "heartbeat", "posture", "claim", "answer", "report"}
    /\ agent' = Waiting
    /\ UNCHANGED <<queueVars, scripts, stalled>>

(* The handler that would record a result fails. *)
LoseResult(p) ==
    /\ Fault("lost")
    /\ Withdraw(p)
    /\ admitted' = admitted \ {p}
    /\ stalled' = stalled \ {p}
    /\ UNCHANGED <<agent, scripts>>

(* It has made its checks and takes its time to write. *)
StallResult(p) ==
    /\ Fault("stall")
    /\ p \notin stalled
    /\ stalled' = stalled \cup {p}
    /\ UNCHANGED <<queueVars, agent, scripts>>

(* The machine goes down, or the service is stopped: its context is        *)
(* cancelled, which kills the script and fails every request.              *)
Reboot ==
    /\ Fault("reboot")
    /\ agent' = Off
    /\ scripts' = [a \in ActionIds |-> NoScript]
    /\ UNCHANGED <<queueVars, stalled>>

(* The agent's process ends alone; Windows lets its script run on. *)
AgentDies ==
    /\ Fault("orphan")
    /\ agent.pc # "off"
    /\ agent' = Off
    /\ UNCHANGED <<queueVars, scripts, stalled>>

CycleNext ==
    \/ \E a \in ActionIds : CreateNext(a) \/ GrantLapses(a) \/ ScriptStep(a)
    \/ ApproveEndpoint
    \/ Tick
    \/ \E p \in admitted : RecordResult(p) \/ LoseResult(p) \/ StallResult(p)
    \/ AgentStep
    \/ KillScript
    \/ LoseRequest \/ Reboot \/ AgentDies

(* The service manager keeps the agent running and its loop never ends, a  *)
(* script and a handler go on, and time passes: every wait between cycles  *)
(* takes some, so no cycle repeats for ever at one time.  Operators owe    *)
(* nothing.                                                                *)
CycleFairness ==
    /\ WF_cycleVars(AgentStep)
    /\ WF_cycleVars(\E a \in ActionIds : ScriptStep(a))
    /\ WF_cycleVars(\E p \in admitted : RecordResult(p))
    /\ SF_cycleVars(Tick)

CycleSpec == CycleInit /\ [][CycleNext]_cycleVars /\ CycleFairness
-----------------------------------------------------------------------------
(* Properties *)

(* What SHA changed it can change back: whenever the firewall differs from *)
(* what SHA found, the rollback file holds what it found                   *)
(* (applyWindowsFirewallAllProfiles, rollbackWindowsFirewallAllProfiles).  *)
(* README.md: one reversible hardening action, with rollback.              *)
ChangeIsReversible ==
    profiles # original => artifact = [state |-> "whole", saved |-> original]

(* That holds wherever a script was killed, whatever was lost, whatever    *)
(* was delivered twice and whichever check or removal of the file failed,  *)
(* as long as what is saved is saved whole, Set-NetFirewallProfile does    *)
(* what it is told and no script outlives its agent.                       *)
RollbackPossible ==
    (\A kind \in Faults \cap {"save", "set", "orphan"} : faults[kind] = 0)
        => ChangeIsReversible

(* An attempt holds its lease until its result has been sent: the claim's  *)
(* answer, the command and the result, each at its timeout, fit into one   *)
(* lease, so an action that is being executed is never handed out again    *)
(* (_LEASE_SECONDS, runCommandWithContext, the HTTP client's timeout).     *)
LeaseCoversExecution ==
    agent.pc \in {"answer", "execute", "report"} =>
        /\ queue[agent.action].attempt = agent.attempt
        /\ queue[agent.action].expires > now

(* Every action asked of an approved endpoint is settled in the end, over  *)
(* lost requests and answers, lost results and reboots, unless its grant   *)
(* lapses before: an action whose attempt came to nothing is delivered     *)
(* again when its lease has run out, as long as its grant is alive         *)
(* (runAgent, claim_endpoint_response_action).                             *)
EveryActionFinishes ==
    \A a \in ActionIds :
        queue[a].status = "queued" /\ endpoint = "active"
            ~> queue[a].status \in Results \/ a \in lapsed

(* docs/architecture/current-runtime-contract.md: implemented mutations    *)
(* must remain idempotent, so an action that has taken effect is not       *)
(* recorded as failed because it was delivered a second time               *)
(* (executeAction).                                                        *)
RedeliveryIsIdempotent ==
    \A a \in done : queue[a].status # "failed"
=============================================================================
