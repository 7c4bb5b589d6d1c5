----------------------------- MODULE CycleProofs -----------------------------
(***************************************************************************)
(* Proofs about AgentCycle, for any number of actions, profiles and faults *)
(* and for any timeouts: the agent meets the control plane only through    *)
(* the queue, an attempt holds its lease for as long as it runs, and what  *)
(* the firewall scripts changed can be changed back.                       *)
(***************************************************************************)
EXTENDS AgentCycle, TLAPS

-----------------------------------------------------------------------------
(* Types *)

AgentSteps == {"off", "wait", "identity", "heartbeat", "posture", "claim",
               "answer", "execute", "report"}
Holding == {"answer", "execute", "report"}

Agents == [pc : AgentSteps, status : {"pending", "active"}, action : Nat, attempt : Nat,
           result : Results, due : Nat]
Entries == [status : {"absent", "queued", "leased"} \cup Results, attempt : Nat, expires : Nat]
Pending == [action : ActionIds, attempt : Nat, result : Results]
Artifacts == [state : {"none", "partial", "whole"}, saved : [Profiles -> BOOLEAN]]
Scripts == [step : {"none", "check", "create", "fill", "set", "restore"} \cup Results,
            todo : SUBSET Profiles, ok : BOOLEAN, saved : [Profiles -> BOOLEAN]]

QueueTypeOK ==
    /\ queue \in [ActionIds -> Entries]
    /\ admitted \subseteq Pending
    /\ now \in Nat

LoopTypeOK ==
    /\ endpoint \in {"pending", "active"}
    /\ lapsed \subseteq ActionIds
    /\ agent \in Agents
    /\ agent.pc \in Holding => agent.action \in ActionIds

MachineTypeOK ==
    /\ scripts \in [ActionIds -> Scripts]
    /\ profiles \in [Profiles -> BOOLEAN]
    /\ original \in [Profiles -> BOOLEAN]
    /\ artifact \in Artifacts
    /\ faults \in [Faults -> Nat]

CycleTypeOK == QueueTypeOK /\ LoopTypeOK /\ MachineTypeOK

(* The inductive invariants. *)

(* How much of its lease an attempt may have used when its step times out. *)
Spent == [answer |-> RequestTicks, execute |-> RequestTicks + CommandTicks,
          report |-> RequestTicks + CommandTicks + RequestTicks]

(* The agent's step has not outlasted its timeout, and an attempt's lease  *)
(* was dated no earlier than its timeouts allow.                           *)
LeaseInv ==
    /\ agent.pc \in {"claim"} \cup Holding => now <= agent.due
    /\ agent.pc = "claim" => agent.due <= now + RequestTicks
    /\ agent.pc \in Holding =>
           /\ queue[agent.action].attempt = agent.attempt
           /\ agent.due + LeaseTicks <= queue[agent.action].expires + Spent[agent.pc]

(* Every rollback file was saved, every setting took effect and no agent   *)
(* died without its script.                                                *)
Trusted == \A kind \in Faults \cap {"save", "set", "orphan"} : faults[kind] = 0

(* What each step of a script knows of the rollback file, of the profiles  *)
(* as they are and of those that were found.                               *)
ScriptSound(script, file, current, found) ==
    /\ script.step = "create" => file.state = "none"
    /\ script.step = "fill" => file.state = "partial"
    /\ script.step = "set" => file.state = "whole"
    /\ script.step = "restore" =>
           /\ file.state = "whole"
           /\ script.saved = found
           /\ \A p \in Profiles \ script.todo : current[p] = found[p]

FileSound(file, current, found) ==
    IF file.state = "whole" THEN file.saved = found ELSE current = found

(* One script runs at a time, the file holds what was found once it is     *)
(* whole, and before that nothing has been changed.                        *)
RollbackInv ==
    /\ \A a \in ActionIds : scripts[a].step # "none" => agent.pc = "execute" /\ agent.action = a
    /\ FileSound(artifact, profiles, original)
    /\ \A a \in ActionIds : ScriptSound(scripts[a], artifact, profiles, original)

CycleInv == CycleTypeOK /\ LeaseInv /\ (Trusted => RollbackInv)

-----------------------------------------------------------------------------
(* The states the loop moves between *)

LEMMA Ticks == RequestTicks \in Nat /\ CommandTicks \in Nat /\ LeaseTicks \in Nat
  BY CycleAssumption, QueueAssumption

LEMMA RestTypes ==
    /\ Waiting \in Agents /\ Waiting.pc = "wait"
    /\ Off \in Agents /\ Off.pc = "off"
  BY DEF Waiting, Off, Agents, AgentSteps, Results

LEMMA ScriptTypes ==
    /\ NoArtifact \in Artifacts /\ NoArtifact.state = "none"
    /\ NoScript \in Scripts /\ NoScript.step = "none"
  BY DEF NoArtifact, NoScript, Artifacts, Scripts

LEMMA ReportingFields ==
    ASSUME CycleTypeOK, agent.pc \in Holding, NEW result \in Results
    PROVE  /\ Reporting(result) \in Agents
           /\ Reporting(result).pc = "report"
           /\ Reporting(result).action = agent.action
           /\ Reporting(result).attempt = agent.attempt
           /\ Reporting(result).result = result
           /\ Reporting(result).due = now + RequestTicks
  <1>1. agent \in Agents /\ now + RequestTicks \in Nat
    BY Ticks DEF CycleTypeOK, QueueTypeOK, LoopTypeOK
  <1>2. QED
    BY <1>1 DEF Agents, AgentSteps, Reporting

-----------------------------------------------------------------------------
(* The steps that leave the firewall alone *)

(* Nothing that RollbackInv speaks of has changed. *)
MachineKept ==
    /\ UNCHANGED <<scripts, profiles, original, artifact, faults>>
    /\ agent' = agent \/ agent.pc # "execute"

LEMMA MachineKeptSound ==
    ASSUME CycleInv, MachineKept
    PROVE  MachineTypeOK' /\ (Trusted => RollbackInv)'
  <1>1. MachineTypeOK'
    BY DEF CycleInv, CycleTypeOK, MachineTypeOK, MachineKept
  <1>2. ASSUME Trusted' PROVE RollbackInv'
    <2>1. RollbackInv
      BY <1>2 DEF CycleInv, Trusted, MachineKept
    <2>2. QED
      BY <2>1 DEF RollbackInv, MachineKept
  <1>3. QED
    BY <1>1, <1>2

(* The attempt the agent is at has its lease as before. *)
LeaseKept ==
    /\ \/ UNCHANGED agent
       \/ agent'.pc \notin {"claim"} \cup Holding
    /\ UNCHANGED now
    /\ \A a \in ActionIds : /\ queue'[a].attempt = queue[a].attempt
                            /\ queue'[a].expires = queue[a].expires

LEMMA LeaseKeptSound ==
    ASSUME CycleInv, LeaseKept
    PROVE  LeaseInv'
  BY DEF CycleInv, CycleTypeOK, LoopTypeOK, LeaseKept, LeaseInv

(* The operator, and the handlers of results. *)
LEMMA CreateSound ==
    ASSUME CycleInv, NEW a \in ActionIds, CreateNext(a)
    PROVE  CycleInv'
  <1> USE DEF CreateNext, Create
  <1>1. QueueTypeOK' /\ LoopTypeOK'
    BY DEF CycleInv, CycleTypeOK, QueueTypeOK, Entries, LoopTypeOK
  <1>2. LeaseKept
    BY DEF CycleInv, CycleTypeOK, QueueTypeOK, Entries, LeaseKept
  <1>3. MachineKept
    BY DEF MachineKept, machineVars
  <1>4. QED
    BY <1>1, <1>2, <1>3, LeaseKeptSound, MachineKeptSound DEF CycleInv, CycleTypeOK

LEMMA RecordSound ==
    ASSUME CycleInv, NEW p \in admitted, RecordResult(p)
    PROVE  CycleInv'
  <1> USE DEF RecordResult, Record
  <1>0. p \in Pending
    BY DEF CycleInv, CycleTypeOK, QueueTypeOK
  <1>1. QueueTypeOK' /\ LoopTypeOK'
    BY <1>0 DEF CycleInv, CycleTypeOK, QueueTypeOK, Entries, Pending, LoopTypeOK
  <1>2. LeaseKept
    BY <1>0 DEF CycleInv, CycleTypeOK, QueueTypeOK, Entries, Pending, LeaseKept
  <1>3. MachineKept
    BY DEF MachineKept, machineVars
  <1>4. QED
    BY <1>1, <1>2, <1>3, LeaseKeptSound, MachineKeptSound DEF CycleInv, CycleTypeOK

LEMMA ApproveSound ==
    ASSUME CycleInv, ApproveEndpoint
    PROVE  CycleInv'
  <1> USE DEF ApproveEndpoint, queueVars
  <1>1. QueueTypeOK' /\ LoopTypeOK'
    BY DEF CycleInv, CycleTypeOK, QueueTypeOK, LoopTypeOK
  <1>2. LeaseKept /\ MachineKept
    BY DEF LeaseKept, MachineKept, machineVars
  <1>3. QED
    BY <1>1, <1>2, LeaseKeptSound, MachineKeptSound DEF CycleInv, CycleTypeOK

LEMMA LapseSound ==
    ASSUME CycleInv, NEW a \in ActionIds, GrantLapses(a)
    PROVE  CycleInv'
  <1> USE DEF GrantLapses, queueVars
  <1>1. QueueTypeOK' /\ LoopTypeOK'
    BY DEF CycleInv, CycleTypeOK, QueueTypeOK, LoopTypeOK
  <1>2. LeaseKept /\ MachineKept
    BY DEF LeaseKept, MachineKept, machineVars
  <1>3. QED
    BY <1>1, <1>2, LeaseKeptSound, MachineKeptSound DEF CycleInv, CycleTypeOK

(* Time passes only until the step of an attempt times out. *)
LEMMA TickSound ==
    ASSUME CycleInv, Tick
    PROVE  CycleInv'
  <1> USE DEF Tick, TimePasses
  <1>1. QueueTypeOK' /\ LoopTypeOK'
    BY DEF CycleInv, CycleTypeOK, QueueTypeOK, LoopTypeOK
  <1>2. LeaseInv'
    <2>1. agent' = agent /\ queue' = queue /\ now' = now + 1 /\ now \in Nat /\ agent.due \in Nat
      BY DEF CycleInv, CycleTypeOK, QueueTypeOK, LoopTypeOK, Agents
    <2>2. agent.pc \in {"claim"} \cup Holding => now < agent.due
      BY DEF Holding
    <2>3. agent.pc = "claim" => agent.due <= now' + RequestTicks
      BY <2>1, Ticks DEF CycleInv, LeaseInv
    <2>4. QED
      BY <2>1, <2>2, <2>3 DEF CycleInv, LeaseInv
  <1>3. MachineKept
    BY DEF MachineKept, machineVars
  <1>4. QED
    BY <1>1, <1>2, <1>3, MachineKeptSound DEF CycleInv, CycleTypeOK

-----------------------------------------------------------------------------
(* The loop *)

(* A step to a place where no attempt is under way. *)
LEMMA RestSound ==
    ASSUME CycleInv, UNCHANGED queueVars, UNCHANGED <<endpoint, lapsed>>,
           agent' \in Agents, agent'.pc \notin {"claim"} \cup Holding
    PROVE  QueueTypeOK' /\ LoopTypeOK' /\ LeaseInv'
  <1>1. QueueTypeOK' /\ LoopTypeOK'
    BY DEF CycleInv, CycleTypeOK, QueueTypeOK, LoopTypeOK, queueVars
  <1>2. LeaseKept
    BY DEF LeaseKept, queueVars
  <1>3. QED
    BY <1>1, <1>2, LeaseKeptSound

LEMMA BeforeClaimSound ==
    ASSUME CycleInv, BeginCycle \/ ReadIdentity \/ Heartbeat \/ ClaimNothing
    PROVE  CycleInv'
  <1>1. UNCHANGED queueVars /\ UNCHANGED <<endpoint, lapsed>>
    BY DEF BeginCycle, ReadIdentity, Heartbeat, ClaimNothing, Go
  <1>2. agent' \in Agents /\ agent'.pc \notin {"claim"} \cup Holding
    <2>1. CASE BeginCycle
      BY <2>1, RestTypes DEF BeginCycle, Go, Agents, AgentSteps, Holding
    <2>2. CASE ReadIdentity
      BY <2>2 DEF ReadIdentity, Go, CycleInv, CycleTypeOK, LoopTypeOK, Agents, AgentSteps, Holding
    <2>3. CASE Heartbeat
      <3>1. CASE agent.status = "pending"
        BY <2>3, <3>1, RestTypes DEF Heartbeat, Go, Holding
      <3>2. CASE agent.status # "pending"
        BY <2>3, <3>2 DEF Heartbeat, Go, CycleInv, CycleTypeOK, LoopTypeOK, Agents, AgentSteps,
           Holding
      <3>3. QED
        BY <3>1, <3>2
    <2>4. CASE ClaimNothing
      BY <2>4, RestTypes DEF ClaimNothing, Go, Holding
    <2>5. QED
      BY <2>1, <2>2, <2>3, <2>4
  <1>3. MachineKept
    BY DEF BeginCycle, ReadIdentity, Heartbeat, ClaimNothing, Go, MachineKept, machineVars
  <1>4. QED
    BY <1>1, <1>2, <1>3, RestSound, MachineKeptSound DEF CycleInv, CycleTypeOK

LEMMA SendPostureSound ==
    ASSUME CycleInv, SendPosture
    PROVE  CycleInv'
  <1>1. /\ agent \in Agents /\ now \in Nat /\ now + RequestTicks \in Nat
        /\ agent' = [agent EXCEPT !.pc = "claim", !.due = now + RequestTicks]
    BY Ticks DEF CycleInv, CycleTypeOK, QueueTypeOK, LoopTypeOK, SendPosture, Go
  <1>2. agent' \in Agents /\ agent'.pc = "claim" /\ agent'.due = now + RequestTicks
    BY <1>1 DEF Agents, AgentSteps
  <1>3. UNCHANGED queueVars /\ UNCHANGED <<endpoint, lapsed>> /\ MachineKept
    BY DEF SendPosture, Go, MachineKept, machineVars
  <1>4. QueueTypeOK' /\ LoopTypeOK'
    BY <1>2, <1>3 DEF CycleInv, CycleTypeOK, QueueTypeOK, LoopTypeOK, queueVars, Holding
  <1>5. LeaseInv'
    BY <1>1, <1>2, <1>3, Ticks DEF LeaseInv, queueVars, Holding
  <1>6. QED
    BY <1>3, <1>4, <1>5, MachineKeptSound DEF CycleInv, CycleTypeOK

(* The claim's lease is dated by the handler, after the request was sent. *)
LEMMA ClaimSound ==
    ASSUME CycleInv, NEW a \in ActionIds, Claim(a)
    PROVE  CycleInv'
  <1>1. /\ agent \in Agents /\ now \in Nat /\ now <= agent.due /\ agent.due \in Nat
        /\ queue[a] \in Entries /\ a \in Nat /\ queue \in [ActionIds -> Entries]
    BY CycleAssumption DEF CycleInv, CycleTypeOK, QueueTypeOK, LoopTypeOK, LeaseInv, Claim, Agents
  <1>2. /\ queue' = [queue EXCEPT ![a] = [status |-> "leased", attempt |-> queue[a].attempt + 1,
                                          expires |-> now + LeaseTicks]]
        /\ admitted' = admitted /\ now' = now
    BY DEF Claim, Lease
  <1>3. /\ queue'[a].attempt = queue[a].attempt + 1
        /\ queue'[a].expires = now + LeaseTicks
        /\ queue'[a].attempt \in Nat
        /\ QueueTypeOK'
    BY <1>1, <1>2, Ticks DEF CycleInv, CycleTypeOK, QueueTypeOK, Entries
  <1>4. agent' = [agent EXCEPT !.pc = "answer", !.action = a, !.attempt = queue'[a].attempt]
    BY DEF Claim, Go
  <1>5. /\ agent' \in Agents /\ agent'.pc = "answer" /\ agent'.action = a
        /\ agent'.attempt = queue'[a].attempt /\ agent'.due = agent.due
    BY <1>1, <1>3, <1>4 DEF Agents, AgentSteps
  <1>6. LoopTypeOK' /\ MachineKept
    BY <1>5 DEF Claim, Go, CycleInv, CycleTypeOK, LoopTypeOK, MachineKept, machineVars
  <1>7. LeaseInv'
    <2>1. now' <= agent'.due
      BY <1>1, <1>2, <1>5
    <2>2. agent'.due + LeaseTicks <= queue'[agent'.action].expires + Spent[agent'.pc]
      <3>1. agent.due <= now + RequestTicks
        BY DEF CycleInv, LeaseInv, Claim
      <3>2. QED
        BY <3>1, <1>1, <1>3, <1>5, Ticks DEF Spent
    <2>3. QED
      BY <2>1, <2>2, <1>5 DEF LeaseInv
  <1>8. QED
    BY <1>3, <1>6, <1>7, MachineKeptSound DEF CycleInv, CycleTypeOK

(* The result is ready: the report has what the command left of the lease. *)
LEMMA ReportingSound ==
    ASSUME CycleInv, agent.pc \in {"answer", "execute"}, NEW result \in Results,
           agent' = Reporting(result), UNCHANGED queueVars, UNCHANGED <<endpoint, lapsed>>
    PROVE  QueueTypeOK' /\ LoopTypeOK' /\ LeaseInv'
  <1>1. agent.pc \in Holding /\ CycleTypeOK
    BY DEF Holding, CycleInv
  <1>2. /\ agent' \in Agents /\ agent'.pc = "report" /\ agent'.action = agent.action
        /\ agent'.attempt = agent.attempt /\ agent'.due = now + RequestTicks
    BY <1>1, ReportingFields
  <1>3. QueueTypeOK' /\ LoopTypeOK'
    BY <1>1, <1>2 DEF CycleTypeOK, QueueTypeOK, LoopTypeOK, queueVars
  <1>4. LeaseInv'
    <2>1. /\ now \in Nat /\ agent.due \in Nat /\ agent.action \in ActionIds
          /\ queue[agent.action].expires \in Nat
      BY <1>1 DEF CycleTypeOK, QueueTypeOK, LoopTypeOK, Agents, Entries
    <2>2. /\ now <= agent.due
          /\ agent.due + LeaseTicks
                 <= queue[agent.action].expires + RequestTicks + CommandTicks
      BY <1>1, <2>1, Ticks DEF CycleInv, LeaseInv, Spent
    <2>3. now + RequestTicks + LeaseTicks <= queue[agent.action].expires + Spent["report"]
      BY <2>1, <2>2, Ticks DEF Spent
    <2>4. now <= agent'.due
      BY <1>2, <2>1, Ticks
    <2>5. QED
      BY <1>1, <1>2, <2>3, <2>4 DEF CycleInv, LeaseInv, queueVars
  <1>5. QED
    BY <1>3, <1>4

LEMMA ExecuteAtOnceSound ==
    ASSUME CycleInv, ExecuteUnsupported \/ ExecuteLinuxRollback
    PROVE  CycleInv'
  <1>1. PICK result \in Results : agent' = Reporting(result)
    BY DEF ExecuteUnsupported, ExecuteLinuxRollback, Go, Results
  <1>2. agent.pc \in {"answer", "execute"} /\ UNCHANGED queueVars /\ UNCHANGED <<endpoint, lapsed>>
    BY DEF ExecuteUnsupported, ExecuteLinuxRollback, Go
  <1>3. MachineKept
    BY DEF ExecuteUnsupported, ExecuteLinuxRollback, Go, MachineKept, machineVars
  <1>4. QED
    BY <1>1, <1>2, <1>3, ReportingSound, MachineKeptSound DEF CycleInv, CycleTypeOK

(* The script of the agent's action starts or is gone; no other runs. *)
LEMMA OwnScriptSound ==
    ASSUME CycleInv, NEW a \in ActionIds, NEW script \in Scripts,
           scripts' = [scripts EXCEPT ![a] = script],
           UNCHANGED <<profiles, original, artifact, faults>>,
           \/ agent.pc = "answer" /\ script.step = "check" /\ agent'.pc = "execute"
           \/ agent.pc = "execute" /\ script.step = "none",
           agent.action = a /\ agent'.action = a
    PROVE  MachineTypeOK' /\ (Trusted => RollbackInv)'
  <1>1. MachineTypeOK'
    BY DEF CycleInv, CycleTypeOK, MachineTypeOK
  <1>2. ASSUME Trusted' PROVE RollbackInv'
    <2>1. RollbackInv
      BY <1>2 DEF CycleInv, Trusted
    <2>2. /\ scripts'[a] = script
          /\ \A b \in ActionIds \ {a} : scripts'[b] = scripts[b] /\ scripts[b].step = "none"
      BY <2>1 DEF RollbackInv, CycleInv, CycleTypeOK, MachineTypeOK
    <2>3. \A b \in ActionIds : scripts'[b].step # "none" =>
              agent'.pc = "execute" /\ agent'.action = b
      BY <2>2
    <2>4. \A b \in ActionIds : ScriptSound(scripts'[b], artifact, profiles, original)
      BY <2>2 DEF ScriptSound
    <2>5. QED
      BY <2>1, <2>3, <2>4 DEF RollbackInv
  <1>3. QED
    BY <1>1, <1>2

LEMMA ExecuteScriptSound ==
    ASSUME CycleInv, ExecuteScript
    PROVE  CycleInv'
  <1>1. /\ agent \in Agents /\ now \in Nat /\ now + CommandTicks \in Nat
        /\ agent' = [agent EXCEPT !.pc = "execute", !.due = now + CommandTicks]
        /\ agent.pc = "answer" /\ agent.action \in ActionIds /\ agent.due \in Nat
        /\ queue[agent.action].expires \in Nat
    BY Ticks DEF CycleInv, CycleTypeOK, QueueTypeOK, LoopTypeOK, ExecuteScript, Holding, Agents,
       Entries
  <1>2. /\ agent' \in Agents /\ agent'.pc = "execute" /\ agent'.due = now + CommandTicks
        /\ agent'.action = agent.action /\ agent'.attempt = agent.attempt
    BY <1>1 DEF Agents, AgentSteps
  <1>3. UNCHANGED queueVars /\ UNCHANGED <<endpoint, lapsed>>
    BY DEF ExecuteScript
  <1>4. QueueTypeOK' /\ LoopTypeOK'
    BY <1>1, <1>2, <1>3 DEF CycleInv, CycleTypeOK, QueueTypeOK, LoopTypeOK, queueVars
  <1>5. LeaseInv'
    <2>1. /\ now <= agent.due
          /\ agent.due + LeaseTicks <= queue[agent.action].expires + RequestTicks
          /\ queue[agent.action].attempt = agent.attempt
      BY <1>1 DEF CycleInv, LeaseInv, Spent, Holding
    <2>2. /\ now <= now + CommandTicks
          /\ now + CommandTicks + LeaseTicks <= queue[agent.action].expires + Spent["execute"]
      BY <1>1, <2>1, Ticks DEF Spent
    <2>3. QED
      BY <1>2, <1>3, <2>1, <2>2 DEF LeaseInv, queueVars
  <1>6. MachineTypeOK' /\ (Trusted => RollbackInv)'
    <2> DEFINE script == [NoScript EXCEPT !.step = "check"]
    <2>1. script \in Scripts /\ script.step = "check"
      BY ScriptTypes DEF Scripts
    <2>2. /\ scripts' = [scripts EXCEPT ![agent.action] = script]
          /\ UNCHANGED <<profiles, original, artifact, faults>>
      BY DEF ExecuteScript, machineVars
    <2> HIDE DEF script
    <2>3. QED
      BY <1>1, <1>2, <2>1, <2>2, OwnScriptSound
  <1>7. QED
    BY <1>4, <1>5, <1>6 DEF CycleInv, CycleTypeOK

LEMMA ScriptGoneSound ==
    ASSUME CycleInv, ScriptEnded \/ KillScript
    PROVE  CycleInv'
  <1>1. PICK result \in Results : agent' = Reporting(result)
    BY DEF ScriptEnded, KillScript, Results
  <1>2. /\ agent.pc = "execute" /\ UNCHANGED queueVars /\ UNCHANGED <<endpoint, lapsed>>
        /\ agent.pc \in {"answer", "execute"}
    BY DEF ScriptEnded, KillScript
  <1>3. /\ scripts' = [scripts EXCEPT ![agent.action] = NoScript]
        /\ UNCHANGED <<profiles, original, artifact, faults>>
    BY DEF ScriptEnded, KillScript, machineVars
  <1>4. agent.action \in ActionIds /\ agent'.action = agent.action
    BY <1>1, <1>2, ReportingFields DEF CycleInv, CycleTypeOK, LoopTypeOK, Holding
  <1>5. MachineTypeOK' /\ (Trusted => RollbackInv)'
    BY <1>2, <1>3, <1>4, ScriptTypes, OwnScriptSound
  <1>6. QED
    BY <1>1, <1>2, <1>5, ReportingSound DEF CycleInv, CycleTypeOK

LEMMA ReportSound ==
    ASSUME CycleInv, ReportResult
    PROVE  CycleInv'
  <1>1. /\ agent.pc = "report" /\ agent \in Agents /\ agent.action \in ActionIds
        /\ agent' = Waiting /\ UNCHANGED <<endpoint, lapsed, queue, now>>
    BY DEF CycleInv, CycleTypeOK, LoopTypeOK, ReportResult, Go, Admit, queueVars, Holding
  <1>2. admitted' \subseteq Pending
    BY <1>1 DEF CycleInv, CycleTypeOK, QueueTypeOK, ReportResult, Admit, queueVars, Pending, Agents
  <1>3. QueueTypeOK' /\ LoopTypeOK'
    BY <1>1, <1>2, RestTypes DEF CycleInv, CycleTypeOK, QueueTypeOK, LoopTypeOK, Holding
  <1>4. LeaseKept
    BY <1>1, RestTypes DEF LeaseKept, Holding
  <1>5. MachineKept
    BY <1>1 DEF ReportResult, Go, MachineKept, machineVars
  <1>6. QED
    BY <1>3, <1>4, <1>5, LeaseKeptSound, MachineKeptSound DEF CycleInv, CycleTypeOK

-----------------------------------------------------------------------------
(* The scripts *)

(* A script moves on: as long as no fault spoils it, it is the only one,   *)
(* and it need only keep the file and itself sound.                        *)
LEMMA AdvanceSound ==
    ASSUME CycleInv, NEW a \in ActionIds, scripts[a].step # "none",
           NEW script \in Scripts, Advance(a, script),
           artifact' \in Artifacts, profiles' \in [Profiles -> BOOLEAN],
           faults' \in [Faults -> Nat], Trusted' => Trusted,
           Trusted' /\ FileSound(artifact, profiles, original)
           /\ ScriptSound(scripts[a], artifact, profiles, original)
               => /\ FileSound(artifact', profiles', original)
                  /\ ScriptSound(script, artifact', profiles', original)
    PROVE  CycleInv'
  <1>1. /\ UNCHANGED <<queue, admitted, now, endpoint, lapsed, agent, original>>
        /\ scripts' = [scripts EXCEPT ![a] = script]
    BY DEF Advance, queueVars
  <1>2. CycleTypeOK'
    BY <1>1 DEF CycleInv, CycleTypeOK, QueueTypeOK, LoopTypeOK, MachineTypeOK
  <1>3. LeaseInv'
    BY <1>1 DEF CycleInv, LeaseInv
  <1>4. ASSUME Trusted' PROVE RollbackInv'
    <2>1. RollbackInv
      BY <1>4 DEF CycleInv
    <2>2. /\ scripts'[a] = script
          /\ \A b \in ActionIds \ {a} : scripts'[b] = scripts[b] /\ scripts[b].step = "none"
          /\ agent.pc = "execute" /\ agent.action = a
      BY <1>1, <2>1 DEF RollbackInv, CycleInv, CycleTypeOK, MachineTypeOK
    <2>3. /\ FileSound(artifact', profiles', original)
          /\ ScriptSound(script, artifact', profiles', original)
      BY <1>4, <2>1 DEF RollbackInv
    <2>4. \A b \in ActionIds : ScriptSound(scripts'[b], artifact', profiles', original)
      BY <2>2, <2>3 DEF ScriptSound
    <2>5. QED
      BY <1>1, <2>2, <2>3, <2>4 DEF RollbackInv
  <1>5. QED
    BY <1>2, <1>3, <1>4 DEF CycleInv

LEMMA CheckArtifactSound ==
    ASSUME CycleInv, NEW a \in ActionIds, CheckArtifact(a)
    PROVE  CycleInv'
  <1> DEFINE next == IF Commands[a] = "apply_control"
                     THEN IF artifact.state = "none" THEN "create" ELSE "failed"
                     ELSE IF artifact.state = "whole" THEN "restore" ELSE "failed"
             script == [NoScript EXCEPT !.step = next, !.todo = Profiles,
                                        !.saved = artifact.saved]
  <1>1. /\ Advance(a, script) /\ scripts[a].step = "check"
        /\ UNCHANGED <<profiles, artifact, faults>>
    BY DEF CheckArtifact
  <1>2. /\ next \in {"failed", "create", "restore"}
        /\ next = "create" => artifact.state = "none"
        /\ next = "restore" => artifact.state = "whole"
    OBVIOUS
  <1>3. MachineTypeOK
    BY DEF CycleInv, CycleTypeOK
  <1> HIDE DEF next
  <1>4. /\ script \in Scripts /\ script.step = next /\ script.todo = Profiles
        /\ script.saved = artifact.saved
    BY <1>2, <1>3, ScriptTypes DEF Scripts, Results, MachineTypeOK, Artifacts
  <1> HIDE DEF script
  <1>5. FileSound(artifact, profiles, original) => ScriptSound(script, artifact, profiles, original)
    BY <1>2, <1>4 DEF FileSound, ScriptSound
  <1>6. QED
    BY <1>1, <1>3, <1>4, <1>5, AdvanceSound DEF MachineTypeOK, Trusted

LEMMA WriteArtifactSound ==
    ASSUME CycleInv, NEW a \in ActionIds, CreateArtifact(a) \/ FillArtifact(a)
    PROVE  CycleInv'
  <1>1. MachineTypeOK
    BY DEF CycleInv, CycleTypeOK
  <1>2. CASE CreateArtifact(a)
    <2> DEFINE script == [scripts[a] EXCEPT !.step = "fill"]
    <2>1. /\ Advance(a, script) /\ scripts[a].step = "create"
          /\ UNCHANGED <<profiles, faults>>
          /\ artifact' = [NoArtifact EXCEPT !.state = "partial"]
      BY <1>2 DEF CreateArtifact
    <2>2. script \in Scripts /\ script.step = "fill"
      BY <1>1 DEF Scripts, MachineTypeOK
    <2>3. artifact' \in Artifacts /\ artifact'.state = "partial"
      BY <2>1, ScriptTypes DEF Artifacts
    <2> HIDE DEF script
    <2>4. FileSound(artifact, profiles, original)
          /\ ScriptSound(scripts[a], artifact, profiles, original)
              => /\ FileSound(artifact', profiles', original)
                 /\ ScriptSound(script, artifact', profiles', original)
      BY <2>1, <2>2, <2>3 DEF FileSound, ScriptSound
    <2>5. QED
      BY <1>1, <2>1, <2>2, <2>3, <2>4, AdvanceSound DEF MachineTypeOK, Trusted
  <1>3. CASE FillArtifact(a)
    <2> DEFINE script == [scripts[a] EXCEPT !.step = "set"]
    <2>1. /\ Advance(a, script) /\ scripts[a].step = "fill"
          /\ UNCHANGED <<profiles, faults>>
          /\ artifact' = [state |-> "whole", saved |-> profiles]
      BY <1>3 DEF FillArtifact
    <2>2. script \in Scripts /\ script.step = "set"
      BY <1>1 DEF Scripts, MachineTypeOK
    <2>3. artifact' \in Artifacts /\ artifact'.state = "whole" /\ artifact'.saved = profiles
      BY <1>1, <2>1 DEF Artifacts, MachineTypeOK
    <2> HIDE DEF script
    <2>4. FileSound(artifact, profiles, original)
          /\ ScriptSound(scripts[a], artifact, profiles, original)
              => /\ FileSound(artifact', profiles', original)
                 /\ ScriptSound(script, artifact', profiles', original)
      BY <2>1, <2>2, <2>3 DEF FileSound, ScriptSound
    <2>5. QED
      BY <1>1, <2>1, <2>2, <2>3, <2>4, AdvanceSound DEF MachineTypeOK, Trusted
  <1>4. QED
    BY <1>2, <1>3

LEMMA SetProfileSound ==
    ASSUME CycleInv, NEW a \in ActionIds, NEW p \in Profiles, SetProfile(a, p)
    PROVE  CycleInv'
  <1> DEFINE script == [scripts[a] EXCEPT !.todo = @ \ {p}]
             value == scripts[a].step = "set" \/ scripts[a].saved[p]
  <1>1. MachineTypeOK
    BY DEF CycleInv, CycleTypeOK
  <1>2. /\ Advance(a, script) /\ scripts[a].step \in {"set", "restore"}
        /\ profiles' = [profiles EXCEPT ![p] = value]
        /\ UNCHANGED <<artifact, faults>>
    BY DEF SetProfile
  <1>3. /\ script \in Scripts /\ script.step = scripts[a].step
        /\ script.saved = scripts[a].saved /\ script.todo = scripts[a].todo \ {p}
    BY <1>1 DEF Scripts, MachineTypeOK
  <1>4. profiles' \in [Profiles -> BOOLEAN]
    BY <1>1, <1>2 DEF MachineTypeOK, Scripts
  <1>5. scripts[a].step = "restore" => value = scripts[a].saved[p]
    BY <1>1 DEF MachineTypeOK, Scripts
  <1> HIDE DEF script, value
  <1>6. FileSound(artifact, profiles, original)
        /\ ScriptSound(scripts[a], artifact, profiles, original)
            => /\ FileSound(artifact', profiles', original)
               /\ ScriptSound(script, artifact', profiles', original)
    BY <1>1, <1>2, <1>3, <1>5 DEF FileSound, ScriptSound, MachineTypeOK
  <1>7. QED
    BY <1>1, <1>2, <1>3, <1>4, <1>6, AdvanceSound DEF MachineTypeOK, Trusted

(* A save or a setting that fails ends all trust. *)
LEMMA HappensSound ==
    ASSUME CycleInv, NEW kind, Happens(kind)
    PROVE  /\ faults' \in [Faults -> Nat]
           /\ Trusted' => Trusted
           /\ kind \in {"save", "set", "orphan"} => ~Trusted'
  <1>1. /\ kind \in Faults /\ faults \in [Faults -> Nat]
        /\ faults' = [faults EXCEPT ![kind] = faults[kind] + 1]
    BY DEF Happens, CycleInv, CycleTypeOK, MachineTypeOK
  <1>2. /\ faults' \in [Faults -> Nat]
        /\ faults'[kind] # 0
        /\ \A k \in Faults : faults'[k] = 0 => faults[k] = 0
    BY <1>1
  <1>3. QED
    BY <1>1, <1>2 DEF Trusted

LEMMA SaveFailsSound ==
    ASSUME CycleInv, NEW a \in ActionIds, SaveFails(a)
    PROVE  CycleInv'
  <1> DEFINE script == [scripts[a] EXCEPT !.step = "set"]
  <1>1. MachineTypeOK
    BY DEF CycleInv, CycleTypeOK
  <1>2. /\ Advance(a, script) /\ scripts[a].step \in {"create", "fill"}
        /\ UNCHANGED <<artifact, profiles>>
    BY DEF SaveFails
  <1>3. script \in Scripts
    BY <1>1 DEF Scripts, MachineTypeOK
  <1>4. faults' \in [Faults -> Nat] /\ ~Trusted'
    BY HappensSound DEF SaveFails
  <1> HIDE DEF script
  <1>5. QED
    BY <1>1, <1>2, <1>3, <1>4, AdvanceSound DEF MachineTypeOK

(* A script that throws leaves the machine as it is. *)
LEMMA FileFailsSound ==
    ASSUME CycleInv, NEW a \in ActionIds, CheckFails(a) \/ RemoveFails(a)
    PROVE  CycleInv'
  <1> DEFINE script == [scripts[a] EXCEPT !.step = "failed"]
  <1>1. MachineTypeOK
    BY DEF CycleInv, CycleTypeOK
  <1>2. /\ Advance(a, script) /\ scripts[a].step # "none"
        /\ UNCHANGED <<artifact, profiles>>
    BY DEF CheckFails, RemoveFails
  <1>3. script \in Scripts /\ script.step = "failed"
    BY <1>1 DEF Scripts, MachineTypeOK, Results
  <1>4. faults' \in [Faults -> Nat] /\ (Trusted' => Trusted)
    BY HappensSound DEF CheckFails, RemoveFails
  <1> HIDE DEF script
  <1>5. ScriptSound(script, artifact', profiles', original)
    BY <1>3 DEF ScriptSound
  <1>6. QED
    BY <1>1, <1>2, <1>3, <1>4, <1>5, AdvanceSound DEF MachineTypeOK

LEMMA SetFailsSound ==
    ASSUME CycleInv, NEW a \in ActionIds, NEW p \in Profiles, SetFails(a, p)
    PROVE  CycleInv'
  <1> DEFINE script == [scripts[a] EXCEPT !.todo = @ \ {p}, !.ok = FALSE]
  <1>1. MachineTypeOK
    BY DEF CycleInv, CycleTypeOK
  <1>2. /\ Advance(a, script) /\ scripts[a].step \in {"set", "restore"}
        /\ UNCHANGED <<artifact, profiles>>
    BY DEF SetFails
  <1>3. script \in Scripts
    BY <1>1 DEF Scripts, MachineTypeOK
  <1>4. faults' \in [Faults -> Nat] /\ ~Trusted'
    BY HappensSound DEF SetFails
  <1> HIDE DEF script
  <1>5. QED
    BY <1>1, <1>2, <1>3, <1>4, AdvanceSound DEF MachineTypeOK

LEMMA EndScriptSound ==
    ASSUME CycleInv, NEW a \in ActionIds, EndApply(a) \/ EndRollback(a)
    PROVE  CycleInv'
  <1>1. MachineTypeOK
    BY DEF CycleInv, CycleTypeOK
  <1>2. CASE EndApply(a)
    <2> DEFINE next == IF scripts[a].ok THEN "succeeded" ELSE "failed"
               script == [scripts[a] EXCEPT !.step = next]
    <2>1. /\ Advance(a, script) /\ scripts[a].step = "set"
          /\ UNCHANGED <<profiles, artifact, faults>>
      BY <1>2 DEF EndApply
    <2>2. script \in Scripts /\ script.step \in Results
      BY <1>1 DEF Scripts, MachineTypeOK, Results
    <2> HIDE DEF next, script
    <2>3. ScriptSound(script, artifact', profiles', original)
      BY <2>2 DEF ScriptSound, Results
    <2>4. QED
      BY <1>1, <2>1, <2>2, <2>3, AdvanceSound DEF MachineTypeOK, Trusted
  <1>3. CASE EndRollback(a)
    <2> DEFINE script == [scripts[a] EXCEPT !.step = "succeeded"]
    <2>1. /\ Advance(a, script) /\ scripts[a].step = "restore" /\ scripts[a].todo = {}
          /\ UNCHANGED <<profiles, faults>> /\ artifact' = NoArtifact
      BY <1>3 DEF EndRollback
    <2>2. script \in Scripts /\ script.step = "succeeded"
      BY <1>1 DEF Scripts, MachineTypeOK, Results
    <2>3. artifact' \in Artifacts /\ artifact'.state = "none"
      BY <2>1, ScriptTypes
    <2> HIDE DEF script
    <2>4. ScriptSound(script, artifact', profiles', original)
      BY <2>2 DEF ScriptSound
    <2>5. ScriptSound(scripts[a], artifact, profiles, original) => profiles = original
      BY <1>1, <2>1 DEF ScriptSound, MachineTypeOK
    <2>6. QED
      BY <1>1, <2>1, <2>2, <2>3, <2>4, <2>5, AdvanceSound DEF MachineTypeOK, Trusted, FileSound
  <1>4. QED
    BY <1>2, <1>3

-----------------------------------------------------------------------------
(* What goes wrong *)

LEMMA LoseRequestSound ==
    ASSUME CycleInv, LoseRequest
    PROVE  CycleInv'
  <1>1. /\ agent' = Waiting /\ UNCHANGED queueVars /\ UNCHANGED <<endpoint, lapsed>>
        /\ UNCHANGED <<scripts, profiles, original, artifact>> /\ agent.pc # "execute"
    BY DEF LoseRequest, Fault, machineVars
  <1>2. faults' \in [Faults -> Nat] /\ (Trusted' => Trusted)
    BY HappensSound DEF LoseRequest, Fault
  <1>3. QueueTypeOK' /\ LoopTypeOK' /\ LeaseInv'
    BY <1>1, RestTypes, RestSound DEF Holding
  <1>4. MachineTypeOK' /\ (Trusted' => RollbackInv')
    BY <1>1, <1>2 DEF CycleInv, CycleTypeOK, MachineTypeOK, RollbackInv
  <1>5. QED
    BY <1>3, <1>4 DEF CycleInv, CycleTypeOK

LEMMA HandlerFaultSound ==
    ASSUME CycleInv, NEW p \in admitted, LoseResult(p) \/ StallResult(p)
    PROVE  CycleInv'
  <1>1. /\ admitted' \subseteq admitted
        /\ UNCHANGED <<queue, now, endpoint, lapsed, agent, scripts, profiles, original, artifact>>
    BY DEF LoseResult, StallResult, Fault, Withdraw, machineVars, queueVars
  <1>2. faults' \in [Faults -> Nat] /\ (Trusted' => Trusted)
    BY HappensSound DEF LoseResult, StallResult, Fault
  <1>3. QueueTypeOK' /\ LoopTypeOK' /\ LeaseInv'
    BY <1>1 DEF CycleInv, CycleTypeOK, QueueTypeOK, LoopTypeOK, LeaseInv
  <1>4. MachineTypeOK' /\ (Trusted' => RollbackInv')
    BY <1>1, <1>2 DEF CycleInv, CycleTypeOK, MachineTypeOK, RollbackInv
  <1>5. QED
    BY <1>3, <1>4 DEF CycleInv, CycleTypeOK

(* A reboot takes every script with it, wherever it was. *)
LEMMA RebootSound ==
    ASSUME CycleInv, Reboot
    PROVE  CycleInv'
  <1>1. /\ agent' = Off /\ UNCHANGED queueVars /\ UNCHANGED <<endpoint, lapsed>>
        /\ scripts' = [a \in ActionIds |-> NoScript]
        /\ UNCHANGED <<profiles, original, artifact>>
    BY DEF Reboot, Fault, machineVars
  <1>2. faults' \in [Faults -> Nat] /\ (Trusted' => Trusted)
    BY HappensSound DEF Reboot, Fault
  <1>3. QueueTypeOK' /\ LoopTypeOK' /\ LeaseInv'
    BY <1>1, RestTypes, RestSound DEF Holding
  <1>4. MachineTypeOK'
    BY <1>1, <1>2, ScriptTypes DEF CycleInv, CycleTypeOK, MachineTypeOK
  <1>5. ASSUME Trusted' PROVE RollbackInv'
    <2>1. FileSound(artifact, profiles, original)
      BY <1>2, <1>5 DEF CycleInv, RollbackInv
    <2>2. \A a \in ActionIds : scripts'[a].step = "none"
      BY <1>1, ScriptTypes
    <2>3. QED
      BY <1>1, <2>1, <2>2 DEF RollbackInv, ScriptSound
  <1>6. QED
    BY <1>3, <1>4, <1>5 DEF CycleInv, CycleTypeOK

LEMMA AgentDiesSound ==
    ASSUME CycleInv, AgentDies
    PROVE  CycleInv'
  <1>1. /\ agent' = Off /\ UNCHANGED queueVars /\ UNCHANGED <<endpoint, lapsed>>
        /\ UNCHANGED <<scripts, profiles, original, artifact>>
    BY DEF AgentDies, Fault, machineVars
  <1>2. faults' \in [Faults -> Nat] /\ ~Trusted'
    BY HappensSound DEF AgentDies, Fault
  <1>3. QueueTypeOK' /\ LoopTypeOK' /\ LeaseInv'
    BY <1>1, RestTypes, RestSound DEF Holding
  <1>4. MachineTypeOK'
    BY <1>1, <1>2 DEF CycleInv, CycleTypeOK, MachineTypeOK
  <1>5. QED
    BY <1>2, <1>3, <1>4 DEF CycleInv, CycleTypeOK

-----------------------------------------------------------------------------
(* Every step *)

LEMMA CycleStart == CycleInit => CycleInv
  <1> SUFFICES ASSUME CycleInit PROVE CycleInv
    OBVIOUS
  <1>1. QueueTypeOK
    BY DEF CycleInit, QueueInit, QueueTypeOK, Entries
  <1>2. LoopTypeOK /\ LeaseInv
    BY RestTypes DEF CycleInit, LoopTypeOK, LeaseInv, Holding
  <1>3. MachineTypeOK
    BY ScriptTypes DEF CycleInit, MachineTypeOK
  <1>4. RollbackInv
    <2>1. \A a \in ActionIds : scripts[a].step = "none"
      BY ScriptTypes DEF CycleInit
    <2>2. FileSound(artifact, profiles, original)
      BY ScriptTypes DEF CycleInit, FileSound
    <2>3. QED
      BY <2>1, <2>2 DEF RollbackInv, ScriptSound
  <1>5. QED
    BY <1>1, <1>2, <1>3, <1>4 DEF CycleInv, CycleTypeOK

LEMMA AgentStepSound ==
    ASSUME CycleInv, AgentStep
    PROVE  CycleInv'
  <1>1. CASE BeginCycle \/ ReadIdentity \/ Heartbeat \/ ClaimNothing
    BY <1>1, BeforeClaimSound
  <1>2. CASE SendPosture
    BY <1>2, SendPostureSound
  <1>3. CASE \E a \in ActionIds : Claim(a)
    BY <1>3, ClaimSound
  <1>4. CASE ExecuteUnsupported \/ ExecuteLinuxRollback
    BY <1>4, ExecuteAtOnceSound
  <1>5. CASE ExecuteScript
    BY <1>5, ExecuteScriptSound
  <1>6. CASE ScriptEnded
    BY <1>6, ScriptGoneSound
  <1>7. CASE ReportResult
    BY <1>7, ReportSound
  <1>8. QED
    BY <1>1, <1>2, <1>3, <1>4, <1>5, <1>6, <1>7 DEF AgentStep

LEMMA ScriptStepSound ==
    ASSUME CycleInv, NEW a \in ActionIds, ScriptStep(a)
    PROVE  CycleInv'
  BY CheckArtifactSound, WriteArtifactSound, SaveFailsSound, FileFailsSound, SetProfileSound,
     SetFailsSound, EndScriptSound
     DEF ScriptStep

LEMMA CycleStep ==
    ASSUME CycleInv, [CycleNext]_cycleVars
    PROVE  CycleInv'
  <1>1. CASE UNCHANGED cycleVars
    <2>1. UNCHANGED <<queue, admitted, now, endpoint, lapsed, agent, scripts, profiles,
                      original, artifact, faults>>
      BY <1>1 DEF cycleVars, queueVars, machineVars
    <2>2. CycleTypeOK'
      BY <2>1 DEF CycleInv, CycleTypeOK, QueueTypeOK, LoopTypeOK, MachineTypeOK
    <2>3. LeaseInv'
      BY <2>1 DEF CycleInv, LeaseInv
    <2>4. (Trusted => RollbackInv)'
      BY <2>1 DEF CycleInv, Trusted, RollbackInv
    <2>5. QED
      BY <2>2, <2>3, <2>4 DEF CycleInv
  <1>2. CASE \E a \in ActionIds : CreateNext(a) \/ GrantLapses(a) \/ ScriptStep(a)
    BY <1>2, CreateSound, LapseSound, ScriptStepSound
  <1>3. CASE ApproveEndpoint \/ Tick
    BY <1>3, ApproveSound, TickSound
  <1>4. CASE \E p \in admitted : RecordResult(p) \/ LoseResult(p) \/ StallResult(p)
    BY <1>4, RecordSound, HandlerFaultSound
  <1>5. CASE AgentStep
    BY <1>5, AgentStepSound
  <1>6. CASE KillScript
    BY <1>6, ScriptGoneSound
  <1>7. CASE LoseRequest \/ Reboot \/ AgentDies
    BY <1>7, LoseRequestSound, RebootSound, AgentDiesSound
  <1>8. QED
    BY <1>1, <1>2, <1>3, <1>4, <1>5, <1>6, <1>7 DEF CycleNext

LEMMA CycleInvHolds == CycleSpec => []CycleInv
  BY CycleStart, CycleStep, PTL DEF CycleSpec

-----------------------------------------------------------------------------
(* The theorems *)

(* The agent, its scripts and every fault meet the control plane only in   *)
(* steps of the abstract queue, which ResponseActions implements: what the *)
(* queue promises holds of the whole system (runOnce against               *)
(* claim_endpoint_response_action and complete_response_action).           *)
THEOREM CycleKeepsQueue == CycleSpec => QueueSpec
  <1>1. CycleInit => QueueInit
    BY DEF CycleInit
  <1>2. ASSUME CycleInv, [CycleNext]_cycleVars
        PROVE  [QueueNext]_queueVars
    <2>1. CASE UNCHANGED queueVars
      BY <2>1
    <2>2. ASSUME NEW a \in ActionIds, CreateNext(a)
          PROVE  QueueNext
      BY <2>2 DEF CreateNext, QueueNext
    <2>3. CASE Tick
      BY <2>3 DEF Tick, QueueNext
    <2>4. ASSUME NEW p \in admitted, RecordResult(p) \/ LoseResult(p) \/ StallResult(p)
          PROVE  QueueNext \/ UNCHANGED queueVars
      BY <2>4 DEF RecordResult, LoseResult, StallResult, QueueNext
    <2>5. ASSUME NEW a \in ActionIds, Claim(a)
          PROVE  QueueNext
      <3>1. now \in 0 .. now
        BY <1>2 DEF CycleInv, CycleTypeOK, QueueTypeOK
      <3>2. QED
        BY <2>5, <3>1 DEF Claim, QueueNext
    <2>6. CASE ReportResult
      <3>1. SUFFICES ASSUME Accepts(agent.action, agent.attempt)
                     PROVE  QueueNext
        BY <2>6 DEF ReportResult
      <3>2. /\ agent.action \in ActionIds /\ agent.result \in Results
            /\ agent.attempt \in 0 .. queue[agent.action].attempt
        BY <1>2, <2>6, <3>1 DEF CycleInv, CycleTypeOK, QueueTypeOK, LoopTypeOK, Agents,
           ReportResult, Accepts, Holding, Entries
      <3>3. Admit(agent.action, agent.attempt, agent.result)
        BY <2>6, <3>1 DEF ReportResult
      <3>4. QED
        BY <3>2, <3>3 DEF QueueNext
    <2>7. CASE AgentStep
      BY <2>1, <2>5, <2>6, <2>7 DEF AgentStep, BeginCycle, ReadIdentity, Heartbeat, SendPosture,
         ClaimNothing, ExecuteUnsupported, ExecuteLinuxRollback, ExecuteScript, ScriptEnded
    <2>8. ASSUME NEW a \in ActionIds, GrantLapses(a) \/ ScriptStep(a)
          PROVE  UNCHANGED queueVars
      BY <2>8 DEF GrantLapses, ScriptStep, CheckArtifact, CheckFails, CreateArtifact,
         FillArtifact, SaveFails, SetProfile, SetFails, EndApply, EndRollback, RemoveFails,
         Advance
    <2>9. CASE ApproveEndpoint \/ KillScript \/ LoseRequest \/ Reboot \/ AgentDies
      BY <2>1, <2>9 DEF ApproveEndpoint, KillScript, LoseRequest, Reboot, AgentDies
    <2>10. QED
      BY <1>2, <2>1, <2>2, <2>3, <2>4, <2>7, <2>8, <2>9 DEF CycleNext, cycleVars
  <1>3. QED
    BY <1>1, <1>2, CycleInvHolds, PTL DEF CycleSpec, QueueSpec

(* Two requests and a command, each at its timeout, fit into a lease: 120  *)
(* seconds against 30 for each (_LEASE_SECONDS, newHTTPClient,             *)
(* runCommandWithContext).                                                 *)
TimeoutsFitLease == RequestTicks + CommandTicks + RequestTicks < LeaseTicks

(* With timeouts that fit, an attempt holds its lease until its result has *)
(* been sent, whatever is lost, stalls or restarts, so that an action that *)
(* is being executed is never handed out again.                            *)
THEOREM LeaseCoversExecutionAlways ==
    ASSUME TimeoutsFitLease
    PROVE  CycleSpec => []LeaseCoversExecution
  <1>1. CycleInv => LeaseCoversExecution
    <2> SUFFICES ASSUME CycleInv, agent.pc \in Holding
                 PROVE  /\ queue[agent.action].attempt = agent.attempt
                        /\ queue[agent.action].expires > now
      BY DEF LeaseCoversExecution, Holding
    <2>1. /\ now \in Nat /\ agent.due \in Nat /\ queue[agent.action].expires \in Nat
          /\ agent.pc \in {"answer", "execute", "report"}
      BY DEF CycleInv, CycleTypeOK, QueueTypeOK, LoopTypeOK, Agents, Entries, Holding
    <2>2. Spent[agent.pc] \in Nat /\ Spent[agent.pc] < LeaseTicks
      BY <2>1, Ticks DEF Spent, TimeoutsFitLease
    <2>3. QED
      BY <2>1, <2>2, Ticks DEF CycleInv, LeaseInv
  <1>2. QED
    BY <1>1, CycleInvHolds, PTL

(* Wherever a script was killed or threw, whatever was lost and whatever   *)
(* was delivered twice, the rollback file holds what SHA found as soon as  *)
(* the firewall differs from it, as long as a file that is saved is saved  *)
(* whole, settings take effect and no script outlives its agent            *)
(* (applyWindowsFirewallAllProfiles, rollbackWindowsFirewallAllProfiles).  *)
THEOREM RollbackPossibleAlways == CycleSpec => []RollbackPossible
  <1>1. CycleInv => RollbackPossible
    <2> SUFFICES ASSUME CycleInv, Trusted, profiles # original
                 PROVE  artifact = [state |-> "whole", saved |-> original]
      BY DEF RollbackPossible, ChangeIsReversible, Trusted
    <2>1. artifact.state = "whole" /\ artifact.saved = original
      BY DEF CycleInv, RollbackInv, FileSound
    <2>2. artifact \in Artifacts
      BY DEF CycleInv, CycleTypeOK, MachineTypeOK
    <2>3. QED
      BY <2>1, <2>2 DEF Artifacts
  <1>2. QED
    BY <1>1, CycleInvHolds, PTL
=============================================================================
