----------------------------- MODULE ActionQueue -----------------------------
(***************************************************************************)
(* What the delivery of response actions promises an endpoint: an action   *)
(* is leased to one holder at a time, every lease is a new attempt, and a  *)
(* result is recorded only if its attempt held the action when the result  *)
(* was admitted.                                                           *)
(*                                                                         *)
(* It is the abstract specification of ResponseActions, which implements   *)
(* it (QueueImplemented there), and the control plane of AgentCycle.  It   *)
(* has no workers, keys or transactions, and no grants: that a lease needs *)
(* a live grant is ResponseActions' own promise (NoLateLease there), and   *)
(* AgentCycle asks for one beside Free.  Two things the queue does not     *)
(* promise, because the code does not: a lease may be dated earlier than   *)
(* it is handed out, and a result admitted in time may be recorded when    *)
(* its attempt no longer holds the action.                                 *)
(***************************************************************************)
EXTENDS Naturals

CONSTANTS
    ActionIds,    \* response action ids, each created at most once
    LeaseTicks    \* _LEASE_SECONDS

ASSUME QueueAssumption == LeaseTicks \in Nat \ {0}

VARIABLES
    queue,        \* of each action: its status, its attempts, its lease's end
    admitted,     \* the results that passed their checks and are not yet recorded
    now           \* the time utc_now() reads, in ticks

queueVars == <<queue, admitted, now>>

Results == {"succeeded", "failed"}

QueueInit ==
    /\ queue = [a \in ActionIds |-> [status |-> "absent", attempt |-> 0, expires |-> 0]]
    /\ admitted = {}
    /\ now = 0

TimePasses ==
    /\ now' = now + 1
    /\ UNCHANGED <<queue, admitted>>

Create(a) ==
    /\ queue[a].status = "absent"
    /\ queue' = [queue EXCEPT ![a].status = "queued"]
    /\ UNCHANGED <<admitted, now>>

(* Mistake: a lease is for ever. *)
FreeOnce(a, t) == queue[a].status = "queued"

Free(a, t) ==
    \/ queue[a].status = "queued"
    \/ queue[a].status = "leased" /\ queue[a].expires <= t

(* A claim that read the clock at time t gets action a. *)
Lease(a, t) ==
    /\ t <= now
    /\ Free(a, t)
    /\ queue' = [queue EXCEPT ![a] = [status |-> "leased", attempt |-> @.attempt + 1,
                                      expires |-> t + LeaseTicks]]
    /\ UNCHANGED <<admitted, now>>

(* The result of attempt n is checked while n holds the action. *)
Admit(a, n, result) ==
    /\ queue[a].status = "leased"
    /\ queue[a].attempt = n
    /\ admitted' = admitted \cup {[action |-> a, attempt |-> n, result |-> result]}
    /\ UNCHANGED <<queue, now>>

(* An admitted result leaves the set, unless the same report was admitted  *)
(* twice and one of the two is still on its way.                           *)
Leaves(p) == admitted' \in {admitted, admitted \ {p}}

Record(p) ==
    /\ p \in admitted
    /\ queue' = [queue EXCEPT ![p.action].status = p.result]
    /\ Leaves(p)
    /\ UNCHANGED now

(* The transaction that would have recorded it fails. *)
Withdraw(p) ==
    /\ p \in admitted
    /\ Leaves(p)
    /\ UNCHANGED <<queue, now>>

QueueNext ==
    \/ TimePasses
    \/ \E a \in ActionIds :
           \/ Create(a)
           \/ \E t \in 0 .. now : Lease(a, t)
           \/ \E n \in 0 .. queue[a].attempt, result \in Results : Admit(a, n, result)
    \/ \E p \in admitted : Record(p) \/ Withdraw(p)

QueueSpec == QueueInit /\ [][QueueNext]_queueVars
=============================================================================
