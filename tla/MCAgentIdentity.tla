--------------------------- MODULE MCAgentIdentity ---------------------------
(* AgentIdentity for TLC.                                                  *)
EXTENDS AgentIdentity, TLC

MCMaxUses == [t \in Tokens |-> 1]
MCPolicy == [t \in Tokens |-> "pending"]
MCSuits == Tokens \X Hosts
MCHomes == Tokens \X Hosts

(* Every process runs on the one host h1. *)
MCOneHost == [p \in Procs |-> "h1"]

(* Process p runs on host p. *)
MCOwnHost == [p \in Procs |-> p]

MCConfigToken == [h \in Hosts |-> CHOOSE t \in Tokens : TRUE]
=============================================================================
