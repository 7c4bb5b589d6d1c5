----------------------------- MODULE MCAgentCycle -----------------------------
(* AgentCycle for TLC: 1 tick is 30 seconds. *)
EXTENDS AgentCycle

ApplyAndRollback == <<"apply_control", "rollback_control">>
OneOfEach == <<"apply_control", "rollback_control", "inspect_control">>
=============================================================================
