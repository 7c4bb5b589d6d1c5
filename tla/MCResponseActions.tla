-------------------------- MODULE MCResponseActions --------------------------
(* ResponseActions for TLC: one authority over endpoint e1, two actions it *)
(* can cover and one it does not.                                          *)
EXTENDS ResponseActions, TLC

MCClientOf == [e \in Endpoints |-> "acme"]

Hardening ==
    [endpoints |-> {"e1"}, actions |-> {"apply_control"},
     controls |-> {"c1"}, scopes |-> {}]

MCAsked == {Hardening}

(* Both actions below, so that one key can be used for two different       *)
(* requests that the grant covers.                                         *)
MCAskedBoth ==
    {[Hardening EXCEPT !.actions = {"apply_control", "rollback_control"}]}

ApplyC1 == [action |-> "apply_control", control |-> "c1", scope |-> Nothing]
RollbackC1 == [ApplyC1 EXCEPT !.action = "rollback_control"]

ApplyC2 == [ApplyC1 EXCEPT !.control = "c2"]

MCAskedActions == {ApplyC1, RollbackC1, ApplyC2}

MCDeclared == Endpoints \X MCAskedActions

Symmetry == Permutations(Workers) \cup Permutations(ActionIds) \cup Permutations(Keys)
=============================================================================
