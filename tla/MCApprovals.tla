----------------------------- MODULE MCApprovals -----------------------------
(* Approvals for TLC: two endpoints of one client and one of another.      *)
EXTENDS Approvals, TLC

MCClientOf == "e1" :> "acme" @@ "e2" :> "acme" @@ "e3" :> "globex"

Hardening ==
    [endpoints |-> {"e1", "e2"}, actions |-> {"apply_control"},
     controls |-> {"c1"}, scopes |-> {}]

(* Refused: it crosses clients. *)
CrossClient == [Hardening EXCEPT !.endpoints = {"e1", "e3"}]

(* Refused: it mixes hardening and troubleshooting. *)
Mixed == [Hardening EXCEPT !.scopes = {"s1"}]

MCAsked == {Hardening, CrossClient, Mixed}

Symmetry == Permutations(Workers) \cup Permutations(RequestIds) \cup Permutations(GrantIds)
=============================================================================
