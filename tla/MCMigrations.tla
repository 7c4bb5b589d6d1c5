---------------------------- MODULE MCMigrations ----------------------------
EXTENDS Migrations, TLC

(* Two endpoints of one client in two locations and one of another client. *)
MCEndpointScope ==
    [e \in Endpoints |-> IF e = "e1" THEN [client |-> "c1", location |-> "l1"]
                         ELSE IF e = "e2" THEN [client |-> "c1", location |-> "l2"]
                         ELSE [client |-> "c2", location |-> "l3"]]

MCSymmetry == Permutations(Starters)

(* Two old names of one control, and its name.                             *)
MCControls ==
    {"windows.firewall.all-profiles-enabled", "windows.firewall.all_profiles",
     "control.windows.firewall-all-profiles"}
=============================================================================
