--------------------------- MODULE MCFleetMetadata ---------------------------
(* Small instances of FleetMetadata: a client with two locations and one   *)
(* with one location, and an endpoint at each.                             *)
EXTENDS FleetMetadata, TLC

TwoClients == {"c1", "c2"}
ThreeLocations == [l1 |-> "c1", l2 |-> "c1", l3 |-> "c2"]
ThreeEndpoints == <<"l1", "l2", "l3">>

Hosts ==
    <<[hostname |-> "Web1", platform |-> "linux"],
      [hostname |-> "Web1", platform |-> Null],
      [hostname |-> "Web1", platform |-> "linux"]>>
Texts == {"Web1", "web1", "web", "linux", "unknown", "IR", "ir", "t1", "t2"}
Fold == [x \in Texts |-> CASE x = "Web1" -> "web1" [] x = "IR" -> "ir" [] OTHER -> x]
Prefixes == {<<"web1", "web">>} \cup {<<x, x>> : x \in Texts}

(* The two filters use every operator between them. *)
Responders ==
    [match |-> "any", rules |-> {[field |-> "tag", op |-> "in", values |-> {"IR"}],
                                 [field |-> "platform", op |-> "neq", values |-> {"linux"}]}]
LinuxWebHosts ==
    [match |-> "all", rules |-> {[field |-> "hostname", op |-> "starts_with", values |-> {"web"}],
                                 [field |-> "hostname", op |-> "contains", values |-> {"web"}],
                                 [field |-> "platform", op |-> "eq", values |-> {"linux"}]}]
TwoFilters == {Responders, LinuxWebHosts}

Everywhere == [role |-> "operator", scope |-> GlobalScope]
AtClient == [role |-> "operator", scope |-> ClientScope("c1")]
AtLocation == [role |-> "operator", scope |-> LocationScope("c1", "l1")]
ScopedBindings == {Everywhere, AtClient, AtLocation}

FleetSymmetry == Permutations(Workers) \cup Permutations(Actors)
=============================================================================
