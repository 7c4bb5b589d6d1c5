\* An installer profile with an enrollment token in the migration to 0009.
SPECIFICATION MigrationSpec
CONSTANTS
    Null = Null
    Starters = {p1}
    Dialects = {"sqlite"}
    Rows = {1}
    Snapshots = {n1}
    Controls <- MCControls
    Statuses = {"pass"}
    Clients = {"c1", "c2"}
    Endpoints = {"e1"}
    EndpointScope <- MCEndpointScope
    FirstRevisions = {8}
    MaxWork = 3
INVARIANTS UpgradeReachesHead
