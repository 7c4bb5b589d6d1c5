\* A report between the SELECTs of 0004 and the lock of 0005 on PostgreSQL.
SPECIFICATION MigrationSpec
CONSTANTS
    Null = Null
    Starters = {p1}
    Dialects = {"postgresql"}
    Rows = {1}
    Snapshots = {n1}
    Controls <- MCControls
    Statuses = {"pass"}
    Clients = {"c1", "c2"}
    Endpoints = {"e1"}
    EndpointScope <- MCEndpointScope
    FirstRevisions = {2}
    MaxWork = 1
INVARIANTS NoOldNameLeft
