\* A grant and its request in the migration to 0007 on SQLite.
SPECIFICATION MigrationSpec
CONSTANTS
    Null = Null
    Starters = {p1}
    Dialects = {"sqlite"}
    Rows = {1}
    Snapshots = {n1}
    Controls <- MCControls
    Statuses = {"pass"}
    Clients = {"c1", "c2"}
    Endpoints = {"e1"}
    EndpointScope <- MCEndpointScope
    FirstRevisions = {6}
    MaxWork = 3
PROPERTIES GrantsKeepTheirRequest
