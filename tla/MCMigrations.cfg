\* Two processes take old databases up and down while rows are added.
SPECIFICATION MigrationSpec
CONSTANTS
    Null = Null
    Starters = {p1, p2}
    Dialects = {"sqlite", "postgresql"}
    Rows = {1}
    Snapshots = {n1}
    Controls <- MCControls
    Statuses = {"pass", "fail"}
    Clients = {"c1", "c2"}
    Endpoints = {"e1", "e2", "e3"}
    EndpointScope <- MCEndpointScope
    FirstRevisions = {0, 6}
    MaxWork = 2
SYMMETRY MCSymmetry
INVARIANTS DatabaseFitsRevision ServingIsCurrent
PROPERTIES EvidenceSurvives
