--------------------------- MODULE MigrationProofs ---------------------------
(***************************************************************************)
(* Theorems about the database's revisions, for every number of programs   *)
(* that start, every set of endpoints, clients, approvals, snapshots,      *)
(* controls and outcomes, and any first revision.                          *)
(***************************************************************************)
EXTENDS Migrations, TLAPS, FiniteSetTheorems

-----------------------------------------------------------------------------
(* What a database of a revision holds.  Each part is about a few columns, *)
(* so that a step is looked at only where it changes something.            *)

Columns ==
    {"rev", "macos", "snapshots", "results", "missed", "unseen", "requests", "events", "grants", "actions",
     "endpoints", "profiles", "tokens", "devices", "protocol", "security", "fleet", "catalog"}

PostureFits(rev, snapshots, results, missed) ==
    /\ snapshots \subseteq Snapshots
    /\ \A r \in results : DOMAIN r = {"snapshot", "control", "status"} /\ r.snapshot \in snapshots
    /\ \A r, o \in results : r.snapshot = o.snapshot /\ r.control = o.control => r = o
    /\ rev >= 4 => \A r \in results : r.control \in OldNames => r.control \in missed[r.snapshot]

(* A row of approval_requests or approval_grants, and its scope. *)
RowFits(a, endpoints) ==
    /\ DOMAIN a = {"is", "targets", "scope"}
    /\ a.is = "absent" => a = Absent
    /\ a.targets \subseteq Endpoints
    /\ a.scope \in Scopes
    /\ a.scope.state = "active" =>
           /\ a.targets # {} /\ a.targets \subseteq endpoints
           /\ \A e \in a.targets :
                  /\ EndpointScope[e].client = a.scope.client
                  /\ a.scope.location # Null => EndpointScope[e].location = a.scope.location

RequestsFit(rev, requests, endpoints) ==
    /\ DOMAIN requests = Rows
    /\ \A i \in Rows : /\ RowFits(requests[i], endpoints)
                       /\ requests[i].is \in {"absent", "there"}
                       /\ requests[i].is = "there" =>
                             (rev >= 7 <=> requests[i].scope.state # "none")

GrantsFit(grants, endpoints) ==
    /\ DOMAIN grants = Rows
    /\ \A i \in Rows : RowFits(grants[i], endpoints) /\ grants[i].is \in {"absent", "linked", "unlinked"}

EventsFit(events, requests) == events \subseteq {i \in Rows : requests[i].is = "there"}

ActionsFit(rev, actions) ==
    /\ DOMAIN actions = Rows
    /\ \A i \in Rows : actions[i] \in {"absent", "queued", "leased"}
    /\ rev < 3 => \A i \in Rows : actions[i] # "leased"

ProfilesFit(rev, profiles) ==
    /\ DOMAIN profiles = Clients
    /\ rev < 5 => Cardinality({c \in Clients : profiles[c] # "absent"}) <= 1
    /\ rev < 9 => \A c \in Clients : profiles[c] # "go_agent"

LaterFits(rev, tokens, devices, protocol, security, fleet) ==
    /\ rev < 6 => tokens = {} /\ ~devices
    /\ rev < 7 => ~security
    /\ rev < 8 => ~fleet
    /\ rev < 9 => ~protocol

CatalogFits(rev, catalog) ==
    catalog = IF rev >= 8 THEN RolePermissions
              ELSE IF rev = 7 THEN _ROLE_PERMISSIONS ELSE NoCatalog

Fits(d) ==
    /\ DOMAIN d = Columns
    /\ d.rev \in 0..9
    /\ PostureFits(d.rev, d.snapshots, d.results, d.missed)
    /\ d.endpoints \subseteq Endpoints
    /\ RequestsFit(d.rev, d.requests, d.endpoints)
    /\ GrantsFit(d.grants, d.endpoints)
    /\ EventsFit(d.events, d.requests)
    /\ ActionsFit(d.rev, d.actions)
    /\ ProfilesFit(d.rev, d.profiles)
    /\ LaterFits(d.rev, d.tokens, d.devices, d.protocol, d.security, d.fleet)
    /\ CatalogFits(d.rev, d.catalog)

StarterStates ==
    {"off", "locked", "migrating", "done", "refused", "commit", "serving", "failed"}
Locking == {"locked", "migrating", "done", "refused"}
StarterTypes ==
    [mode : {"upgrade", "check"}, pc : StarterStates, seen : 0..9,
     met : SUBSET Snapshots, known : SUBSET Endpoints]

(* What a program that is starting knows of the database it has read, and  *)
(* who holds the lock: while a migration is not committed, the database is *)
(* of the revision that it began with, and there is no other migration.    *)
StartersSound ==
    /\ dialect \in Dialects
    /\ dialect # "sqlite" => db.macos
    /\ lock \in Starters \cup {Null}
    /\ starters \in [Starters -> StarterTypes]
    /\ \A s \in Starters :
           /\ starters[s].pc \in Locking <=> lock = s
           /\ starters[s].pc \in Locking \cup {"commit"} => dialect # "sqlite"
           /\ starters[s].pc \in {"done", "commit"} => db.rev = starters[s].seen
           /\ starters[s].pc = "serving" => db.rev = 9 /\ db.macos
    /\ \A s, x \in Starters : Pending(s) /\ Pending(x) => s = x

MigrationInv == Fits(db) /\ StartersSound

-----------------------------------------------------------------------------
(* The names of controls *)

(* No new name is an old one. *)
LEMMA AliasesAreFinal ==
    /\ \A p, q \in Renames : p[2] # q[1]
    /\ \A p \in Renames : p = <<p[1], p[2]>>
<1>1. /\ \A j, k \in DOMAIN _ALIASES_0004 : _ALIASES_0004[j][2] # _ALIASES_0004[k][1]
      /\ \A k \in DOMAIN _ALIASES_0004 :
             _ALIASES_0004[k] = <<_ALIASES_0004[k][1], _ALIASES_0004[k][2]>>
  BY DEF _ALIASES_0004
<1> QED
  BY <1>1 DEF Renames

(* 0004 knows the names of 0002, and no control has three old names. *)
LEMMA AliasLists ==
    ASSUME NEW aliases \in {_ALIASES_0002, _ALIASES_0004}
    PROVE  /\ \A k \in DOMAIN aliases : k \in Nat \ {0} /\ aliases[k] \in Renames
           /\ \A k \in DOMAIN aliases : \A j \in 1..(k - 1) : j \in DOMAIN aliases
           /\ \A i, j, k \in DOMAIN aliases :
                  i < j /\ j < k => aliases[i][2] # aliases[k][2] \/ aliases[j][2] # aliases[k][2]
<1>1. DOMAIN _ALIASES_0002 = 1..2 /\ DOMAIN _ALIASES_0004 = 1..8
  BY DEF _ALIASES_0002, _ALIASES_0004
<1>2. _ALIASES_0002[1] = _ALIASES_0004[5] /\ _ALIASES_0002[2] = _ALIASES_0004[7]
  BY DEF _ALIASES_0002, _ALIASES_0004
<1>3. \A k \in DOMAIN aliases : k \in Nat \ {0} /\ aliases[k] \in Renames
  BY <1>1, <1>2 DEF Renames
<1>4. \A k \in DOMAIN aliases : \A j \in 1..(k - 1) : j \in DOMAIN aliases
  BY <1>1
<1>5. \A i, j, k \in 1..8 :
          i < j /\ j < k => \/ _ALIASES_0004[i][2] # _ALIASES_0004[k][2]
                           \/ _ALIASES_0004[j][2] # _ALIASES_0004[k][2]
  BY DEF _ALIASES_0004
<1>6. \A i, j, k \in 1..2 : ~(i < j /\ j < k)
  OBVIOUS
<1> QED
  BY <1>1, <1>3, <1>4, <1>5, <1>6

(* The roles of 0007 and 0008 *)
LEMMA RolesAddUp ==
    \A r \in RoleNames :
        /\ _ROLE_PERMISSIONS[r] \cup _ROLE_PERMISSION_ADDITIONS[r] = RolePermissions[r]
        /\ RolePermissions[r] \ _ROLE_PERMISSION_ADDITIONS[r] = _ROLE_PERMISSIONS[r]
<1>1. RoleNames = {"viewer", "operator", "responder", "approver", "admin"}
  BY DEF RoleNames, RolePermissions
<1>2. FleetReads \subseteq READONLY_PERMISSIONS
  BY DEF READONLY_PERMISSIONS
<1>3. (FleetReads \cup FleetChanges) \cap (RequestPermissions \cup ResponsePermissions \cup DecisionPermissions) = {}
  BY DEF FleetReads, FleetChanges, RequestPermissions, ResponsePermissions, DecisionPermissions
<1>4. FleetChanges \cap READONLY_PERMISSIONS = {}
  BY DEF FleetReads, FleetChanges, READONLY_PERMISSIONS
<1>5. FleetChanges \subseteq LEGACY_OPERATOR_PERMISSIONS
  BY DEF LEGACY_OPERATOR_PERMISSIONS
<1> QED
  BY <1>1, <1>2, <1>3, <1>4, <1>5 DEF RolePermissions, _ROLE_PERMISSIONS, _ROLE_PERMISSION_ADDITIONS

(* The two ways through 0008. *)
LEMMA CatalogUp ==
    [x \in RoleNames |-> _ROLE_PERMISSIONS[x] \cup _ROLE_PERMISSION_ADDITIONS[x]] = RolePermissions
<1>1. RolePermissions = [x \in RoleNames |-> RolePermissions[x]]
  BY DEF RoleNames, RolePermissions
<1> QED
  BY <1>1, RolesAddUp

LEMMA CatalogDown ==
    _remove_role_permissions(RolePermissions) = _ROLE_PERMISSIONS
<1>1. _ROLE_PERMISSIONS = [x \in RoleNames |-> _ROLE_PERMISSIONS[x]]
  BY DEF RoleNames, RolePermissions, _ROLE_PERMISSIONS
<1> QED
  BY <1>1, RolesAddUp DEF _remove_role_permissions

-----------------------------------------------------------------------------
(* Evidence survives step by step *)

ResultsSurvive(old, new) == \A r \in old : ResultSurvives(r, old, new)

(* Every result was there before, under its name or an old one. *)
ResultsCome(old, new) ==
    \A x \in new : \E q \in old :
        /\ q.snapshot = x.snapshot /\ q.status = x.status
        /\ q.control = x.control \/ <<q.control, x.control>> \in Renames

ResultsRenamed(old, new) == ResultsSurvive(old, new) /\ ResultsCome(old, new)

RowsSurvive(old, new, none) == \A i \in Rows : old[i] # none => new[i] # none

LEMMA SurvivesParts ==
    ASSUME NEW d, NEW n,
           d.snapshots \subseteq n.snapshots,
           ResultsSurvive(d.results, n.results),
           d.events \subseteq n.events,
           RowsSurvive(d.grants, n.grants, Absent),
           RowsSurvive(d.actions, n.actions, "absent")
    PROVE  Survives(d, n)
  BY DEF Survives, ResultsSurvive, RowsSurvive

LEMMA ResultsKept ==
    ASSUME NEW old, NEW new, old \subseteq new
    PROVE  ResultsSurvive(old, new)
  BY DEF ResultsSurvive, ResultSurvives

LEMMA ResultsSame ==
    ASSUME NEW results
    PROVE  ResultsRenamed(results, results)
  BY DEF ResultsRenamed, ResultsCome, ResultsSurvive, ResultSurvives

LEMMA RowsKept ==
    ASSUME NEW old, NEW new, NEW none, \A i \in Rows : new[i] = old[i]
    PROVE  RowsSurvive(old, new, none)
  BY DEF RowsSurvive

(* A name that replaces another is not replaced again. *)
LEMMA RenamedTwice ==
    ASSUME NEW a, NEW b, NEW c, ResultsRenamed(a, b), ResultsRenamed(b, c)
    PROVE  ResultsRenamed(a, c)
<1>1. ResultsCome(a, c)
  <2>1. ASSUME NEW x \in c
        PROVE  \E q \in a : /\ q.snapshot = x.snapshot /\ q.status = x.status
                            /\ q.control = x.control \/ <<q.control, x.control>> \in Renames
    <3>1. PICK y \in b : /\ y.snapshot = x.snapshot /\ y.status = x.status
                         /\ y.control = x.control \/ <<y.control, x.control>> \in Renames
      BY Zenon DEF ResultsRenamed, ResultsCome
    <3>2. PICK q \in a : /\ q.snapshot = y.snapshot /\ q.status = y.status
                         /\ q.control = y.control \/ <<q.control, y.control>> \in Renames
      BY Zenon DEF ResultsRenamed, ResultsCome
    <3>3. <<q.control, y.control>> \in Renames => <<y.control, x.control>> \notin Renames
      BY AliasesAreFinal
    <3> QED
      BY <3>1, <3>2, <3>3
  <2> QED
    BY <2>1 DEF ResultsCome
<1>2. ResultsSurvive(a, c)
  <2>1. SUFFICES ASSUME NEW r \in a
                 PROVE  ResultSurvives(r, a, c)
    BY DEF ResultsSurvive
  <2>2. ResultSurvives(r, a, b)
    BY DEF ResultsRenamed, ResultsSurvive
  <2>3. CASE r \in b
    <3>1. ResultSurvives(r, b, c)
      BY <2>3 DEF ResultsRenamed, ResultsSurvive
    <3>2. CASE r \in c
      BY <3>2 DEF ResultSurvives
    <3>3. CASE r \notin c
      <4>1. PICK o \in b, x \in c :
                /\ o.snapshot = r.snapshot /\ x.snapshot = r.snapshot
                /\ <<r.control, x.control>> \in Renames
                /\ o.control = x.control \/ <<o.control, x.control>> \in Renames
                /\ x.status = o.status
        BY <3>1, <3>3, Zenon DEF ResultSurvives
      <4>2. PICK q \in a : /\ q.snapshot = o.snapshot /\ q.status = o.status
                           /\ q.control = o.control \/ <<q.control, o.control>> \in Renames
        BY Zenon DEF ResultsRenamed, ResultsCome
      <4>3. <<q.control, o.control>> \in Renames => <<o.control, x.control>> \notin Renames
        BY AliasesAreFinal
      <4>4. q.control = x.control \/ <<q.control, x.control>> \in Renames
        BY <4>1, <4>2, <4>3
      <4> QED
        BY <4>1, <4>2, <4>4 DEF ResultSurvives
    <3> QED
      BY <3>2, <3>3
  <2>4. CASE r \notin b
    <3>1. PICK o \in a, x \in b :
              /\ o.snapshot = r.snapshot /\ x.snapshot = r.snapshot
              /\ <<r.control, x.control>> \in Renames
              /\ o.control = x.control \/ <<o.control, x.control>> \in Renames
              /\ x.status = o.status
      BY <2>2, <2>4, Zenon DEF ResultSurvives
    <3>2. \A name : <<x.control, name>> \notin Renames
      BY <3>1, AliasesAreFinal
    <3>3. x \in c
      BY <3>2 DEF ResultsRenamed, ResultsSurvive, ResultSurvives
    <3> QED
      BY <3>1, <3>3 DEF ResultSurvives
  <2> QED
    BY <2>3, <2>4
<1> QED
  BY <1>1, <1>2 DEF ResultsRenamed

LEMMA SurvivesTwice ==
    ASSUME NEW d, NEW n, NEW m, Survives(d, n), Survives(n, m),
           ResultsRenamed(d.results, n.results), ResultsRenamed(n.results, m.results)
    PROVE  Survives(d, m) /\ ResultsRenamed(d.results, m.results)
<1>1. ResultsRenamed(d.results, m.results)
  BY RenamedTwice
<1>2. /\ d.snapshots \subseteq m.snapshots
      /\ d.events \subseteq m.events
      /\ RowsSurvive(d.grants, m.grants, Absent)
      /\ RowsSurvive(d.actions, m.actions, "absent")
  BY DEF Survives, RowsSurvive
<1> QED
  BY <1>1, <1>2, SurvivesParts, Zenon DEF ResultsRenamed

LEMMA SurvivesItself ==
    ASSUME NEW d PROVE Survives(d, d)
  BY DEF Survives, ResultSurvives

(* Giving results their new names keeps one of each control, and leaves no *)
(* old name but where it was not met.                                      *)
LEMMA RenameKeeps ==
    ASSUME NEW d, DOMAIN d = Columns, NEW aliases \in {_ALIASES_0002, _ALIASES_0004},
           NEW rev \in 0..9, PostureFits(rev, d.snapshots, d.results, d.missed),
           NEW up \in 0..9, up >= 4 => aliases = _ALIASES_0004,
           NEW results, results = RenameAll(d, aliases).results
    PROVE  /\ PostureFits(up, d.snapshots, results, d.missed)
           /\ ResultsRenamed(d.results, results)
<1> DEFINE Met(r, k) == r.control = aliases[k][1] /\ r.control \notin d.missed[r.snapshot]
           Duplicate(r, k) ==
               \E o \in d.results :
                   /\ o.snapshot = r.snapshot
                   /\ \/ o.control = aliases[k][2]
                      \/ \E j \in 1..(k - 1) : Met(o, j) /\ aliases[j][2] = aliases[k][2]
           updated == {x \in d.results \X DOMAIN aliases :
                           Met(x[1], x[2]) /\ ~Duplicate(x[1], x[2])}
           kept == {r \in d.results : \A k \in DOMAIN aliases : ~Met(r, k)}
           new == {[x[1] EXCEPT !.control = aliases[x[2]][2]] : x \in updated}
<1>1. results = kept \cup new
  BY DEF RenameAll, Columns
<1>2. \A r \in d.results : DOMAIN r = {"snapshot", "control", "status"} /\ r.snapshot \in d.snapshots
  BY DEF PostureFits
<1>3. ASSUME NEW y \in new
      PROVE  \E r \in d.results, k \in DOMAIN aliases :
                 /\ Met(r, k) /\ ~Duplicate(r, k)
                 /\ y = [r EXCEPT !.control = aliases[k][2]]
  <2>1. PICK x \in updated : y = [x[1] EXCEPT !.control = aliases[x[2]][2]]
    OBVIOUS
  <2> HIDE DEF Met, Duplicate
  <2>2. x[1] \in d.results /\ x[2] \in DOMAIN aliases /\ Met(x[1], x[2]) /\ ~Duplicate(x[1], x[2])
    OBVIOUS
  <2>3. PICK r \in d.results : r = x[1]
    BY <2>2
  <2>4. PICK k \in DOMAIN aliases : k = x[2]
    BY <2>2
  <2>5. y = [r EXCEPT !.control = aliases[k][2]] /\ Met(r, k) /\ ~Duplicate(r, k)
    BY <2>1, <2>2, <2>3, <2>4, Zenon
  <2> QED
    BY <2>5
<1>4. ASSUME NEW r \in d.results, NEW k \in DOMAIN aliases, Met(r, k), ~Duplicate(r, k)
      PROVE  [r EXCEPT !.control = aliases[k][2]] \in new
  <2> HIDE DEF Met, Duplicate
  <2>1. PICK x \in d.results \X DOMAIN aliases : x[1] = r /\ x[2] = k
    <3>1. <<r, k>> \in d.results \X DOMAIN aliases /\ <<r, k>>[1] = r /\ <<r, k>>[2] = k
      OBVIOUS
    <3> QED
      BY <3>1
  <2>2. x \in updated
    BY <1>4, <2>1
  <2>3. [x[1] EXCEPT !.control = aliases[x[2]][2]] \in new
    BY <2>2, Zenon
  <2> QED
    BY <2>1, <2>3, Zenon
<1>5. ASSUME NEW r \in d.results, NEW c, NEW y, y = [r EXCEPT !.control = c]
      PROVE  /\ DOMAIN y = {"snapshot", "control", "status"}
             /\ y.snapshot = r.snapshot /\ y.status = r.status /\ y.control = c
  BY <1>2, <1>5
<1>6. /\ \A k \in DOMAIN aliases : k \in Nat \ {0} /\ aliases[k] \in Renames
      /\ \A k \in DOMAIN aliases : \A j \in 1..(k - 1) : j \in DOMAIN aliases
      /\ \A i, j, k \in DOMAIN aliases :
             i < j /\ j < k => aliases[i][2] # aliases[k][2] \/ aliases[j][2] # aliases[k][2]
  BY AliasLists
<1>7. \A k \in DOMAIN aliases : /\ aliases[k][2] \notin OldNames
                                /\ <<aliases[k][1], aliases[k][2]>> \in Renames
  BY <1>6, AliasesAreFinal DEF OldNames
<1>8. up >= 4 => \A c \in OldNames : \E k \in DOMAIN aliases : c = aliases[k][1]
  BY DEF OldNames, Renames
<1> HIDE DEF updated, new
(* A result that has no old name is kept. *)
<1>9. ASSUME NEW o \in d.results, NEW k \in DOMAIN aliases, o.control = aliases[k][2]
      PROVE  o \in kept
  <2>1. o.control \notin OldNames
    BY <1>7, <1>9
  <2>2. \A j \in DOMAIN aliases : aliases[j][1] \in OldNames
    BY <1>6 DEF OldNames
  <2> QED
    BY <2>1, <2>2
<1>10. ASSUME NEW y \in results
       PROVE  /\ DOMAIN y = {"snapshot", "control", "status"} /\ y.snapshot \in d.snapshots
              /\ up >= 4 /\ y.control \in OldNames => y.control \in d.missed[y.snapshot]
              /\ \E q \in d.results :
                     /\ q.snapshot = y.snapshot /\ q.status = y.status
                     /\ q.control = y.control \/ <<q.control, y.control>> \in Renames
  <2>1. CASE y \in kept
    <3>1. y \in d.results /\ \A k \in DOMAIN aliases : ~Met(y, k)
      BY <2>1
    <3>2. up >= 4 /\ y.control \in OldNames => y.control \in d.missed[y.snapshot]
      BY <1>8, <3>1
    <3> QED
      BY <1>2, <3>1, <3>2
  <2>2. CASE y \in new
    <3>1. PICK r \in d.results, k \in DOMAIN aliases :
              Met(r, k) /\ y = [r EXCEPT !.control = aliases[k][2]]
      BY <1>3, <2>2
    <3>2. /\ DOMAIN y = {"snapshot", "control", "status"}
          /\ y.snapshot = r.snapshot /\ y.status = r.status /\ y.control = aliases[k][2]
      BY <1>5, <3>1
    <3> QED
      BY <1>2, <1>7, <3>1, <3>2
  <2> QED
    BY <1>1, <2>1, <2>2
<1>11. ASSUME NEW y \in results, NEW z \in results, y.snapshot = z.snapshot, y.control = z.control
       PROVE  y = z
  <2>1. CASE y \in kept /\ z \in kept
    BY <1>11, <2>1 DEF PostureFits
  <2>2. ASSUME NEW u \in new, NEW o \in kept, u.snapshot = o.snapshot, u.control = o.control
        PROVE  FALSE
    <3>1. PICK r \in d.results, k \in DOMAIN aliases :
              ~Duplicate(r, k) /\ u = [r EXCEPT !.control = aliases[k][2]]
      BY <1>3, <2>2
    <3>2. u.snapshot = r.snapshot /\ u.control = aliases[k][2]
      BY <1>5, <3>1
    <3> QED
      BY <2>2, <3>1, <3>2
  <2>3. ASSUME NEW u \in new, NEW v \in new, u.snapshot = v.snapshot, u.control = v.control
        PROVE  u = v
    <3>1. PICK r \in d.results, k \in DOMAIN aliases :
              Met(r, k) /\ ~Duplicate(r, k) /\ u = [r EXCEPT !.control = aliases[k][2]]
      BY <1>3, Zenon
    <3>2. PICK o \in d.results, j \in DOMAIN aliases :
              Met(o, j) /\ ~Duplicate(o, j) /\ v = [o EXCEPT !.control = aliases[j][2]]
      BY <1>3, Zenon
    <3>3. /\ u.snapshot = r.snapshot /\ u.control = aliases[k][2]
          /\ v.snapshot = o.snapshot /\ v.control = aliases[j][2]
      BY <1>5, <3>1, <3>2
    <3>4. r.snapshot = o.snapshot /\ aliases[j][2] = aliases[k][2]
      BY <2>3, <3>3
    <3>5. ~(j < k) /\ ~(k < j)
      BY <1>6, <3>1, <3>2, <3>4
    <3>6. j = k
      BY <1>6, <3>5
    <3>7. r = o
      BY <3>1, <3>2, <3>4, <3>6 DEF PostureFits
    <3> QED
      BY <3>1, <3>2, <3>6, <3>7
  <2> HIDE DEF kept
  <2> QED
    BY <1>1, <1>11, <2>1, <2>2, <2>3
<1>12. PostureFits(up, d.snapshots, results, d.missed)
  <2>1. d.snapshots \subseteq Snapshots
    BY DEF PostureFits
  <2> HIDE DEF kept
  <2> QED
    BY <1>10, <1>11, <2>1 DEF PostureFits
<1>13. ResultsCome(d.results, results)
  BY <1>10 DEF ResultsCome
<1>14. ASSUME NEW r \in d.results
       PROVE  ResultSurvives(r, d.results, results)
  <2>1. CASE r \in kept
    BY <1>1, <2>1 DEF ResultSurvives
  <2>2. CASE r \notin kept
    <3>1. PICK k \in DOMAIN aliases : Met(r, k)
      BY <2>2
    <3>2. <<r.control, aliases[k][2]>> \in Renames
      BY <1>7, <3>1
    <3>3. SUFFICES \E o \in d.results, x \in results :
                      /\ o.snapshot = r.snapshot /\ x.snapshot = r.snapshot
                      /\ x.control = aliases[k][2]
                      /\ o.control = x.control \/ <<o.control, x.control>> \in Renames
                      /\ x.status = o.status
      BY <3>2, <3>3, Zenon DEF ResultSurvives
    <3>4. ASSUME NEW o \in d.results, NEW j \in DOMAIN aliases, o.snapshot = r.snapshot,
                 Met(o, j), ~Duplicate(o, j), aliases[j][2] = aliases[k][2]
          PROVE  \E x \in results :
                     /\ x.snapshot = r.snapshot /\ x.control = aliases[k][2]
                     /\ <<o.control, x.control>> \in Renames
                     /\ x.status = o.status
      <4>1. PICK x : x = [o EXCEPT !.control = aliases[j][2]]
        OBVIOUS
      <4>2. x \in new
        BY <1>4, <3>4, <4>1
      <4>3. x.snapshot = o.snapshot /\ x.control = aliases[j][2] /\ x.status = o.status
        BY <1>5, <4>1
      <4>4. <<o.control, x.control>> \in Renames
        BY <1>7, <3>4, <4>3
      <4> QED
        BY <1>1, <3>4, <4>2, <4>3, <4>4
    <3>5. CASE \E o \in d.results : o.snapshot = r.snapshot /\ o.control = aliases[k][2]
      <4>1. PICK o \in d.results : o.snapshot = r.snapshot /\ o.control = aliases[k][2]
        BY <3>5
      <4>2. o \in results
        BY <1>1, <1>9, <4>1
      <4> QED
        BY <4>1, <4>2
    <3>6. CASE ~Duplicate(r, k)
      BY <3>1, <3>4, <3>6
    <3>7. CASE /\ Duplicate(r, k)
               /\ ~\E o \in d.results : o.snapshot = r.snapshot /\ o.control = aliases[k][2]
      <4>1. PICK o \in d.results, j \in 1..(k - 1) :
                o.snapshot = r.snapshot /\ Met(o, j) /\ aliases[j][2] = aliases[k][2]
        BY <3>7
      <4>2. j \in DOMAIN aliases /\ j < k
        BY <1>6, <4>1
      <4>3. \A i \in 1..(j - 1) : i \in DOMAIN aliases /\ i < j
        BY <1>6, <4>2
      <4>4. \A i \in 1..(j - 1) : aliases[i][2] # aliases[k][2]
        BY <1>6, <4>1, <4>2, <4>3
      <4>5. ~Duplicate(o, j)
        BY <3>7, <4>1, <4>4
      <4>6. PICK x \in results :
                /\ x.snapshot = r.snapshot /\ x.control = aliases[k][2]
                /\ <<o.control, x.control>> \in Renames
                /\ x.status = o.status
        BY <3>4, <4>1, <4>2, <4>5
      <4> QED
        BY <4>1, <4>6
    <3> QED
      BY <3>5, <3>6, <3>7
  <2> QED
    BY <2>1, <2>2
<1> QED
  BY <1>12, <1>13, <1>14 DEF ResultsRenamed, ResultsSurvive

-----------------------------------------------------------------------------
(* Tables that are dropped and restored *)

(* The columns that no rebuild and no revision but 0002 and 0004 changes. *)
SameRest(d, n) ==
    /\ DOMAIN n = Columns
    /\ n.macos = d.macos
    /\ n.missed = d.missed
    /\ n.snapshots = d.snapshots
    /\ n.events = d.events
    /\ n.endpoints = d.endpoints
    /\ n.profiles = d.profiles
    /\ n.tokens = d.tokens
    /\ n.devices = d.devices
    /\ n.protocol = d.protocol
    /\ n.security = d.security
    /\ n.fleet = d.fleet

SameActions(d, n) == DOMAIN n.actions = Rows /\ \A i \in Rows : n.actions[i] = d.actions[i]

(* Dropping the endpoints on SQLite changes nothing in the end. *)
LEMMA EndpointsRebuilt ==
    ASSUME NEW d, DOMAIN d = Columns, DOMAIN d.actions = Rows, NEW enforced,
           NEW n, n = RebuildEndpoints(d, enforced)
    PROVE  /\ SameRest(d, n) /\ SameActions(d, n)
           /\ n.results = d.results
           /\ n.requests = d.requests /\ n.grants = d.grants
           /\ n.catalog = d.catalog /\ n.rev = d.rev
<1>1. CASE ~Cascades(enforced)
  <2>1. n = d
    BY <1>1 DEF RebuildEndpoints
  <2> QED
    BY <2>1 DEF SameRest, SameActions
<1>2. CASE Cascades(enforced)
  <2> DEFINE m == DropEndpoints(d)
  <2>1. /\ DOMAIN m = Columns
        /\ m.snapshots = {} /\ m.results = {} /\ m.actions = [i \in Rows |-> "absent"]
        /\ m.macos = d.macos /\ m.missed = d.missed /\ m.events = d.events /\ m.endpoints = d.endpoints
        /\ m.profiles = d.profiles /\ m.tokens = d.tokens /\ m.devices = d.devices
        /\ m.protocol = d.protocol /\ m.security = d.security /\ m.fleet = d.fleet
        /\ m.requests = d.requests /\ m.grants = d.grants
        /\ m.catalog = d.catalog /\ m.rev = d.rev
    BY DEF DropEndpoints, Columns
  <2>2. n = [m EXCEPT !.snapshots = @ \cup d.snapshots,
                      !.results = @ \cup d.results,
                      !.actions = [i \in Rows |-> IF @[i] = "absent" THEN d.actions[i] ELSE @[i]]]
    BY <1>2 DEF RebuildEndpoints
  <2> HIDE DEF m
  <2>3. /\ DOMAIN n = Columns
        /\ n.snapshots = m.snapshots \cup d.snapshots
        /\ n.results = m.results \cup d.results
        /\ n.actions = [i \in Rows |-> IF m.actions[i] = "absent" THEN d.actions[i] ELSE m.actions[i]]
        /\ n.macos = m.macos /\ n.missed = m.missed /\ n.events = m.events /\ n.endpoints = m.endpoints
        /\ n.profiles = m.profiles /\ n.tokens = m.tokens /\ n.devices = m.devices
        /\ n.protocol = m.protocol /\ n.security = m.security /\ n.fleet = m.fleet
        /\ n.requests = m.requests /\ n.grants = m.grants
        /\ n.catalog = m.catalog /\ n.rev = m.rev
    BY <2>1, <2>2 DEF Columns
  <2>4. n.snapshots = d.snapshots /\ n.results = d.results
    BY <2>1, <2>3
  <2>5. SameActions(d, n)
    BY <2>1, <2>3 DEF SameActions
  <2> QED
    BY <2>1, <2>3, <2>4, <2>5 DEF SameRest
<1> QED
  BY <1>1, <1>2

(* What dropping the requests does to a grant. *)
SameGrant(a, b) ==
    /\ DOMAIN b = DOMAIN a
    /\ b.targets = a.targets /\ b.scope = a.scope
    /\ b.is = a.is \/ (a.is = "linked" /\ b.is = "unlinked")
    /\ a.is = "absent" => b = a

LEMMA ApprovalsRebuilt ==
    ASSUME NEW d, DOMAIN d = Columns, DOMAIN d.actions = Rows, DOMAIN d.grants = Rows,
           \A i \in Rows : DOMAIN d.grants[i] = {"is", "targets", "scope"},
           NEW enforced,
           NEW n, n = RebuildApprovals(d, enforced)
    PROVE  /\ SameRest(d, n) /\ SameActions(d, n)
           /\ n.results = d.results
           /\ n.requests = d.requests
           /\ DOMAIN n.grants = Rows /\ \A i \in Rows : SameGrant(d.grants[i], n.grants[i])
           /\ n.catalog = d.catalog /\ n.rev = d.rev
<1>1. CASE ~Cascades(enforced)
  <2>1. n = d
    BY <1>1 DEF RebuildApprovals
  <2> QED
    BY <2>1 DEF SameRest, SameActions, SameGrant
<1>2. CASE Cascades(enforced)
  <2> DEFINE m == DropRequests(d)
             r == [m EXCEPT !.events = @ \cup d.events,
                            !.grants = [i \in Rows |-> IF @[i].is = "absent"
                                                       THEN d.grants[i] ELSE @[i]]]
             g == DropGrants(r)
  <2>1. /\ DOMAIN m = Columns /\ m.events = {}
        /\ m.grants = [i \in Rows |-> IF d.grants[i].is = "linked"
                                      THEN [d.grants[i] EXCEPT !.is = "unlinked"] ELSE d.grants[i]]
        /\ m.macos = d.macos /\ m.missed = d.missed /\ m.snapshots = d.snapshots /\ m.endpoints = d.endpoints
        /\ m.profiles = d.profiles /\ m.tokens = d.tokens /\ m.devices = d.devices
        /\ m.protocol = d.protocol /\ m.security = d.security /\ m.fleet = d.fleet
        /\ m.requests = d.requests /\ m.results = d.results /\ m.actions = d.actions
        /\ m.catalog = d.catalog /\ m.rev = d.rev
    BY DEF DropRequests, Columns
  <2> HIDE DEF m
  <2>2. /\ DOMAIN r = Columns /\ r.events = m.events \cup d.events
        /\ r.grants = [i \in Rows |-> IF m.grants[i].is = "absent" THEN d.grants[i] ELSE m.grants[i]]
        /\ r.macos = m.macos /\ r.missed = m.missed /\ r.snapshots = m.snapshots /\ r.endpoints = m.endpoints
        /\ r.profiles = m.profiles /\ r.tokens = m.tokens /\ r.devices = m.devices
        /\ r.protocol = m.protocol /\ r.security = m.security /\ r.fleet = m.fleet
        /\ r.requests = m.requests /\ r.results = m.results /\ r.actions = m.actions
        /\ r.catalog = m.catalog /\ r.rev = m.rev
    BY <2>1 DEF Columns
  <2>3. n = [g EXCEPT !.actions = [i \in Rows |-> IF @[i] = "absent" THEN d.actions[i] ELSE @[i]]]
    BY <1>2, Zenon DEF RebuildApprovals, m
  <2> HIDE DEF r
  <2>4. /\ DOMAIN g = Columns /\ g.actions = [i \in Rows |-> "absent"]
        /\ g.macos = r.macos /\ g.missed = r.missed /\ g.snapshots = r.snapshots /\ g.endpoints = r.endpoints
        /\ g.profiles = r.profiles /\ g.tokens = r.tokens /\ g.devices = r.devices
        /\ g.protocol = r.protocol /\ g.security = r.security /\ g.fleet = r.fleet
        /\ g.requests = r.requests /\ g.results = r.results /\ g.events = r.events
        /\ g.grants = r.grants /\ g.catalog = r.catalog /\ g.rev = r.rev
    BY <2>2 DEF DropGrants, Columns
  <2> HIDE DEF g
  <2>5. /\ DOMAIN n = Columns
        /\ n.actions = [i \in Rows |-> IF g.actions[i] = "absent" THEN d.actions[i] ELSE g.actions[i]]
        /\ n.macos = g.macos /\ n.missed = g.missed /\ n.snapshots = g.snapshots /\ n.endpoints = g.endpoints
        /\ n.profiles = g.profiles /\ n.tokens = g.tokens /\ n.devices = g.devices
        /\ n.protocol = g.protocol /\ n.security = g.security /\ n.fleet = g.fleet
        /\ n.requests = g.requests /\ n.results = g.results /\ n.events = g.events
        /\ n.grants = g.grants /\ n.catalog = g.catalog /\ n.rev = g.rev
    BY <2>3, <2>4 DEF Columns
  <2>6. SameActions(d, n)
    BY <2>4, <2>5 DEF SameActions
  <2>7. n.events = d.events
    BY <2>1, <2>2, <2>4, <2>5
  <2>8. ASSUME NEW i \in Rows
        PROVE  SameGrant(d.grants[i], n.grants[i])
    <3>1. m.grants[i] = IF d.grants[i].is = "linked"
                        THEN [d.grants[i] EXCEPT !.is = "unlinked"] ELSE d.grants[i]
      BY <2>1
    <3>2. n.grants[i] = IF m.grants[i].is = "absent" THEN d.grants[i] ELSE m.grants[i]
      BY <2>2, <2>4, <2>5
    <3>3. DOMAIN d.grants[i] = {"is", "targets", "scope"}
      OBVIOUS
    <3> QED
      BY <3>1, <3>2, <3>3 DEF SameGrant
  <2>9. DOMAIN n.grants = Rows
    BY <2>2, <2>4, <2>5
  <2> QED
    BY <2>1, <2>2, <2>4, <2>5, <2>6, <2>7, <2>8, <2>9 DEF SameRest
<1> QED
  BY <1>1, <1>2

-----------------------------------------------------------------------------
(* Scopes *)

(* The scope that 0007 derives: active where every endpoint is known and   *)
(* in one client, and then of that client, and of the one location if      *)
(* there is only one.                                                      *)
LEMMA ScopeDerived ==
    ASSUME NEW endpoints, NEW targets \in SUBSET Endpoints,
           NEW s, s = _scope_for_endpoint_ids(endpoints, targets)
    PROVE  /\ s \in Scopes
           /\ s.state \in {"active", "migration_quarantine"}
           /\ s.state = "active" =>
                 /\ targets # {} /\ targets \subseteq endpoints
                 /\ \A e \in targets :
                        /\ EndpointScope[e].client = s.client
                        /\ s.location # Null => EndpointScope[e].location = s.location
<1> DEFINE clients == {EndpointScope[e].client : e \in targets}
           locations == {EndpointScope[e].location : e \in targets}
<1>1. IsFiniteSet(targets)
  BY FS_Subset, MigrationsAssumption DEF MigrationsAssumption
<1>2. IsFiniteSet(clients) /\ IsFiniteSet(locations)
  <2>1. [e \in targets |-> EndpointScope[e].client] \in Surjection(targets, clients)
    BY DEF Surjection
  <2>2. [e \in targets |-> EndpointScope[e].location] \in Surjection(targets, locations)
    BY DEF Surjection
  <2> HIDE DEF clients, locations
  <2> QED
    BY <1>1, <2>1, <2>2, FS_Surjection
<1>3. \A e \in Endpoints : EndpointScope[e].client \in Clients
  BY MigrationsAssumption DEF MigrationsAssumption
<1>4. CASE ~(targets \subseteq endpoints) \/ Cardinality(clients) # 1
  <2>1. s = [NoScope EXCEPT !.state = "migration_quarantine"]
    BY <1>4 DEF _scope_for_endpoint_ids
  <2>2. s = [state |-> "migration_quarantine", client |-> Null, location |-> Null]
    BY <2>1 DEF NoScope
  <2>3. s.state = "migration_quarantine"
    BY <2>2
  <2>4. s \in Scopes
    <3> DEFINE places == {EndpointScope[e].location : e \in Endpoints}
    <3>1. Scopes = [state : {"none", "active", "migration_quarantine"},
                    client : Clients \cup {Null}, location : places \cup {Null}]
      BY DEF Scopes
    <3> HIDE DEF places
    <3> QED
      BY <2>2, <3>1
  <2> QED
    BY <2>3, <2>4
<1>5. CASE targets \subseteq endpoints /\ Cardinality(clients) = 1
  <2>1. PICK c : clients = {c}
    BY <1>2, <1>5, FS_Singleton, Zenon
  <2>2. c = CHOOSE x \in clients : TRUE
    BY <2>1
  <2> DEFINE l == IF Cardinality(locations) = 1 THEN CHOOSE x \in locations : TRUE ELSE Null
  <2>4. s = [state |-> "active", client |-> c, location |-> l]
    BY <1>5, <2>2 DEF _scope_for_endpoint_ids
  <2>5. Cardinality(locations) = 1 => locations = {l}
    <3>1. ASSUME Cardinality(locations) = 1 PROVE locations = {l}
      <4>1. PICK y : locations = {y}
        BY <1>2, <3>1, FS_Singleton, Zenon
      <4> QED
        BY <3>1, <4>1
    <3> QED
      BY <3>1
  <2>6. Cardinality(locations) # 1 => l = Null
    OBVIOUS
  <2> HIDE DEF l
  <2>7. c \in clients
    BY <2>1
  <2>8. targets # {} /\ c \in Clients
    BY <1>3, <2>7
  <2>9. l \in {EndpointScope[e].location : e \in Endpoints} \cup {Null}
    <3>1. CASE Cardinality(locations) = 1
      <4>1. l \in locations
        BY <2>5, <3>1
      <4> QED
        BY <4>1
    <3> QED
      BY <2>6, <3>1
  <2>10. s \in Scopes
    BY <2>4, <2>8, <2>9 DEF Scopes
  <2>11. ASSUME NEW e \in targets
         PROVE  /\ EndpointScope[e].client = c
                /\ l # Null => EndpointScope[e].location = l
    <3>1. EndpointScope[e].client \in clients /\ EndpointScope[e].location \in locations
      OBVIOUS
    <3> HIDE DEF clients, locations
    <3> QED
      BY <2>1, <2>5, <2>6, <3>1
  <2> QED
    BY <1>5, <2>4, <2>8, <2>10, <2>11
<1> QED
  BY <1>4, <1>5

LEMMA NoScopeIsScope == NoScope \in Scopes /\ NoScope.state = "none"
  BY DEF NoScope, Scopes

LEMMA AbsentFits ==
    ASSUME NEW endpoints
    PROVE  RowFits(Absent, endpoints) /\ Absent.is = "absent"
<1>1. /\ DOMAIN Absent = {"is", "targets", "scope"} /\ Absent.targets = {}
      /\ Absent.scope = NoScope /\ Absent.is = "absent"
  BY DEF Absent
<1> QED
  BY <1>1, NoScopeIsScope DEF RowFits

WithScope(a, s) == [a EXCEPT !.scope = s]

(* A row gets another scope, another state, or none of them. *)
LEMMA RowScoped ==
    ASSUME NEW endpoints, NEW a, RowFits(a, endpoints), a.is # "absent", NEW s \in Scopes,
           s.state = "active" =>
              /\ a.targets # {} /\ a.targets \subseteq endpoints
              /\ \A e \in a.targets :
                     /\ EndpointScope[e].client = s.client
                     /\ s.location # Null => EndpointScope[e].location = s.location,
           NEW b, b = WithScope(a, s)
    PROVE  RowFits(b, endpoints) /\ b.is = a.is /\ b.scope = s /\ b.targets = a.targets
<1>1. DOMAIN b = {"is", "targets", "scope"} /\ b.is = a.is /\ b.scope = s /\ b.targets = a.targets
  BY DEF RowFits, WithScope
<1> QED
  BY <1>1 DEF RowFits

LEMMA RowSame ==
    ASSUME NEW endpoints, NEW a, RowFits(a, endpoints), NEW b, SameGrant(a, b)
    PROVE  RowFits(b, endpoints)
<1>1. CASE a.is = "absent"
  BY <1>1 DEF SameGrant
<1>2. CASE a.is # "absent"
  BY <1>2 DEF SameGrant, RowFits
<1> QED
  BY <1>1, <1>2

LEMMA RowMoreEndpoints ==
    ASSUME NEW endpoints, NEW more, endpoints \subseteq more, NEW a, RowFits(a, endpoints)
    PROVE  RowFits(a, more)
  BY DEF RowFits

-----------------------------------------------------------------------------
(* Revisions *)

(* Only the number changes. *)
LEMMA RevisionOnly ==
    ASSUME NEW x, DOMAIN x = Columns, NEW r, NEW n, n = [x EXCEPT !.rev = r]
    PROVE  /\ SameRest(x, n) /\ n.rev = r
           /\ n.results = x.results /\ n.requests = x.requests /\ n.grants = x.grants
           /\ n.actions = x.actions /\ n.catalog = x.catalog
  BY DEF SameRest, Columns

LEMMA SameRestTwice ==
    ASSUME NEW d, NEW x, NEW n, SameRest(d, x), SameRest(x, n)
    PROVE  SameRest(d, n)
  BY DEF SameRest

(* The parts that a revision leaves alone fit the next one as well. *)
LEMMA PartsUp ==
    ASSUME NEW d, Fits(d), NEW r \in 1..9, d.rev = r - 1
    PROVE  /\ r # 4 => PostureFits(r, d.snapshots, d.results, d.missed)
           /\ r # 7 => RequestsFit(r, d.requests, d.endpoints)
           /\ ActionsFit(r, d.actions)
           /\ ProfilesFit(r, d.profiles)
           /\ LaterFits(r, d.tokens, d.devices, d.protocol, d.security, d.fleet)
           /\ r \notin {7, 8} => CatalogFits(r, d.catalog)
<1>1. r # 4 => PostureFits(r, d.snapshots, d.results, d.missed)
  BY DEF Fits, PostureFits
<1>2. r # 7 => RequestsFit(r, d.requests, d.endpoints)
  BY DEF Fits, RequestsFit
<1>3. ActionsFit(r, d.actions)
  BY DEF Fits, ActionsFit
<1>4. ProfilesFit(r, d.profiles)
  BY DEF Fits, ProfilesFit
<1>5. LaterFits(r, d.tokens, d.devices, d.protocol, d.security, d.fleet)
  BY DEF Fits, LaterFits
<1>6. r \notin {7, 8} => CatalogFits(r, d.catalog)
  BY DEF Fits, CatalogFits
<1> QED
  BY <1>1, <1>2, <1>3, <1>4, <1>5, <1>6

LEMMA SameActionsFit ==
    ASSUME NEW d, NEW n, SameActions(d, n), NEW r, ActionsFit(r, d.actions)
    PROVE  /\ ActionsFit(r, n.actions)
           /\ RowsSurvive(d.actions, n.actions, "absent")
  BY DEF SameActions, ActionsFit, RowsSurvive

(* The parts together, when the rest of the columns stays as it was. *)
LEMMA PartsMake ==
    ASSUME NEW d, Fits(d), NEW n, SameRest(d, n), NEW r \in 0..9, n.rev = r,
           PostureFits(r, d.snapshots, n.results, d.missed),
           RequestsFit(r, n.requests, d.endpoints),
           GrantsFit(n.grants, d.endpoints),
           EventsFit(d.events, n.requests),
           ActionsFit(r, n.actions),
           ProfilesFit(r, d.profiles),
           LaterFits(r, d.tokens, d.devices, d.protocol, d.security, d.fleet),
           CatalogFits(r, n.catalog)
    PROVE  Fits(n)
<1>1. /\ DOMAIN n = Columns /\ n.missed = d.missed
      /\ n.snapshots = d.snapshots /\ n.events = d.events
      /\ n.endpoints = d.endpoints /\ n.profiles = d.profiles /\ n.tokens = d.tokens
      /\ n.devices = d.devices /\ n.protocol = d.protocol /\ n.security = d.security
      /\ n.fleet = d.fleet
  BY DEF SameRest
<1>2. d.endpoints \subseteq Endpoints
  BY DEF Fits
<1> QED
  BY <1>1, <1>2 DEF Fits

LEMMA SurvivesRest ==
    ASSUME NEW d, NEW n, SameRest(d, n), ResultsSurvive(d.results, n.results),
           RowsSurvive(d.grants, n.grants, Absent), RowsSurvive(d.actions, n.actions, "absent")
    PROVE  Survives(d, n)
<1>1. d.snapshots \subseteq n.snapshots /\ d.events \subseteq n.events
  BY DEF SameRest
<1> QED
  BY <1>1, SurvivesParts

(* A row with the scope that 0007 gives it or takes away. *)
LEMMA RowRescoped ==
    ASSUME NEW endpoints, NEW a, RowFits(a, endpoints), NEW s \in Scopes,
           s.state = "active" =>
              /\ a.targets # {} /\ a.targets \subseteq endpoints
              /\ \A e \in a.targets :
                     /\ EndpointScope[e].client = s.client
                     /\ s.location # Null => EndpointScope[e].location = s.location,
           NEW b, b = IF a.is = "absent" THEN a ELSE WithScope(a, s)
    PROVE  /\ RowFits(b, endpoints) /\ b.is = a.is
           /\ a.is # "absent" => b.scope = s
<1>1. CASE a.is = "absent"
  BY <1>1
<1>2. CASE a.is # "absent"
  BY <1>2, RowScoped
<1> QED
  BY <1>1, <1>2

(* 0007 up: the scopes are derived. *)
LEMMA ScopesFilled ==
    ASSUME NEW d, Fits(d), NEW n, n = _backfill_approval_scopes(d)
    PROVE  /\ SameRest(d, n) /\ n.results = d.results /\ n.actions = d.actions
           /\ n.catalog = d.catalog /\ n.rev = d.rev
           /\ RequestsFit(7, n.requests, d.endpoints)
           /\ GrantsFit(n.grants, d.endpoints)
           /\ \A i \in Rows : n.requests[i].is = d.requests[i].is /\ n.grants[i].is = d.grants[i].is
<1> DEFINE known == d.endpoints \ d.unseen
           table(t) == [i \in Rows |-> IF t[i].is = "absent" THEN t[i]
                                       ELSE WithScope(t[i], _scope_for_endpoint_ids(known, t[i].targets))]
<1>1. n = [d EXCEPT !.requests = table(d.requests), !.grants = table(d.grants)]
  BY DEF _backfill_approval_scopes, Scoped, WithScope
<1>2. DOMAIN d = Columns
  BY DEF Fits
<1>3. /\ SameRest(d, n) /\ n.results = d.results /\ n.actions = d.actions
      /\ n.catalog = d.catalog /\ n.rev = d.rev
      /\ n.requests = table(d.requests) /\ n.grants = table(d.grants)
  <2> HIDE DEF table
  <2> QED
    BY <1>1, <1>2 DEF SameRest, Columns
<1>4. ASSUME NEW t, NEW i \in Rows, RowFits(t[i], d.endpoints)
      PROVE  /\ RowFits(table(t)[i], d.endpoints)
             /\ table(t)[i].is = t[i].is
             /\ t[i].is # "absent" => table(t)[i].scope.state # "none"
  <2>1. PICK a : a = t[i]
    OBVIOUS
  <2>2. PICK s : s = _scope_for_endpoint_ids(known, a.targets)
    OBVIOUS
  <2>3. PICK b : b = table(t)[i]
    OBVIOUS
  <2>4. b = IF a.is = "absent" THEN a ELSE WithScope(a, s)
    BY <2>1, <2>2, <2>3
  <2>5. RowFits(a, d.endpoints) /\ a.targets \in SUBSET Endpoints
    BY <1>4, <2>1 DEF RowFits
  <2> HIDE DEF table
  <2>6. /\ s \in Scopes
        /\ s.state \in {"active", "migration_quarantine"}
        /\ s.state = "active" =>
              /\ a.targets # {} /\ a.targets \subseteq d.endpoints
              /\ \A e \in a.targets :
                     /\ EndpointScope[e].client = s.client
                     /\ s.location # Null => EndpointScope[e].location = s.location
    <3>1. PICK targets \in SUBSET Endpoints : targets = a.targets
      BY <2>5
    <3>2. known \subseteq d.endpoints
      OBVIOUS
    <3> HIDE DEF known
    <3> QED
      BY <2>2, <3>1, <3>2, ScopeDerived
  <2>7. /\ RowFits(b, d.endpoints) /\ b.is = a.is
        /\ a.is # "absent" => b.scope = s
    BY <2>4, <2>5, <2>6, RowRescoped
  <2> QED
    BY <2>1, <2>3, <2>6, <2>7
<1>5. \A t : DOMAIN table(t) = Rows
  OBVIOUS
<1> HIDE DEF table
<1>6. /\ DOMAIN d.requests = Rows /\ \A i \in Rows : RowFits(d.requests[i], d.endpoints)
      /\ DOMAIN d.grants = Rows /\ \A i \in Rows : RowFits(d.grants[i], d.endpoints)
      /\ \A i \in Rows : d.requests[i].is \in {"absent", "there"}
      /\ \A i \in Rows : d.grants[i].is \in {"absent", "linked", "unlinked"}
  BY DEF Fits, RequestsFit, GrantsFit
<1>7. RequestsFit(7, n.requests, d.endpoints)
  BY <1>3, <1>4, <1>6, <1>5 DEF RequestsFit
<1>8. GrantsFit(n.grants, d.endpoints)
  BY <1>3, <1>4, <1>6, <1>5 DEF GrantsFit
<1> QED
  BY <1>3, <1>4, <1>6, <1>7, <1>8

(* 0007 down: the scopes are gone. *)
LEMMA ScopesGone ==
    ASSUME NEW d, DOMAIN d = Columns, NEW rev, RequestsFit(rev, d.requests, d.endpoints),
           GrantsFit(d.grants, d.endpoints), NEW n, n = WithoutScopes(d)
    PROVE  /\ SameRest(d, n) /\ n.results = d.results /\ n.actions = d.actions
           /\ n.catalog = d.catalog /\ n.rev = d.rev
           /\ RequestsFit(6, n.requests, d.endpoints)
           /\ GrantsFit(n.grants, d.endpoints)
           /\ \A i \in Rows : n.requests[i].is = d.requests[i].is /\ n.grants[i].is = d.grants[i].is
<1> DEFINE table(t) == [i \in Rows |-> IF t[i].is = "absent" THEN t[i]
                                       ELSE WithScope(t[i], NoScope)]
<1>1. n = [d EXCEPT !.requests = table(d.requests), !.grants = table(d.grants)]
  BY DEF WithoutScopes, Scoped, WithScope
<1>2. /\ SameRest(d, n) /\ n.results = d.results /\ n.actions = d.actions
      /\ n.catalog = d.catalog /\ n.rev = d.rev
      /\ n.requests = table(d.requests) /\ n.grants = table(d.grants)
  <2> HIDE DEF table
  <2> QED
    BY <1>1 DEF SameRest, Columns
<1>3. ASSUME NEW t, NEW i \in Rows, RowFits(t[i], d.endpoints)
      PROVE  /\ RowFits(table(t)[i], d.endpoints)
             /\ table(t)[i].is = t[i].is
             /\ t[i].is # "absent" => table(t)[i].scope.state = "none"
  <2>1. PICK a : a = t[i]
    OBVIOUS
  <2>2. PICK b : b = table(t)[i]
    OBVIOUS
  <2>3. b = IF a.is = "absent" THEN a ELSE WithScope(a, NoScope)
    BY <2>1, <2>2
  <2> HIDE DEF table
  <2>4. /\ RowFits(b, d.endpoints) /\ b.is = a.is
        /\ a.is # "absent" => b.scope = NoScope
    BY <1>3, <2>1, <2>3, RowRescoped, NoScopeIsScope
  <2> QED
    BY <2>1, <2>2, <2>4, NoScopeIsScope
<1>4. \A t : DOMAIN table(t) = Rows
  OBVIOUS
<1> HIDE DEF table
<1>5. /\ DOMAIN d.requests = Rows /\ \A i \in Rows : RowFits(d.requests[i], d.endpoints)
      /\ DOMAIN d.grants = Rows /\ \A i \in Rows : RowFits(d.grants[i], d.endpoints)
      /\ \A i \in Rows : d.requests[i].is \in {"absent", "there"}
      /\ \A i \in Rows : d.grants[i].is \in {"absent", "linked", "unlinked"}
  BY DEF RequestsFit, GrantsFit
<1>6. RequestsFit(6, n.requests, d.endpoints)
  BY <1>2, <1>3, <1>5, <1>4 DEF RequestsFit
<1>7. GrantsFit(n.grants, d.endpoints)
  BY <1>2, <1>3, <1>5, <1>4 DEF GrantsFit
<1> QED
  BY <1>2, <1>3, <1>5, <1>6, <1>7

-----------------------------------------------------------------------------
(* One revision up *)

LEMMA RenamedColumns ==
    ASSUME NEW d, DOMAIN d = Columns, NEW aliases, NEW n, n = RenameAll(d, aliases)
    PROVE  /\ SameRest(d, n) /\ n.requests = d.requests /\ n.grants = d.grants
           /\ n.actions = d.actions /\ n.catalog = d.catalog /\ n.rev = d.rev
  BY DEF RenameAll, SameRest, Columns

LEMMA CatalogColumn ==
    ASSUME NEW d, DOMAIN d = Columns, NEW catalog, NEW n, n = [d EXCEPT !.catalog = catalog]
    PROVE  /\ SameRest(d, n) /\ n.requests = d.requests /\ n.grants = d.grants
           /\ n.results = d.results /\ n.actions = d.actions /\ n.catalog = catalog /\ n.rev = d.rev
  BY DEF SameRest, Columns

(* Before the number is written: what a revision makes of the columns fits *)
(* the new number.                                                         *)
Revised(d, x, r) ==
    /\ SameRest(d, x)
    /\ PostureFits(r, d.snapshots, x.results, d.missed)
    /\ ResultsRenamed(d.results, x.results)
    /\ RequestsFit(r, x.requests, d.endpoints)
    /\ GrantsFit(x.grants, d.endpoints)
    /\ RowsSurvive(d.grants, x.grants, Absent)
    /\ EventsFit(d.events, x.requests)
    /\ ActionsFit(r, x.actions)
    /\ RowsSurvive(d.actions, x.actions, "absent")
    /\ CatalogFits(r, x.catalog)

LEMMA Renumbered ==
    ASSUME NEW d, Fits(d), NEW r \in 0..9, NEW x, Revised(d, x, r),
           ProfilesFit(r, d.profiles),
           LaterFits(r, d.tokens, d.devices, d.protocol, d.security, d.fleet),
           NEW n, n = [x EXCEPT !.rev = r]
    PROVE  /\ Fits(n) /\ n.rev = r /\ n.macos = d.macos
           /\ Survives(d, n) /\ ResultsRenamed(d.results, n.results)
<1>1. DOMAIN x = Columns /\ SameRest(d, x)
  BY DEF Revised, SameRest
<1>2. /\ SameRest(x, n) /\ n.rev = r
      /\ n.results = x.results /\ n.requests = x.requests /\ n.grants = x.grants
      /\ n.actions = x.actions /\ n.catalog = x.catalog
  BY <1>1, RevisionOnly
<1>3. SameRest(d, n)
  BY <1>1, <1>2, SameRestTwice
<1>4. Fits(n)
  <2>1. /\ PostureFits(r, d.snapshots, n.results, d.missed) /\ RequestsFit(r, n.requests, d.endpoints)
        /\ GrantsFit(n.grants, d.endpoints) /\ EventsFit(d.events, n.requests)
        /\ ActionsFit(r, n.actions) /\ CatalogFits(r, n.catalog)
    BY <1>2 DEF Revised
  <2> QED
    BY <1>2, <1>3, <2>1, PartsMake
<1>5. Survives(d, n) /\ ResultsRenamed(d.results, n.results)
  <2>1. /\ ResultsRenamed(d.results, n.results)
        /\ RowsSurvive(d.grants, n.grants, Absent)
        /\ RowsSurvive(d.actions, n.actions, "absent")
    BY <1>2 DEF Revised
  <2> QED
    BY <1>3, <2>1, SurvivesRest DEF ResultsRenamed
<1> QED
  BY <1>2, <1>3, <1>4, <1>5 DEF SameRest

LEMMA SameRestItself ==
    ASSUME NEW d, DOMAIN d = Columns
    PROVE  SameRest(d, d)
  BY DEF SameRest

(* The revisions that change no row, those of the control names, the       *)
(* rebuilds, and the two of the catalog.                                   *)
LEMMA RevisedOther ==
    ASSUME NEW d, Fits(d), NEW r \in {1, 3, 9}, d.rev = r - 1
    PROVE  Revised(d, d, r)
<1>1. /\ SameRest(d, d) /\ ResultsRenamed(d.results, d.results)
      /\ RowsSurvive(d.grants, d.grants, Absent) /\ RowsSurvive(d.actions, d.actions, "absent")
  BY SameRestItself, ResultsSame, RowsKept DEF Fits
<1>2. GrantsFit(d.grants, d.endpoints) /\ EventsFit(d.events, d.requests)
  BY DEF Fits
<1> QED
  BY <1>1, <1>2, PartsUp DEF Revised

LEMMA RevisedNames ==
    ASSUME NEW d, Fits(d), NEW r \in {2, 4}, d.rev = r - 1,
           NEW x, x = RenameAll(d, IF r = 2 THEN _ALIASES_0002 ELSE _ALIASES_0004)
    PROVE  Revised(d, x, r)
<1>1. PICK aliases : aliases = IF r = 2 THEN _ALIASES_0002 ELSE _ALIASES_0004
  OBVIOUS
<1>2. aliases \in {_ALIASES_0002, _ALIASES_0004} /\ (r >= 4 => aliases = _ALIASES_0004)
  BY <1>1
<1>3. DOMAIN d = Columns /\ d.rev \in 0..9 /\ PostureFits(d.rev, d.snapshots, d.results, d.missed)
  BY DEF Fits
<1>4. x = RenameAll(d, aliases)
  BY <1>1
<1>5. r \in 0..9
  OBVIOUS
<1>6. PostureFits(r, d.snapshots, x.results, d.missed) /\ ResultsRenamed(d.results, x.results)
  BY <1>2, <1>3, <1>4, <1>5, RenameKeeps
<1>7. /\ SameRest(d, x) /\ x.requests = d.requests /\ x.grants = d.grants
      /\ x.actions = d.actions /\ x.catalog = d.catalog
  BY <1>3, <1>4, RenamedColumns
<1>8. /\ GrantsFit(d.grants, d.endpoints) /\ EventsFit(d.events, d.requests)
      /\ RowsSurvive(d.grants, d.grants, Absent) /\ RowsSurvive(d.actions, d.actions, "absent")
  BY RowsKept DEF Fits
<1> QED
  BY <1>6, <1>7, <1>8, PartsUp DEF Revised

LEMMA RevisedEndpoints ==
    ASSUME NEW d, Fits(d), NEW r \in {5, 6}, d.rev = r - 1,
           NEW enforced, NEW x, x = RebuildEndpoints(d, enforced)
    PROVE  Revised(d, x, r)
<1>1. DOMAIN d = Columns /\ DOMAIN d.actions = Rows
  BY DEF Fits, ActionsFit
<1>2. /\ SameRest(d, x) /\ SameActions(d, x)
      /\ x.results = d.results
      /\ x.requests = d.requests /\ x.grants = d.grants
      /\ x.catalog = d.catalog
  BY <1>1, EndpointsRebuilt
<1>3. /\ ActionsFit(r, d.actions) /\ PostureFits(r, d.snapshots, d.results, d.missed)
      /\ RequestsFit(r, d.requests, d.endpoints) /\ CatalogFits(r, d.catalog)
  <2>1. r \in 1..9
    OBVIOUS
  <2> QED
    BY <2>1, PartsUp
<1>4. ActionsFit(r, x.actions) /\ RowsSurvive(d.actions, x.actions, "absent")
  BY <1>2, <1>3, SameActionsFit
<1>5. /\ GrantsFit(d.grants, d.endpoints) /\ EventsFit(d.events, d.requests)
      /\ RowsSurvive(d.grants, d.grants, Absent) /\ ResultsRenamed(d.results, d.results)
  BY RowsKept, ResultsSame DEF Fits
<1> QED
  BY <1>2, <1>4, <1>5, <1>3 DEF Revised

LEMMA RevisedApprovals ==
    ASSUME NEW d, Fits(d), d.rev = 6, NEW x, x = upgrade_0007(d)
    PROVE  Revised(d, x, 7)
<1>1. PICK f : f = _backfill_approval_scopes(d)
  OBVIOUS
<1>2. PICK b : b = RebuildApprovals(f, TRUE)
  OBVIOUS
<1>3. x = [b EXCEPT !.catalog = _ROLE_PERMISSIONS]
  BY <1>1, <1>2 DEF upgrade_0007
<1>4. /\ SameRest(d, f) /\ f.results = d.results /\ f.actions = d.actions
      /\ RequestsFit(7, f.requests, d.endpoints) /\ GrantsFit(f.grants, d.endpoints)
      /\ \A i \in Rows : f.requests[i].is = d.requests[i].is /\ f.grants[i].is = d.grants[i].is
  BY <1>1, ScopesFilled
<1>5. /\ PostureFits(7, d.snapshots, d.results, d.missed) /\ ActionsFit(7, d.actions)
  BY PartsUp
<1>6. /\ DOMAIN f = Columns /\ DOMAIN f.actions = Rows /\ DOMAIN f.grants = Rows
      /\ \A i \in Rows : DOMAIN f.grants[i] = {"is", "targets", "scope"}
  BY <1>4, <1>5 DEF SameRest, ActionsFit, GrantsFit, RowFits
<1>7. /\ SameRest(f, b) /\ SameActions(f, b)
      /\ b.results = f.results /\ b.requests = f.requests
      /\ DOMAIN b.grants = Rows /\ \A i \in Rows : SameGrant(f.grants[i], b.grants[i])
  <2>1. PICK enforced : enforced = TRUE
    OBVIOUS
  <2>2. b = RebuildApprovals(f, enforced)
    BY <1>2, <2>1, Zenon
  <2> QED
    BY <1>6, <2>2, ApprovalsRebuilt
<1>8. /\ SameRest(b, x) /\ x.requests = b.requests /\ x.grants = b.grants
      /\ x.results = b.results /\ x.actions = b.actions /\ x.catalog = _ROLE_PERMISSIONS
  <2>1. DOMAIN b = Columns
    BY <1>7 DEF SameRest
  <2> QED
    BY <1>3, <2>1, CatalogColumn
<1>9. SameRest(d, x)
  BY <1>4, <1>7, <1>8, SameRestTwice
<1>10. ActionsFit(7, x.actions) /\ RowsSurvive(d.actions, x.actions, "absent")
  BY <1>4, <1>5, <1>7, <1>8, SameActionsFit
<1>11. GrantsFit(x.grants, d.endpoints)
  <2>1. ASSUME NEW i \in Rows
        PROVE  RowFits(x.grants[i], d.endpoints) /\ x.grants[i].is \in {"absent", "linked", "unlinked"}
    <3>1. RowFits(f.grants[i], d.endpoints) /\ f.grants[i].is \in {"absent", "linked", "unlinked"}
      BY <1>4 DEF GrantsFit
    <3>2. SameGrant(f.grants[i], x.grants[i])
      BY <1>7, <1>8
    <3>3. RowFits(x.grants[i], d.endpoints)
      BY <3>1, <3>2, RowSame
    <3> QED
      BY <3>1, <3>2, <3>3 DEF SameGrant
  <2> QED
    BY <1>7, <1>8, <2>1 DEF GrantsFit
<1>12. RowsSurvive(d.grants, x.grants, Absent)
  <2>1. ASSUME NEW i \in Rows, d.grants[i] # Absent
        PROVE  x.grants[i] # Absent
    <3>1. d.grants[i].is # "absent"
      BY <2>1 DEF Fits, GrantsFit, RowFits
    <3>2. f.grants[i].is # "absent"
      BY <1>4, <3>1
    <3>3. SameGrant(f.grants[i], x.grants[i])
      BY <1>7, <1>8
    <3>4. x.grants[i].is # "absent"
      BY <3>2, <3>3 DEF SameGrant
    <3> QED
      BY <3>4, AbsentFits
  <2> QED
    BY <2>1 DEF RowsSurvive
<1>13. EventsFit(d.events, x.requests)
  BY <1>4, <1>7, <1>8 DEF Fits, EventsFit
<1>14. ResultsRenamed(d.results, x.results) /\ PostureFits(7, d.snapshots, x.results, d.missed)
  BY <1>4, <1>5, <1>7, <1>8, ResultsSame
<1>15. CatalogFits(7, x.catalog)
  BY <1>8 DEF CatalogFits
<1>16. RequestsFit(7, x.requests, d.endpoints)
  BY <1>4, <1>7, <1>8
<1> QED
  BY <1>9, <1>10, <1>11, <1>12, <1>13, <1>14, <1>15, <1>16 DEF Revised

LEMMA RevisedCatalog ==
    ASSUME NEW d, Fits(d), d.rev = 7, NEW x, x = upgrade_0008(d)
    PROVE  Revised(d, x, 8)
<1>1. DOMAIN d = Columns /\ d.catalog = _ROLE_PERMISSIONS
  BY DEF Fits, CatalogFits
<1>2. x = [d EXCEPT !.catalog = RolePermissions]
  BY <1>1, CatalogUp DEF upgrade_0008, Columns
<1>3. /\ SameRest(d, x) /\ x.requests = d.requests /\ x.grants = d.grants
      /\ x.results = d.results /\ x.actions = d.actions /\ x.catalog = RolePermissions
  BY <1>1, <1>2, CatalogColumn
<1>4. /\ ActionsFit(8, d.actions) /\ PostureFits(8, d.snapshots, d.results, d.missed)
      /\ RequestsFit(8, d.requests, d.endpoints)
  BY PartsUp
<1>5. /\ GrantsFit(d.grants, d.endpoints) /\ EventsFit(d.events, d.requests)
      /\ RowsSurvive(d.grants, d.grants, Absent) /\ ResultsRenamed(d.results, d.results)
      /\ RowsSurvive(d.actions, d.actions, "absent")
  BY RowsKept, ResultsSame DEF Fits
<1>6. CatalogFits(8, x.catalog)
  BY <1>3 DEF CatalogFits
<1> QED
  BY <1>3, <1>4, <1>5, <1>6 DEF Revised

(* A revision makes a database of the next number of one of its own, and   *)
(* loses no evidence.                                                      *)
LEMMA UpgradeFits ==
    ASSUME NEW d, Fits(d), NEW r \in 1..9, d.rev = r - 1, NEW n, n = upgrade(d, r)
    PROVE  /\ Fits(n) /\ n.rev = r /\ n.macos = d.macos
           /\ Survives(d, n) /\ ResultsRenamed(d.results, n.results)
<1> DEFINE x == CASE r = 2 -> upgrade_0002(d)
                  [] r = 4 -> upgrade_0004(d)
                  [] r = 5 -> upgrade_0005(d)
                  [] r = 6 -> upgrade_0006(d)
                  [] r = 7 -> upgrade_0007(d)
                  [] r = 8 -> upgrade_0008(d)
                  [] OTHER -> d
<1>1. n = [x EXCEPT !.rev = r]
  BY DEF upgrade
<1>2. /\ ProfilesFit(r, d.profiles) /\ r \in 0..9
      /\ LaterFits(r, d.tokens, d.devices, d.protocol, d.security, d.fleet)
  BY PartsUp
<1>3. SUFFICES Revised(d, x, r)
  <2> HIDE DEF x
  <2> QED
    BY <1>1, <1>2, <1>3, Renumbered
<1>4. CASE r \in {1, 3, 9}
  <2>1. x = d
    BY <1>4
  <2> QED
    BY <1>4, <2>1, RevisedOther
<1>5. CASE r \in {2, 4}
  <2>1. x = RenameAll(d, IF r = 2 THEN _ALIASES_0002 ELSE _ALIASES_0004)
    BY <1>5 DEF upgrade_0002, upgrade_0004
  <2> HIDE DEF x
  <2> QED
    BY <1>5, <2>1, RevisedNames
<1>6. CASE r \in {5, 6}
  <2>1. PICK enforced : enforced = TRUE
    OBVIOUS
  <2>2. x = RebuildEndpoints(d, enforced)
    <3>1. CASE r = 5
      BY <2>1, <3>1 DEF upgrade_0005
    <3>2. CASE r = 6
      BY <2>1, <3>2 DEF upgrade_0006
    <3> QED
      BY <1>6, <3>1, <3>2
  <2> HIDE DEF x
  <2> QED
    BY <1>6, <2>2, RevisedEndpoints
<1>7. CASE r = 7
  <2>1. x = upgrade_0007(d)
    BY <1>7
  <2> HIDE DEF x
  <2> QED
    BY <1>7, <2>1, RevisedApprovals
<1>8. CASE r = 8
  <2>1. x = upgrade_0008(d)
    BY <1>8
  <2> HIDE DEF x
  <2> QED
    BY <1>8, <2>1, RevisedCatalog
<1> QED
  BY <1>4, <1>5, <1>6, <1>7, <1>8

(* The databases on the way from d to the head. *)
OnTheWay(d, n, r) ==
    /\ Fits(n) /\ n.macos = d.macos
    /\ Survives(d, n) /\ ResultsRenamed(d.results, n.results)
    /\ n.rev >= r /\ (d.rev <= r => n.rev = r) /\ (d.rev > r => n = d)

LEMMA OneUp ==
    ASSUME NEW d, Fits(d), NEW x, NEW r \in 1..9, OnTheWay(d, x, r - 1)
    PROVE  OnTheWay(d, UpTo(r, x), r)
<1>1. d.rev \in 0..9 /\ x.rev \in 0..9 /\ Fits(x)
  BY DEF Fits, OnTheWay
<1>2. PICK n : n = UpTo(r, x)
  OBVIOUS
<1>3. CASE x.rev < r
  <2>1. x.rev = r - 1 /\ d.rev <= r - 1
    BY <1>1, <1>3 DEF OnTheWay
  <2>2. n = upgrade(x, r)
    BY <1>2, <1>3 DEF UpTo
  <2>3. /\ Fits(n) /\ n.rev = r /\ n.macos = x.macos
        /\ Survives(x, n) /\ ResultsRenamed(x.results, n.results)
    BY <1>1, <2>1, <2>2, UpgradeFits
  <2>4. Survives(d, n) /\ ResultsRenamed(d.results, n.results)
    BY <2>3, SurvivesTwice DEF OnTheWay
  <2> QED
    BY <1>1, <1>2, <2>1, <2>3, <2>4 DEF OnTheWay
<1>4. CASE x.rev >= r
  <2>1. n = x
    BY <1>1, <1>2, <1>4 DEF UpTo
  <2> QED
    BY <1>1, <1>2, <1>4, <2>1 DEF OnTheWay
<1> QED
  BY <1>1, <1>3, <1>4

(* The way to the head ends there. *)
LEMMA HeadReached ==
    ASSUME NEW d, Fits(d), NEW n, n = upgrade_database(d)
    PROVE  /\ Fits(n) /\ n.rev = 9 /\ n.macos = d.macos
           /\ Survives(d, n) /\ ResultsRenamed(d.results, n.results)
<1>1. d.rev \in 0..9
  BY DEF Fits
<1>2. OnTheWay(d, d, 0)
  BY <1>1, SurvivesItself, ResultsSame DEF OnTheWay
<1>3. PICK d1 : d1 = UpTo(1, d)
  OBVIOUS
<1>4. PICK d2 : d2 = UpTo(2, d1)
  OBVIOUS
<1>5. PICK d3 : d3 = UpTo(3, d2)
  OBVIOUS
<1>6. PICK d4 : d4 = UpTo(4, d3)
  OBVIOUS
<1>7. PICK d5 : d5 = UpTo(5, d4)
  OBVIOUS
<1>8. PICK d6 : d6 = UpTo(6, d5)
  OBVIOUS
<1>9. PICK d7 : d7 = UpTo(7, d6)
  OBVIOUS
<1>10. PICK d8 : d8 = UpTo(8, d7)
  OBVIOUS
<1>11. n = UpTo(9, d8)
  BY <1>3, <1>4, <1>5, <1>6, <1>7, <1>8, <1>9, <1>10 DEF upgrade_database
<1>12. OnTheWay(d, d3, 3)
  BY <1>2, <1>3, <1>4, <1>5, OneUp
<1>13. OnTheWay(d, d6, 6)
  BY <1>6, <1>7, <1>8, <1>12, OneUp
<1>14. OnTheWay(d, n, 9)
  BY <1>9, <1>10, <1>11, <1>13, OneUp
<1> QED
  BY <1>1, <1>14 DEF OnTheWay

-----------------------------------------------------------------------------
(* One revision down *)

(* The checks that a downgrade makes are what the older revision needs. *)
LEMMA PartsDown ==
    ASSUME NEW d, Fits(d), _assert_downgrade_safe(d), NEW r, r = d.rev - 1
    PROVE  /\ r \in 1..8
           /\ PostureFits(r, d.snapshots, d.results, d.missed)
           /\ r # 6 => RequestsFit(r, d.requests, d.endpoints)
           /\ r # 2 => ActionsFit(r, d.actions)
           /\ ProfilesFit(r, d.profiles)
           /\ LaterFits(r, d.tokens, d.devices, d.protocol, d.security, d.fleet)
           /\ r \notin {6, 7} => CatalogFits(r, d.catalog)
<1>1. d.rev \in 0..9
  BY DEF Fits
<1>2. d.rev > 1
  BY <1>1 DEF _assert_downgrade_safe
<1>3. r \in 1..8
  BY <1>1, <1>2
<1>4. PostureFits(r, d.snapshots, d.results, d.missed)
  BY <1>1, <1>3 DEF Fits, PostureFits
<1>5. r # 6 => RequestsFit(r, d.requests, d.endpoints)
  BY <1>1, <1>3 DEF Fits, RequestsFit
<1>6. r # 2 => ActionsFit(r, d.actions)
  BY <1>1, <1>3 DEF Fits, ActionsFit
<1>7. ProfilesFit(r, d.profiles)
  <2>1. d.rev = 5 => Cardinality({c \in Clients : d.profiles[c] # "absent"}) <= 1
    BY DEF _assert_downgrade_safe, downgrade_safe_0005
  <2>2. d.rev = 9 => \A c \in Clients : d.profiles[c] # "go_agent"
    BY DEF _assert_downgrade_safe, downgrade_safe_0009
  <2> QED
    BY <1>1, <1>3, <2>1, <2>2 DEF Fits, ProfilesFit
<1>8. LaterFits(r, d.tokens, d.devices, d.protocol, d.security, d.fleet)
  <2>1. d.rev = 6 => ~d.devices /\ d.tokens = {}
    BY DEF _assert_downgrade_safe, downgrade_safe_0006
  <2>2. d.rev = 7 => ~d.security
    BY DEF _assert_downgrade_safe, downgrade_safe_0007
  <2>3. d.rev = 8 => ~d.fleet
    BY DEF _assert_downgrade_safe, downgrade_safe_0008
  <2>4. d.rev = 9 => ~d.protocol
    BY DEF _assert_downgrade_safe, downgrade_safe_0009
  <2> QED
    BY <1>1, <1>3, <2>1, <2>2, <2>3, <2>4 DEF Fits, LaterFits
<1>9. r \notin {6, 7} => CatalogFits(r, d.catalog)
  BY <1>1, <1>3 DEF Fits, CatalogFits
<1> QED
  BY <1>3, <1>4, <1>5, <1>6, <1>7, <1>8, <1>9

LEMMA ReversedActions ==
    ASSUME NEW d, Fits(d), d.rev = 3, _assert_downgrade_safe(d), NEW x, x = downgrade_0003(d)
    PROVE  Revised(d, x, 2) /\ x.rev = d.rev
<1>1. DOMAIN d = Columns /\ \A i \in Rows : d.actions[i] \in {"absent", "queued", "leased"}
  BY DEF Fits, ActionsFit
<1>2. PICK actions : actions = [i \in Rows |-> IF d.actions[i] = "leased" THEN "queued" ELSE d.actions[i]]
  OBVIOUS
<1>3. x = [d EXCEPT !.actions = actions]
  BY <1>1, <1>2 DEF downgrade_0003, Columns
<1>4. /\ SameRest(d, x) /\ x.requests = d.requests /\ x.grants = d.grants /\ x.rev = d.rev
      /\ x.results = d.results /\ x.actions = actions /\ x.catalog = d.catalog
  BY <1>1, <1>3 DEF SameRest, Columns
<1>5. ActionsFit(2, actions) /\ RowsSurvive(d.actions, actions, "absent")
  BY <1>1, <1>2 DEF ActionsFit, RowsSurvive
<1>6. /\ PostureFits(2, d.snapshots, d.results, d.missed)
      /\ RequestsFit(2, d.requests, d.endpoints) /\ CatalogFits(2, d.catalog)
  <2>1. 2 = d.rev - 1 /\ 2 # 6
    OBVIOUS
  <2> QED
    BY <2>1, PartsDown
<1>7. /\ GrantsFit(d.grants, d.endpoints) /\ EventsFit(d.events, d.requests)
      /\ RowsSurvive(d.grants, d.grants, Absent) /\ ResultsRenamed(d.results, d.results)
  BY RowsKept, ResultsSame DEF Fits
<1> QED
  BY <1>4, <1>5, <1>6, <1>7 DEF Revised

LEMMA ReversedEndpoints ==
    ASSUME NEW d, Fits(d), NEW r \in {4, 5}, r = d.rev - 1, _assert_downgrade_safe(d), NEW enforced,
           NEW x, x = RebuildEndpoints(d, enforced)
    PROVE  Revised(d, x, r) /\ x.rev = d.rev
<1>1. DOMAIN d = Columns /\ DOMAIN d.actions = Rows
  BY DEF Fits, ActionsFit
<1>2. /\ SameRest(d, x) /\ SameActions(d, x)
      /\ x.results = d.results
      /\ x.requests = d.requests /\ x.grants = d.grants
      /\ x.catalog = d.catalog /\ x.rev = d.rev
  BY <1>1, EndpointsRebuilt
<1>3. /\ ActionsFit(r, d.actions) /\ PostureFits(r, d.snapshots, d.results, d.missed)
      /\ RequestsFit(r, d.requests, d.endpoints) /\ CatalogFits(r, d.catalog)
  BY PartsDown
<1>4. ActionsFit(r, x.actions) /\ RowsSurvive(d.actions, x.actions, "absent")
  BY <1>2, <1>3, SameActionsFit
<1>5. /\ GrantsFit(d.grants, d.endpoints) /\ EventsFit(d.events, d.requests)
      /\ RowsSurvive(d.grants, d.grants, Absent) /\ ResultsRenamed(d.results, d.results)
  BY RowsKept, ResultsSame DEF Fits
<1> QED
  BY <1>2, <1>3, <1>4, <1>5 DEF Revised

LEMMA ReversedApprovals ==
    ASSUME NEW d, Fits(d), d.rev = 7, _assert_downgrade_safe(d), NEW enforced,
           NEW x, x = downgrade_0007(d, enforced)
    PROVE  Revised(d, x, 6) /\ x.rev = d.rev
<1>1. PICK b : b = RebuildApprovals(d, enforced)
  OBVIOUS
<1>2. PICK w : w = WithoutScopes(b)
  OBVIOUS
<1>3. x = [w EXCEPT !.catalog = NoCatalog]
  BY <1>1, <1>2 DEF downgrade_0007
<1>4. /\ DOMAIN d = Columns /\ DOMAIN d.actions = Rows /\ DOMAIN d.grants = Rows
      /\ \A i \in Rows : DOMAIN d.grants[i] = {"is", "targets", "scope"}
      /\ RequestsFit(7, d.requests, d.endpoints)
  BY DEF Fits, ActionsFit, GrantsFit, RowFits
<1>5. /\ SameRest(d, b) /\ SameActions(d, b)
      /\ b.results = d.results /\ b.requests = d.requests /\ b.rev = d.rev
      /\ DOMAIN b.grants = Rows /\ \A i \in Rows : SameGrant(d.grants[i], b.grants[i])
  BY <1>1, <1>4, ApprovalsRebuilt
<1>6. DOMAIN b = Columns /\ b.endpoints = d.endpoints
  BY <1>5 DEF SameRest
<1>7. GrantsFit(b.grants, d.endpoints)
  <2>1. ASSUME NEW i \in Rows
        PROVE  RowFits(b.grants[i], d.endpoints) /\ b.grants[i].is \in {"absent", "linked", "unlinked"}
    <3>1. RowFits(d.grants[i], d.endpoints) /\ d.grants[i].is \in {"absent", "linked", "unlinked"}
      BY DEF Fits, GrantsFit
    <3>2. SameGrant(d.grants[i], b.grants[i])
      BY <1>5
    <3>3. RowFits(b.grants[i], d.endpoints)
      BY <3>1, <3>2, RowSame
    <3> QED
      BY <3>1, <3>2, <3>3 DEF SameGrant
  <2> QED
    BY <1>5, <2>1 DEF GrantsFit
<1>8. /\ SameRest(b, w) /\ w.results = b.results /\ w.actions = b.actions /\ w.rev = b.rev
      /\ RequestsFit(6, w.requests, d.endpoints)
      /\ GrantsFit(w.grants, d.endpoints)
      /\ \A i \in Rows : w.requests[i].is = b.requests[i].is /\ w.grants[i].is = b.grants[i].is
  <2>1. RequestsFit(7, b.requests, b.endpoints) /\ GrantsFit(b.grants, b.endpoints)
    BY <1>4, <1>5, <1>6, <1>7
  <2> QED
    BY <1>2, <1>6, <2>1, ScopesGone
<1>9. /\ SameRest(w, x) /\ x.requests = w.requests /\ x.grants = w.grants /\ x.rev = w.rev
      /\ x.results = w.results /\ x.actions = w.actions /\ x.catalog = NoCatalog
  <2>1. DOMAIN w = Columns
    BY <1>8 DEF SameRest
  <2> QED
    BY <1>3, <2>1, CatalogColumn
<1>10. SameRest(d, x)
  BY <1>5, <1>8, <1>9, SameRestTwice
<1>11. ActionsFit(6, d.actions) /\ PostureFits(6, d.snapshots, d.results, d.missed)
  <2>1. 6 = d.rev - 1 /\ 6 # 2
    OBVIOUS
  <2> QED
    BY <2>1, PartsDown
<1>12. ActionsFit(6, x.actions) /\ RowsSurvive(d.actions, x.actions, "absent")
  BY <1>5, <1>8, <1>9, <1>11, SameActionsFit
<1>13. RowsSurvive(d.grants, x.grants, Absent)
  <2>1. ASSUME NEW i \in Rows, d.grants[i] # Absent
        PROVE  x.grants[i] # Absent
    <3>1. d.grants[i].is # "absent"
      BY <2>1 DEF Fits, GrantsFit, RowFits
    <3>2. b.grants[i].is # "absent"
      BY <1>5, <3>1 DEF SameGrant
    <3>3. x.grants[i].is # "absent"
      BY <1>8, <1>9, <3>2
    <3> QED
      BY <3>3, AbsentFits
  <2> QED
    BY <2>1 DEF RowsSurvive
<1>14. EventsFit(d.events, x.requests)
  BY <1>5, <1>8, <1>9 DEF Fits, EventsFit
<1>15. ResultsRenamed(d.results, x.results) /\ PostureFits(6, d.snapshots, x.results, d.missed)
  BY <1>5, <1>8, <1>9, <1>11, ResultsSame
<1>16. CatalogFits(6, x.catalog)
  BY <1>9 DEF CatalogFits
<1>17. RequestsFit(6, x.requests, d.endpoints) /\ GrantsFit(x.grants, d.endpoints) /\ x.rev = d.rev
  BY <1>5, <1>8, <1>9
<1> QED
  BY <1>10, <1>12, <1>13, <1>14, <1>15, <1>16, <1>17 DEF Revised

LEMMA ReversedCatalog ==
    ASSUME NEW d, Fits(d), d.rev = 8, _assert_downgrade_safe(d), NEW x, x = downgrade_0008(d)
    PROVE  Revised(d, x, 7) /\ x.rev = d.rev
<1>1. DOMAIN d = Columns /\ d.catalog = RolePermissions
  BY DEF Fits, CatalogFits
<1>2. x = [d EXCEPT !.catalog = _ROLE_PERMISSIONS]
  BY <1>1, CatalogDown DEF downgrade_0008, Columns
<1>3. /\ SameRest(d, x) /\ x.requests = d.requests /\ x.grants = d.grants /\ x.rev = d.rev
      /\ x.results = d.results /\ x.actions = d.actions /\ x.catalog = _ROLE_PERMISSIONS
  BY <1>1, <1>2, CatalogColumn
<1>4. /\ ActionsFit(7, d.actions) /\ PostureFits(7, d.snapshots, d.results, d.missed)
      /\ RequestsFit(7, d.requests, d.endpoints)
  <2>1. 7 = d.rev - 1 /\ 7 # 2 /\ 7 # 6
    OBVIOUS
  <2> QED
    BY <2>1, PartsDown
<1>5. /\ GrantsFit(d.grants, d.endpoints) /\ EventsFit(d.events, d.requests)
      /\ RowsSurvive(d.grants, d.grants, Absent) /\ ResultsRenamed(d.results, d.results)
      /\ RowsSurvive(d.actions, d.actions, "absent")
  BY RowsKept, ResultsSame DEF Fits
<1>6. CatalogFits(7, x.catalog)
  BY <1>3 DEF CatalogFits
<1> QED
  BY <1>3, <1>4, <1>5, <1>6 DEF Revised

LEMMA ReversedOther ==
    ASSUME NEW d, Fits(d), NEW r \in {1, 3, 8}, r = d.rev - 1, _assert_downgrade_safe(d)
    PROVE  Revised(d, d, r)
<1>1. /\ SameRest(d, d) /\ ResultsRenamed(d.results, d.results)
      /\ RowsSurvive(d.grants, d.grants, Absent) /\ RowsSurvive(d.actions, d.actions, "absent")
  BY SameRestItself, ResultsSame, RowsKept DEF Fits
<1>2. GrantsFit(d.grants, d.endpoints) /\ EventsFit(d.events, d.requests)
  BY DEF Fits
<1> QED
  BY <1>1, <1>2, PartsDown DEF Revised

(* A downgrade that is allowed leaves a database of the older revision, and *)
(* loses no evidence.                                                      *)
LEMMA DowngradeFits ==
    ASSUME NEW d, Fits(d), _assert_downgrade_safe(d), NEW enforced, NEW n, n = downgrade(d, enforced)
    PROVE  Fits(n) /\ n.rev \in 1..8 /\ n.macos = d.macos /\ Survives(d, n)
<1> DEFINE x == CASE d.rev = 8 -> downgrade_0008(d)
                  [] d.rev = 7 -> downgrade_0007(d, enforced)
                  [] d.rev = 6 -> downgrade_0006(d, enforced)
                  [] d.rev = 5 -> downgrade_0005(d, enforced)
                  [] d.rev = 3 -> downgrade_0003(d)
                  [] OTHER -> d
<1>1. PICK r : r = d.rev - 1
  OBVIOUS
<1>2. /\ r \in 1..8 /\ ProfilesFit(r, d.profiles)
      /\ LaterFits(r, d.tokens, d.devices, d.protocol, d.security, d.fleet)
  BY <1>1, PartsDown
<1>3. d.rev \in 0..9
  BY DEF Fits
<1>4. SUFFICES Revised(d, x, r) /\ x.rev = d.rev
  <2>1. n = [x EXCEPT !.rev = @ - 1]
    BY DEF downgrade
  <2> HIDE DEF x
  <2>2. n = [x EXCEPT !.rev = r]
    <3>1. "rev" \in DOMAIN x
      BY <1>4 DEF Revised, SameRest, Columns
    <3> QED
      BY <1>1, <1>4, <2>1, <3>1
  <2>3. r \in 0..9
    BY <1>2
  <2>4. /\ Fits(n) /\ n.rev = r /\ n.macos = d.macos
        /\ Survives(d, n) /\ ResultsRenamed(d.results, n.results)
    BY <1>2, <1>4, <2>2, <2>3, Renumbered
  <2> QED
    BY <1>2, <2>4
<1>5. CASE d.rev = 8
  <2>1. x = downgrade_0008(d)
    BY <1>5
  <2> HIDE DEF x
  <2> QED
    BY <1>1, <1>5, <2>1, ReversedCatalog
<1>6. CASE d.rev = 7
  <2>1. x = downgrade_0007(d, enforced)
    BY <1>6
  <2> HIDE DEF x
  <2> QED
    BY <1>1, <1>6, <2>1, ReversedApprovals
<1>7. CASE d.rev \in {5, 6}
  <2>1. x = RebuildEndpoints(d, enforced)
    <3>1. CASE d.rev = 5
      BY <3>1 DEF downgrade_0005
    <3>2. CASE d.rev = 6
      BY <3>2 DEF downgrade_0006
    <3> QED
      BY <1>7, <3>1, <3>2
  <2> HIDE DEF x
  <2>2. r \in {4, 5}
    BY <1>1, <1>7
  <2> QED
    BY <1>1, <2>1, <2>2, ReversedEndpoints
<1>8. CASE d.rev = 3
  <2>1. x = downgrade_0003(d)
    BY <1>8
  <2> HIDE DEF x
  <2> QED
    BY <1>1, <1>8, <2>1, ReversedActions
<1>9. CASE d.rev \in {2, 4, 9}
  <2>1. x = d
    BY <1>9
  <2>2. r \in {1, 3, 8}
    BY <1>1, <1>9
  <2> QED
    BY <1>1, <2>1, <2>2, ReversedOther
<1> QED
  BY <1>1, <1>2, <1>3, <1>5, <1>6, <1>7, <1>8, <1>9

-----------------------------------------------------------------------------
(* The application *)

(* n differs from d in some columns only. *)
Kept(d, n, changed) ==
    /\ DOMAIN n = Columns
    /\ \A c \in Columns \ changed : n[c] = d[c]

(* The rows that the application writes. *)
PostureAdded(d, s, f) ==
    [d EXCEPT !.snapshots = @ \cup {s},
              !.results = @ \cup {[snapshot |-> s, control |-> c, status |-> f[c]] : c \in DOMAIN f}]
RequestAdded(d, i, a) ==
    [d EXCEPT !.requests[i] = a, !.events = @ \cup {i}, !.security = @ \/ d.rev >= 7]
GrantAdded(d, i) ==
    [d EXCEPT !.grants[i] = [d.requests[i] EXCEPT !.is = "linked"], !.security = @ \/ d.rev >= 7]
ActionSet(actions, i, status) == [actions EXCEPT ![i] = status]
ProfileAdded(d, c, kind) == [d EXCEPT !.profiles[c] = kind, !.security = @ \/ d.rev >= 7]

LEMMA WritePosture ==
    ASSUME NEW d, Fits(d), NEW s \in Snapshots, s \notin d.snapshots, NEW f,
           d.rev >= 4 => DOMAIN f \cap OldNames = {},
           NEW n, n = PostureAdded(d, s, f)
    PROVE  Fits(n) /\ n.rev = d.rev /\ n.macos = d.macos /\ Survives(d, n)
<1>1. PICK new : new = {[snapshot |-> s, control |-> c, status |-> f[c]] : c \in DOMAIN f}
  OBVIOUS
<1>2. DOMAIN d = Columns /\ PostureFits(d.rev, d.snapshots, d.results, d.missed)
  BY DEF Fits
<1>3. /\ Kept(d, n, {"snapshots", "results"})
      /\ n.snapshots = d.snapshots \cup {s} /\ n.results = d.results \cup new
  BY <1>1, <1>2 DEF Kept, Columns, PostureAdded
<1>4. \A x \in new : /\ DOMAIN x = {"snapshot", "control", "status"}
                     /\ x.snapshot = s /\ x.control \in DOMAIN f
  BY <1>1
<1>5. \A x, y \in new : x.control = y.control => x = y
  BY <1>1
<1>6. PostureFits(d.rev, d.snapshots \cup {s}, d.results \cup new, d.missed)
  BY <1>2, <1>4, <1>5 DEF PostureFits
<1>7. ResultsSurvive(d.results, d.results \cup new)
  BY ResultsKept
<1>8. /\ n.rev = d.rev /\ n.macos = d.macos /\ n.missed = d.missed /\ n.requests = d.requests /\ n.events = d.events
      /\ n.grants = d.grants /\ n.actions = d.actions /\ n.endpoints = d.endpoints
      /\ n.profiles = d.profiles /\ n.tokens = d.tokens /\ n.devices = d.devices
      /\ n.protocol = d.protocol /\ n.security = d.security /\ n.fleet = d.fleet
      /\ n.catalog = d.catalog
  BY <1>3 DEF Kept, Columns
<1>9. Fits(n)
  BY <1>3, <1>6, <1>8 DEF Fits, Kept
<1>10. Survives(d, n)
  BY <1>3, <1>7, <1>8, SurvivesParts, RowsKept
<1> QED
  BY <1>8, <1>9, <1>10

LEMMA WriteEndpoint ==
    ASSUME NEW d, Fits(d), NEW e \in Endpoints, NEW n, n = [d EXCEPT !.endpoints = @ \cup {e}]
    PROVE  Fits(n) /\ n.rev = d.rev /\ n.macos = d.macos /\ Survives(d, n)
<1>1. DOMAIN d = Columns /\ d.endpoints \subseteq Endpoints
  BY DEF Fits
<1>2. Kept(d, n, {"endpoints"}) /\ n.endpoints = d.endpoints \cup {e}
  BY <1>1 DEF Kept, Columns
<1>3. /\ n.rev = d.rev /\ n.macos = d.macos /\ n.missed = d.missed /\ n.requests = d.requests /\ n.events = d.events
      /\ n.grants = d.grants /\ n.actions = d.actions /\ n.snapshots = d.snapshots
      /\ n.results = d.results
      /\ n.profiles = d.profiles /\ n.tokens = d.tokens /\ n.devices = d.devices
      /\ n.protocol = d.protocol /\ n.security = d.security /\ n.fleet = d.fleet
      /\ n.catalog = d.catalog
  BY <1>2 DEF Kept, Columns
<1>4. PICK more : more = n.endpoints
  OBVIOUS
<1>5. d.endpoints \subseteq more /\ more \subseteq Endpoints
  BY <1>1, <1>2, <1>4
<1>6. RequestsFit(d.rev, d.requests, more) /\ GrantsFit(d.grants, more)
  BY <1>5, RowMoreEndpoints DEF Fits, RequestsFit, GrantsFit
<1>7. Fits(n)
  BY <1>2, <1>3, <1>4, <1>5, <1>6 DEF Fits, Kept
<1>8. Survives(d, n)
  BY <1>3, SurvivesParts, RowsKept, ResultsKept
<1> QED
  BY <1>3, <1>7, <1>8

(* Data that a person made is marked from 0007 on. *)
LEMMA SecurityNoted ==
    ASSUME NEW d, Fits(d), NEW security, security = (d.security \/ d.rev >= 7)
    PROVE  LaterFits(d.rev, d.tokens, d.devices, d.protocol, security, d.fleet)
<1>1. d.rev \in 0..9 /\ LaterFits(d.rev, d.tokens, d.devices, d.protocol, d.security, d.fleet)
  BY DEF Fits
<1>2. d.rev < 7 => ~(d.rev >= 7)
  BY <1>1
<1>3. d.rev < 7 => ~security
  BY <1>1, <1>2, Zenon DEF LaterFits
<1> QED
  BY <1>1, <1>3 DEF LaterFits

(* A new approval row: of the derived scope from 0007 on. *)
LEMMA NewRequestFits ==
    ASSUME NEW d, Fits(d), NEW targets \in SUBSET Endpoints, NEW scope,
           scope = IF d.rev >= 7 THEN _scope_for_endpoint_ids(d.endpoints, targets) ELSE NoScope,
           NEW a, a = Request(targets, scope)
    PROVE  /\ RowFits(a, d.endpoints) /\ a.is = "there"
           /\ d.rev >= 7 <=> a.scope.state # "none"
<1>1. /\ DOMAIN a = {"is", "targets", "scope"}
      /\ a.is = "there" /\ a.targets = targets /\ a.scope = scope
  BY DEF Request
<1>2. CASE d.rev >= 7
  <2>1. scope = _scope_for_endpoint_ids(d.endpoints, targets)
    BY <1>2
  <2> QED
    BY <1>1, <1>2, <2>1, ScopeDerived DEF RowFits
<1>3. CASE ~(d.rev >= 7)
  BY <1>1, <1>3, NoScopeIsScope DEF RowFits
<1> QED
  BY <1>2, <1>3

LEMMA WriteRequest ==
    ASSUME NEW d, Fits(d), NEW i \in Rows, d.requests[i] = Absent, NEW a,
           RowFits(a, d.endpoints), a.is = "there", d.rev >= 7 <=> a.scope.state # "none",
           NEW n, n = RequestAdded(d, i, a)
    PROVE  Fits(n) /\ n.rev = d.rev /\ n.macos = d.macos /\ Survives(d, n)
<1>1. PICK security : security = (d.security \/ d.rev >= 7)
  OBVIOUS
<1>2. DOMAIN d = Columns /\ RequestsFit(d.rev, d.requests, d.endpoints) /\ EventsFit(d.events, d.requests)
  BY DEF Fits
<1>3. PICK requests : requests = [d.requests EXCEPT ![i] = a]
  OBVIOUS
<1>4. n = [d EXCEPT !.requests = requests, !.events = d.events \cup {i}, !.security = security]
  BY <1>1, <1>2, <1>3 DEF Columns, RequestAdded
<1>5. /\ Kept(d, n, {"requests", "events", "security"})
      /\ n.requests = requests /\ n.events = d.events \cup {i} /\ n.security = security
  BY <1>2, <1>4 DEF Kept, Columns
<1>6. /\ n.rev = d.rev /\ n.macos = d.macos /\ n.missed = d.missed /\ n.endpoints = d.endpoints
      /\ n.grants = d.grants /\ n.actions = d.actions /\ n.snapshots = d.snapshots
      /\ n.results = d.results
      /\ n.profiles = d.profiles /\ n.tokens = d.tokens /\ n.devices = d.devices
      /\ n.protocol = d.protocol /\ n.fleet = d.fleet
      /\ n.catalog = d.catalog
  BY <1>5 DEF Kept, Columns
<1>7. /\ DOMAIN requests = Rows /\ requests[i] = a
      /\ \A j \in Rows \ {i} : requests[j] = d.requests[j]
  BY <1>2, <1>3 DEF RequestsFit
<1>8. RequestsFit(d.rev, requests, d.endpoints)
  BY <1>2, <1>7 DEF RequestsFit
<1>9. EventsFit(d.events \cup {i}, requests)
  BY <1>2, <1>7 DEF EventsFit
<1>10. Fits(n)
  BY <1>1, <1>5, <1>6, <1>8, <1>9, SecurityNoted DEF Fits, Kept
<1>11. Survives(d, n)
  <2>1. d.events \subseteq n.events /\ d.snapshots \subseteq n.snapshots
    BY <1>5, <1>6
  <2>2. /\ ResultsSurvive(d.results, n.results) /\ RowsSurvive(d.grants, n.grants, Absent)
        /\ RowsSurvive(d.actions, n.actions, "absent")
    BY <1>6, RowsKept, ResultsKept
  <2> QED
    BY <2>1, <2>2, SurvivesParts
<1> QED
  BY <1>6, <1>10, <1>11

LEMMA WriteGrant ==
    ASSUME NEW d, Fits(d), NEW i \in Rows, d.requests[i].is = "there",
           NEW n, n = GrantAdded(d, i)
    PROVE  Fits(n) /\ n.rev = d.rev /\ n.macos = d.macos /\ Survives(d, n)
<1>1. PICK security : security = (d.security \/ d.rev >= 7)
  OBVIOUS
<1>2. DOMAIN d = Columns /\ GrantsFit(d.grants, d.endpoints) /\ RowFits(d.requests[i], d.endpoints)
  BY DEF Fits, RequestsFit
<1>3. PICK a : a = [d.requests[i] EXCEPT !.is = "linked"]
  OBVIOUS
<1>4. RowFits(a, d.endpoints) /\ a.is = "linked"
  <2>1. PICK b : b = d.requests[i]
    OBVIOUS
  <2>2. RowFits(b, d.endpoints) /\ b.is = "there" /\ a = [b EXCEPT !.is = "linked"]
    BY <1>2, <1>3, <2>1
  <2>3. /\ DOMAIN a = {"is", "targets", "scope"} /\ a.is = "linked"
        /\ a.targets = b.targets /\ a.scope = b.scope
    BY <2>2 DEF RowFits
  <2> QED
    BY <2>2, <2>3 DEF RowFits
<1>5. PICK grants : grants = [d.grants EXCEPT ![i] = a]
  OBVIOUS
<1>6. n = [d EXCEPT !.grants = grants, !.security = security]
  BY <1>1, <1>2, <1>3, <1>5 DEF Columns, GrantAdded
<1>7. /\ Kept(d, n, {"grants", "security"})
      /\ n.grants = grants /\ n.security = security
  BY <1>2, <1>6 DEF Kept, Columns
<1>8. /\ n.rev = d.rev /\ n.macos = d.macos /\ n.missed = d.missed /\ n.endpoints = d.endpoints
      /\ n.requests = d.requests /\ n.events = d.events
      /\ n.actions = d.actions /\ n.snapshots = d.snapshots /\ n.results = d.results
      /\ n.profiles = d.profiles /\ n.tokens = d.tokens /\ n.devices = d.devices
      /\ n.protocol = d.protocol /\ n.fleet = d.fleet
      /\ n.catalog = d.catalog
  BY <1>7 DEF Kept, Columns
<1>9. /\ DOMAIN grants = Rows /\ grants[i] = a
      /\ \A j \in Rows \ {i} : grants[j] = d.grants[j]
  BY <1>2, <1>5 DEF GrantsFit
<1>10. GrantsFit(grants, d.endpoints)
  BY <1>2, <1>4, <1>9 DEF GrantsFit
<1>11. RowsSurvive(d.grants, grants, Absent)
  BY <1>4, <1>9, AbsentFits DEF RowsSurvive
<1>12. Fits(n)
  BY <1>1, <1>7, <1>8, <1>10, SecurityNoted DEF Fits, Kept
<1>13. Survives(d, n)
  BY <1>7, <1>8, <1>11, SurvivesParts, RowsKept, ResultsKept
<1> QED
  BY <1>8, <1>12, <1>13

LEMMA WriteAction ==
    ASSUME NEW d, Fits(d), NEW i \in Rows, NEW status \in {"queued", "leased"},
           status = "leased" => d.rev >= 3,
           NEW n, Kept(d, n, {"actions", "security"}), n.actions = ActionSet(d.actions, i, status),
           LaterFits(d.rev, d.tokens, d.devices, d.protocol, n.security, d.fleet)
    PROVE  Fits(n) /\ n.rev = d.rev /\ n.macos = d.macos /\ Survives(d, n)
<1>1. DOMAIN d = Columns /\ ActionsFit(d.rev, d.actions) /\ d.rev \in 0..9
  BY DEF Fits
<1>2. PICK actions : actions = n.actions
  OBVIOUS
<1>3. /\ n.rev = d.rev /\ n.macos = d.macos /\ n.missed = d.missed /\ n.endpoints = d.endpoints
      /\ n.requests = d.requests /\ n.events = d.events
      /\ n.grants = d.grants /\ n.snapshots = d.snapshots /\ n.results = d.results
      /\ n.profiles = d.profiles /\ n.tokens = d.tokens /\ n.devices = d.devices
      /\ n.protocol = d.protocol /\ n.fleet = d.fleet
      /\ n.catalog = d.catalog
  BY DEF Kept, Columns
<1>4. /\ DOMAIN actions = Rows /\ actions[i] = status
      /\ \A j \in Rows \ {i} : actions[j] = d.actions[j]
  BY <1>1, <1>2 DEF ActionsFit, ActionSet
<1>5. ActionsFit(d.rev, actions) /\ RowsSurvive(d.actions, actions, "absent")
  BY <1>1, <1>4 DEF ActionsFit, RowsSurvive
<1>6. Fits(n)
  BY <1>2, <1>3, <1>5 DEF Fits, Kept
<1>7. Survives(d, n)
  BY <1>2, <1>3, <1>5, SurvivesParts, RowsKept, ResultsKept
<1> QED
  BY <1>3, <1>6, <1>7

LEMMA WriteProfile ==
    ASSUME NEW d, Fits(d), NEW c \in Clients, NEW kind \in {"legacy_reporter", "go_agent"},
           d.rev < 5 => \A x \in Clients : d.profiles[x] = "absent",
           d.rev < 9 => kind = "legacy_reporter",
           NEW n, n = ProfileAdded(d, c, kind)
    PROVE  Fits(n) /\ n.rev = d.rev /\ n.macos = d.macos /\ Survives(d, n)
<1>1. PICK security : security = (d.security \/ d.rev >= 7)
  OBVIOUS
<1>2. DOMAIN d = Columns /\ ProfilesFit(d.rev, d.profiles) /\ d.rev \in 0..9
  BY DEF Fits
<1>3. PICK profiles : profiles = [d.profiles EXCEPT ![c] = kind]
  OBVIOUS
<1>4. n = [d EXCEPT !.profiles = profiles, !.security = security]
  BY <1>1, <1>2, <1>3 DEF Columns, ProfileAdded
<1>5. /\ Kept(d, n, {"profiles", "security"})
      /\ n.profiles = profiles /\ n.security = security
  BY <1>2, <1>4 DEF Kept, Columns
<1>6. /\ n.rev = d.rev /\ n.macos = d.macos /\ n.missed = d.missed /\ n.endpoints = d.endpoints
      /\ n.requests = d.requests /\ n.events = d.events /\ n.actions = d.actions
      /\ n.grants = d.grants /\ n.snapshots = d.snapshots /\ n.results = d.results
      /\ n.tokens = d.tokens /\ n.devices = d.devices
      /\ n.protocol = d.protocol /\ n.fleet = d.fleet
      /\ n.catalog = d.catalog
  BY <1>5 DEF Kept, Columns
<1>7. /\ DOMAIN profiles = Clients /\ profiles[c] = kind
      /\ \A x \in Clients \ {c} : profiles[x] = d.profiles[x]
  BY <1>2, <1>3 DEF ProfilesFit
<1>8. d.rev < 5 => Cardinality({x \in Clients : profiles[x] # "absent"}) <= 1
  <2>1. ASSUME d.rev < 5 PROVE {x \in Clients : profiles[x] # "absent"} = {c}
    BY <1>7, <2>1
  <2> QED
    BY <2>1, FS_Singleton
<1>9. ProfilesFit(d.rev, profiles)
  BY <1>2, <1>7, <1>8 DEF ProfilesFit
<1>10. Fits(n)
  BY <1>1, <1>5, <1>6, <1>9, SecurityNoted DEF Fits, Kept
<1>11. Survives(d, n)
  BY <1>5, <1>6, SurvivesParts, RowsKept, ResultsKept
<1> QED
  BY <1>6, <1>10, <1>11

(* Tokens, devices, logins and tags. *)
LEMMA WriteLater ==
    ASSUME NEW d, Fits(d), NEW n, Kept(d, n, {"tokens", "devices", "protocol", "security", "fleet"}),
           LaterFits(d.rev, n.tokens, n.devices, n.protocol, n.security, n.fleet)
    PROVE  Fits(n) /\ n.rev = d.rev /\ n.macos = d.macos /\ Survives(d, n)
<1>1. /\ n.rev = d.rev /\ n.macos = d.macos /\ n.missed = d.missed /\ n.endpoints = d.endpoints
      /\ n.requests = d.requests /\ n.events = d.events /\ n.actions = d.actions
      /\ n.grants = d.grants /\ n.snapshots = d.snapshots /\ n.results = d.results
      /\ n.profiles = d.profiles /\ n.catalog = d.catalog
  BY DEF Kept, Columns
<1>2. Fits(n)
  BY <1>1 DEF Fits, Kept
<1>3. Survives(d, n)
  BY <1>1, SurvivesParts, RowsKept, ResultsKept
<1> QED
  BY <1>1, <1>2, <1>3

(* Every write of the application. *)
LEMMA ApplicationStep ==
    ASSUME Fits(db), Application
    PROVE  /\ Fits(db') /\ db'.rev = db.rev /\ db'.macos = db.macos /\ Survives(db, db')
           /\ UNCHANGED <<dialect, lock, starters>>
<1>1. DOMAIN db = Columns /\ db.rev \in 0..9 /\ DOMAIN db.actions = Rows
      /\ LaterFits(db.rev, db.tokens, db.devices, db.protocol, db.security, db.fleet)
  BY DEF Fits, ActionsFit
<1>2. ASSUME NEW s \in Snapshots, NEW f, Report(s, f)
      PROVE  /\ Fits(db') /\ db'.rev = db.rev /\ db'.macos = db.macos /\ Survives(db, db')
             /\ UNCHANGED <<dialect, lock, starters>>
  <2>1. /\ db' = PostureAdded(db, s, f) /\ s \notin db.snapshots
        /\ db.rev >= 4 => DOMAIN f \cap OldNames = {}
        /\ UNCHANGED <<dialect, lock, starters>>
    BY <1>2 DEF Report, Write, PostureAdded
  <2> QED
    BY <2>1, WritePosture
<1>3. ASSUME NEW e \in Endpoints, Enroll(e)
      PROVE  /\ Fits(db') /\ db'.rev = db.rev /\ db'.macos = db.macos /\ Survives(db, db')
             /\ UNCHANGED <<dialect, lock, starters>>
  <2>1. db' = [db EXCEPT !.endpoints = @ \cup {e}] /\ UNCHANGED <<dialect, lock, starters>>
    BY <1>3 DEF Enroll, Write
  <2> QED
    BY <2>1, WriteEndpoint
<1>4. ASSUME NEW i \in Rows, NEW targets \in SUBSET Endpoints, AskApproval(i, targets)
      PROVE  /\ Fits(db') /\ db'.rev = db.rev /\ db'.macos = db.macos /\ Survives(db, db')
             /\ UNCHANGED <<dialect, lock, starters>>
  <2>1. PICK scope : scope = IF db.rev >= 7 THEN _scope_for_endpoint_ids(db.endpoints, targets) ELSE NoScope
    OBVIOUS
  <2>2. PICK a : a = Request(targets, scope)
    OBVIOUS
  <2>3. /\ db.requests[i] = Absent
        /\ db' = RequestAdded(db, i, a)
        /\ UNCHANGED <<dialect, lock, starters>>
    BY <1>4, <2>1, <2>2 DEF AskApproval, Write, RequestAdded
  <2>4. /\ RowFits(a, db.endpoints) /\ a.is = "there"
        /\ db.rev >= 7 <=> a.scope.state # "none"
    BY <2>1, <2>2, NewRequestFits
  <2> QED
    BY <2>3, <2>4, WriteRequest
<1>5. ASSUME NEW i \in Rows, GiveApproval(i)
      PROVE  /\ Fits(db') /\ db'.rev = db.rev /\ db'.macos = db.macos /\ Survives(db, db')
             /\ UNCHANGED <<dialect, lock, starters>>
  <2>1. /\ db.requests[i].is = "there"
        /\ db' = GrantAdded(db, i)
        /\ UNCHANGED <<dialect, lock, starters>>
    BY <1>5 DEF GiveApproval, Write, GrantAdded
  <2> QED
    BY <2>1, WriteGrant
<1>6. ASSUME NEW i \in Rows, Queue(i) \/ Claim(i)
      PROVE  /\ Fits(db') /\ db'.rev = db.rev /\ db'.macos = db.macos /\ Survives(db, db')
             /\ UNCHANGED <<dialect, lock, starters>>
  <2>1. PICK status \in {"queued", "leased"} :
            /\ status = "leased" => db.rev >= 3
            /\ \/ db' = [db EXCEPT !.actions[i] = status, !.security = @ \/ db.rev >= 7]
               \/ db' = [db EXCEPT !.actions[i] = status]
            /\ UNCHANGED <<dialect, lock, starters>>
    BY <1>6 DEF Queue, Claim, Write
  <2>2. Kept(db, db', {"actions", "security"}) /\ db'.actions = ActionSet(db.actions, i, status)
    BY <1>1, <2>1 DEF Kept, Columns, ActionSet
  <2>3. LaterFits(db.rev, db.tokens, db.devices, db.protocol, db'.security, db.fleet)
    <3>1. CASE db' = [db EXCEPT !.actions[i] = status, !.security = @ \/ db.rev >= 7]
      <4>1. db'.security = (db.security \/ db.rev >= 7)
        BY <1>1, <3>1 DEF Columns
      <4> QED
        BY <4>1, SecurityNoted
    <3>2. CASE db' = [db EXCEPT !.actions[i] = status]
      <4>1. db'.security = db.security
        BY <1>1, <3>2 DEF Columns
      <4> QED
        BY <1>1, <4>1
    <3> QED
      BY <2>1, <3>1, <3>2
  <2> QED
    BY <2>1, <2>2, <2>3, WriteAction
<1>7. ASSUME NEW c \in Clients, NEW kind \in {"legacy_reporter", "go_agent"}, AddProfile(c, kind)
      PROVE  /\ Fits(db') /\ db'.rev = db.rev /\ db'.macos = db.macos /\ Survives(db, db')
             /\ UNCHANGED <<dialect, lock, starters>>
  <2>1. /\ db.rev < 5 => \A x \in Clients : db.profiles[x] = "absent"
        /\ db.rev < 9 => kind = "legacy_reporter"
        /\ db' = ProfileAdded(db, c, kind)
        /\ UNCHANGED <<dialect, lock, starters>>
    BY <1>7 DEF AddProfile, Write, ProfileAdded
  <2> QED
    BY <2>1, WriteProfile
<1>8. ASSUME NEW c \in Clients, AddToken(c)
      PROVE  /\ Fits(db') /\ db'.rev = db.rev /\ db'.macos = db.macos /\ Survives(db, db')
             /\ UNCHANGED <<dialect, lock, starters>>
  <2>1. /\ db.rev >= 6
        /\ db' = [db EXCEPT !.tokens = @ \cup {c}, !.security = @ \/ db.rev >= 7]
        /\ UNCHANGED <<dialect, lock, starters>>
    BY <1>8 DEF AddToken, Write
  <2>2. /\ Kept(db, db', {"tokens", "devices", "protocol", "security", "fleet"})
        /\ db'.security = (db.security \/ db.rev >= 7)
        /\ db'.devices = db.devices /\ db'.protocol = db.protocol /\ db'.fleet = db.fleet
    BY <1>1, <2>1 DEF Kept, Columns
  <2>3. LaterFits(db.rev, db.tokens, db.devices, db.protocol, db'.security, db.fleet)
    BY <2>2, SecurityNoted
  <2>4. LaterFits(db.rev, db'.tokens, db'.devices, db'.protocol, db'.security, db'.fleet)
    BY <1>1, <2>1, <2>2, <2>3 DEF LaterFits
  <2> QED
    BY <2>1, <2>2, <2>4, WriteLater
<1>9. ASSUME EnrollDevice
      PROVE  /\ Fits(db') /\ db'.rev = db.rev /\ db'.macos = db.macos /\ Survives(db, db')
             /\ UNCHANGED <<dialect, lock, starters>>
  <2>1. /\ db.tokens # {}
        /\ db' = [db EXCEPT !.devices = TRUE, !.protocol = db.rev = 9]
        /\ UNCHANGED <<dialect, lock, starters>>
    BY <1>9 DEF EnrollDevice, Write
  <2>2. /\ Kept(db, db', {"tokens", "devices", "protocol", "security", "fleet"})
        /\ db'.protocol = (db.rev = 9) /\ db'.tokens = db.tokens
        /\ db'.security = db.security /\ db'.fleet = db.fleet
    BY <1>1, <2>1 DEF Kept, Columns
  <2>3. ~(db.rev < 6)
    BY <1>1, <2>1 DEF LaterFits
  <2>4. db.rev < 9 => ~db'.protocol
    <3>1. db.rev < 9 => ~(db.rev = 9)
      BY <1>1
    <3> QED
      BY <2>2, <3>1, Zenon
  <2>5. LaterFits(db.rev, db'.tokens, db'.devices, db'.protocol, db'.security, db'.fleet)
    BY <1>1, <2>2, <2>3, <2>4 DEF LaterFits
  <2> QED
    BY <2>1, <2>2, <2>5, WriteLater
<1>10. ASSUME NEW fleet \in BOOLEAN, LoginOrTag(fleet)
       PROVE  /\ Fits(db') /\ db'.rev = db.rev /\ db'.macos = db.macos /\ Survives(db, db')
              /\ UNCHANGED <<dialect, lock, starters>>
  <2>1. /\ db.rev >= 7 /\ (fleet => db.rev >= 8)
        /\ db' = [db EXCEPT !.security = TRUE, !.fleet = @ \/ fleet]
        /\ UNCHANGED <<dialect, lock, starters>>
    BY <1>1, <1>10 DEF LoginOrTag, Write
  <2>2. /\ Kept(db, db', {"tokens", "devices", "protocol", "security", "fleet"})
        /\ db'.fleet = (db.fleet \/ fleet) /\ db'.tokens = db.tokens
        /\ db'.devices = db.devices /\ db'.protocol = db.protocol
    BY <1>1, <2>1 DEF Kept, Columns
  <2>3. db.rev < 8 => ~db'.fleet
    <3>1. db.rev < 8 => ~fleet /\ ~db.fleet
      BY <1>1, <2>1 DEF LaterFits
    <3> QED
      BY <2>2, <3>1, Zenon
  <2>4. LaterFits(db.rev, db'.tokens, db'.devices, db'.protocol, db'.security, db'.fleet)
    BY <1>1, <2>1, <2>2, <2>3 DEF LaterFits
  <2> QED
    BY <2>1, <2>2, <2>4, WriteLater
<1> QED
  BY <1>2, <1>3, <1>4, <1>5, <1>6, <1>7, <1>8, <1>9, <1>10 DEF Application

-----------------------------------------------------------------------------
(* The programs that start *)

LEMMA StartersKept ==
    ASSUME StartersSound, UNCHANGED <<dialect, lock, starters>>,
           db'.rev = db.rev, db'.macos = db.macos
    PROVE  StartersSound'
  BY DEF StartersSound, Pending

(* What a step of a program makes of it, and what has to be known of the   *)
(* database then.                                                          *)
Becomes(s, new) == new \in StarterTypes /\ starters' = [starters EXCEPT ![s] = new]

MoveSound(s, new) ==
    /\ Becomes(s, new)
    /\ UNCHANGED dialect
    /\ dialect # "sqlite" => db'.macos
    /\ db.macos => db'.macos
    /\ \/ db'.rev = db.rev
       \/ db'.rev = 9 /\ (dialect = "sqlite" \/ Pending(s))
    /\ IF new.pc \in Locking THEN lock' = s /\ lock \in {Null, s}
       ELSE lock' = IF lock = s THEN Null ELSE lock
    /\ new.pc \in Locking \cup {"commit"} => dialect # "sqlite"
    /\ new.pc \in {"done", "commit"} => db'.rev = new.seen
    /\ new.pc \in {"done", "commit"} /\ new.seen # 9 => \A x \in Starters \ {s} : ~Pending(x)
    /\ new.pc = "serving" => db'.rev = 9 /\ db'.macos

LEMMA StarterMoves ==
    ASSUME StartersSound, NEW s \in Starters, NEW new, MoveSound(s, new)
    PROVE  StartersSound'
<1>1. starters \in [Starters -> StarterTypes] /\ new \in StarterTypes
  BY DEF StartersSound, MoveSound, Becomes
<1>2. starters' \in [Starters -> StarterTypes] /\ starters'[s] = new
  BY <1>1 DEF MoveSound, Becomes
<1>3. \A x \in Starters \ {s} : starters'[x] = starters[x]
  BY <1>1 DEF MoveSound, Becomes
<1>4. Null \notin Starters
  BY MigrationsAssumption DEF MigrationsAssumption
<1>5. \A x \in Starters \ {s} : Pending(x)' <=> Pending(x)
  BY <1>3 DEF Pending
<1>6. Pending(s)' <=> new.pc \in {"done", "commit"} /\ new.seen # 9
  BY <1>2 DEF Pending, HeadRevision
<1>7. ASSUME NEW x \in Starters
      PROVE  /\ starters'[x].pc \in Locking <=> lock' = x
             /\ starters'[x].pc \in Locking \cup {"commit"} => dialect' # "sqlite"
             /\ starters'[x].pc \in {"done", "commit"} => db'.rev = starters'[x].seen
             /\ starters'[x].pc = "serving" => db'.rev = 9 /\ db'.macos
  <2>1. CASE x = s
    BY <1>2, <1>4, <2>1 DEF MoveSound
  <2>2. CASE x # s
    <3>1. starters'[x] = starters[x]
      BY <1>3, <2>2
    <3>2. starters'[x].pc \in Locking <=> lock' = x
      BY <1>4, <2>2, <3>1 DEF StartersSound, MoveSound
    <3>3. starters'[x].pc \in {"done", "commit"} => db'.rev = starters'[x].seen
      <4>1. ASSUME starters[x].pc \in {"done", "commit"}, db'.rev # db.rev
            PROVE  FALSE
        <5>1. Pending(s) /\ dialect # "sqlite"
          BY <4>1 DEF StartersSound, MoveSound, Locking
        <5>2. db.rev = starters[x].seen /\ db.rev = starters[s].seen
          BY <4>1, <5>1 DEF StartersSound, Pending
        <5>3. Pending(x)
          BY <4>1, <5>1, <5>2 DEF Pending
        <5> QED
          BY <2>2, <5>1, <5>3 DEF StartersSound
      <4> QED
        BY <3>1, <4>1 DEF StartersSound
    <3>4. /\ starters'[x].pc \in Locking \cup {"commit"} => dialect' # "sqlite"
          /\ starters'[x].pc = "serving" => db'.rev = 9 /\ db'.macos
      BY <3>1 DEF StartersSound, MoveSound
    <3> QED
      BY <3>2, <3>3, <3>4
  <2> QED
    BY <2>1, <2>2
<1>8. ASSUME NEW x \in Starters, NEW y \in Starters, Pending(x)', Pending(y)'
      PROVE  x = y
  <2>1. CASE Pending(s)'
    <3>1. \A z \in Starters \ {s} : ~Pending(z)
      BY <1>6, <2>1 DEF MoveSound
    <3> QED
      BY <1>5, <1>8, <3>1
  <2>2. CASE ~Pending(s)'
    <3>1. x # s /\ y # s
      BY <1>8, <2>2
    <3>2. Pending(x) /\ Pending(y)
      BY <1>5, <1>8, <3>1
    <3> QED
      BY <3>2 DEF StartersSound
  <2> QED
    BY <2>1, <2>2
<1>9. dialect' \in Dialects /\ (dialect' # "sqlite" => db'.macos) /\ lock' \in Starters \cup {Null}
  BY DEF StartersSound, MoveSound
<1> QED
  BY <1>2, <1>7, <1>8, <1>9 DEF StartersSound

(* The tables of SQLite before 0001. *)
LEMMA SqliteTables ==
    ASSUME Fits(db), NEW d, d = run_sqlite_migrations(db)
    PROVE  /\ Fits(d) /\ d.rev = db.rev /\ Survives(db, d)
           /\ ResultsRenamed(db.results, d.results)
           /\ db.macos => d.macos
           /\ dialect = "sqlite" => d.macos
<1>1. DOMAIN db = Columns
  BY DEF Fits
<1>2. CASE dialect = "sqlite"
  <2>1. d = [db EXCEPT !.macos = TRUE]
    BY <1>2 DEF run_sqlite_migrations
  <2>2. /\ DOMAIN d = Columns /\ d.macos /\ d.rev = db.rev /\ d.missed = db.missed /\ d.endpoints = db.endpoints
        /\ d.requests = db.requests /\ d.events = db.events /\ d.actions = db.actions
        /\ d.grants = db.grants /\ d.snapshots = db.snapshots /\ d.results = db.results
        /\ d.profiles = db.profiles /\ d.tokens = db.tokens /\ d.devices = db.devices
        /\ d.protocol = db.protocol /\ d.security = db.security /\ d.fleet = db.fleet
        /\ d.catalog = db.catalog
    BY <1>1, <2>1 DEF Columns
  <2>3. Fits(d)
    BY <2>2 DEF Fits
  <2>4. Survives(db, d)
    BY <2>2, SurvivesParts, RowsKept, ResultsKept
  <2> QED
    BY <2>2, <2>3, <2>4, ResultsSame
<1>3. CASE dialect # "sqlite"
  <2>1. d = db
    BY <1>3 DEF run_sqlite_migrations
  <2> QED
    BY <1>3, <2>1, SurvivesItself, ResultsSame
<1> QED
  BY <1>2, <1>3

(* The rows that a migration did not meet do not matter before it.         *)
View(d, missed, unseen) == [d EXCEPT !.missed = missed, !.unseen = unseen]

LEMMA ViewFits ==
    ASSUME NEW d, Fits(d), NEW missed, d.rev >= 4 => missed = d.missed, NEW unseen,
           NEW n, n = View(d, missed, unseen)
    PROVE  Fits(n) /\ n.rev = d.rev /\ n.macos = d.macos /\ \A m : Survives(n, m) => Survives(d, m)
<1>1. DOMAIN d = Columns /\ PostureFits(d.rev, d.snapshots, d.results, d.missed) /\ d.rev \in 0..9
  BY DEF Fits
<1>2. DOMAIN n = Columns /\ n.missed = missed
  BY <1>1 DEF View, Columns
<1>3. /\ n.rev = d.rev /\ n.macos = d.macos /\ n.endpoints = d.endpoints
      /\ n.requests = d.requests /\ n.events = d.events /\ n.actions = d.actions
      /\ n.grants = d.grants /\ n.snapshots = d.snapshots /\ n.results = d.results
      /\ n.profiles = d.profiles /\ n.tokens = d.tokens /\ n.devices = d.devices
      /\ n.protocol = d.protocol /\ n.security = d.security /\ n.fleet = d.fleet
      /\ n.catalog = d.catalog
  BY <1>1 DEF View, Columns
<1>4. PostureFits(d.rev, d.snapshots, d.results, missed)
  BY <1>1 DEF PostureFits
<1>5. Fits(n)
  BY <1>2, <1>3, <1>4 DEF Fits
<1> QED
  BY <1>3, <1>5 DEF Survives

(* What a step of a starter does. *)
LEMMA StarterStepSound ==
    ASSUME MigrationInv, NEW s \in Starters, StarterStep(s)
    PROVE  Fits(db') /\ Survives(db, db') /\ StartersSound'
<1>1. /\ Fits(db) /\ StartersSound /\ db.rev \in 0..9
      /\ db.snapshots \subseteq Snapshots /\ db.endpoints \subseteq Endpoints
      /\ starters \in [Starters -> StarterTypes]
      /\ starters[s].pc \in Locking <=> lock = s
      /\ dialect # "sqlite" => db.macos
  BY DEF MigrationInv, StartersSound, Fits, PostureFits
<1>2. PICK row \in StarterTypes : row = starters[s]
  BY <1>1
<1>3. ASSUME NEW pc \in StarterStates, Move(s, pc)
      PROVE  \E new : Becomes(s, new) /\ new.pc = pc /\ new.seen = row.seen
  <2>1. PICK new : new = [row EXCEPT !.pc = pc]
    OBVIOUS
  <2>2. new \in StarterTypes /\ new.pc = pc /\ new.seen = row.seen
    BY <2>1 DEF StarterTypes
  <2>3. starters' = [starters EXCEPT ![s] = new]
    BY <1>1, <1>2, <1>3, <2>1 DEF Move
  <2> QED
    BY <2>2, <2>3 DEF Becomes
<1>4. ASSUME NEW pc \in StarterStates, End(s, pc)
      PROVE  \E new : Becomes(s, new) /\ new.pc = pc
  <2>1. PICK new : new = Starter(row.mode, pc)
    OBVIOUS
  <2>2. new \in StarterTypes /\ new.pc = pc
    BY <2>1 DEF StarterTypes, Starter
  <2>3. starters' = [starters EXCEPT ![s] = new]
    BY <1>1, <1>2, <1>4, <2>1 DEF End
  <2> QED
    BY <2>2, <2>3 DEF Becomes
<1>5. ASSUME UNCHANGED db
      PROVE  Fits(db') /\ Survives(db, db')
  BY <1>1, <1>5, SurvivesItself
<1>6. CASE PrepareSqlite(s)
  <2>1. PICK d : d = run_sqlite_migrations(db)
    OBVIOUS
  <2>2. Fits(d) /\ d.rev = db.rev /\ Survives(db, d) /\ d.macos /\ ResultsRenamed(db.results, d.results)
    BY <1>1, <1>6, <2>1, SqliteTables DEF PrepareSqlite
  <2>3. PICK pc \in {"serving", "failed"} :
            /\ Move(s, pc)
            /\ \/ db' = d /\ (pc = "serving" => d.rev = 9)
               \/ db' = upgrade_database(d)
    BY <1>6, <2>1 DEF PrepareSqlite, require_current_database, HeadRevision
  <2>4. /\ Fits(db') /\ Survives(db, db') /\ db'.macos
        /\ db'.rev = 9 \/ db'.rev = db.rev
        /\ pc = "serving" => db'.rev = 9
    <3>1. CASE db' = d /\ (pc = "serving" => d.rev = 9)
      BY <2>2, <3>1
    <3>2. CASE db' = upgrade_database(d)
      <4>1. /\ Fits(db') /\ db'.rev = 9 /\ db'.macos = d.macos
            /\ Survives(d, db') /\ ResultsRenamed(d.results, db'.results)
        BY <2>2, <3>2, HeadReached
      <4> QED
        BY <2>2, <4>1, SurvivesTwice
    <3> QED
      BY <2>3, <3>1, <3>2
  <2>5. UNCHANGED <<dialect, lock>> /\ dialect = "sqlite" /\ lock # s
    BY <1>1, <1>6 DEF PrepareSqlite, Locking
  <2>6. PICK new : Becomes(s, new) /\ new.pc = pc
    BY <1>3, <2>3 DEF StarterStates
  <2>7. MoveSound(s, new)
    BY <1>1, <2>3, <2>4, <2>5, <2>6 DEF MoveSound, Locking
  <2>8. StartersSound'
    BY <1>1, <2>7, StarterMoves
  <2> QED
    BY <2>4, <2>8
<1>7. CASE Lock(s)
  <2>1. /\ dialect # "sqlite" /\ lock = Null /\ lock' = s /\ UNCHANGED <<dialect, db>>
        /\ Move(s, "locked")
    BY <1>7 DEF Lock
  <2>2. PICK new : Becomes(s, new) /\ new.pc = "locked"
    BY <1>3, <2>1 DEF StarterStates
  <2>3. MoveSound(s, new)
    BY <1>1, <2>1, <2>2 DEF MoveSound, Locking
  <2> QED
    BY <1>1, <1>5, <2>1, <2>3, StarterMoves
<1>8. CASE Begin(s)
  <2>1. /\ row.pc = "locked" /\ lock = s /\ lock' = s /\ UNCHANGED <<dialect, db>>
    BY <1>1, <1>2, <1>8 DEF Begin, Locking
  <2>2. dialect # "sqlite"
    BY <1>1, <1>2, <2>1 DEF StartersSound, Locking
  <2>3. PICK pc \in {"done", "refused", "migrating"} :
            /\ pc = "done" => db.rev = 9
            /\ starters' = [starters EXCEPT ![s].pc = pc, ![s].seen = db.rev, ![s].met = db.snapshots]
    BY <1>8 DEF Begin, require_current_database, HeadRevision
  <2>4. PICK new : new = [row EXCEPT !.pc = pc, !.seen = db.rev, !.met = db.snapshots]
    OBVIOUS
  <2>5. new \in StarterTypes /\ new.pc = pc /\ new.seen = db.rev
    BY <1>1, <2>4 DEF StarterTypes, StarterStates
  <2>6. Becomes(s, new)
    BY <1>1, <1>2, <2>3, <2>4, <2>5 DEF Becomes
  <2>7. MoveSound(s, new)
    BY <1>1, <2>1, <2>2, <2>3, <2>5, <2>6 DEF MoveSound, Locking
  <2> QED
    BY <1>1, <1>5, <2>1, <2>7, StarterMoves
<1>9. CASE Migrate(s)
  <2>1. /\ row.pc = "migrating" /\ lock = s /\ lock' = s /\ UNCHANGED <<dialect, db>>
        /\ \A x \in Starters : ~Pending(x)
    BY <1>1, <1>2, <1>9 DEF Migrate, Locking
  <2>2. dialect # "sqlite"
    BY <1>1, <1>2, <2>1 DEF StartersSound, Locking
  <2>3. PICK pc \in {"done", "refused"} :
            /\ pc = "done" => db.rev = row.seen
            /\ starters' = [starters EXCEPT ![s].pc = pc, ![s].known = db.endpoints]
    BY <1>2, <1>9 DEF Migrate
  <2>4. PICK new : new = [row EXCEPT !.pc = pc, !.known = db.endpoints]
    OBVIOUS
  <2>5. new \in StarterTypes /\ new.pc = pc /\ new.seen = row.seen
    BY <1>1, <2>4 DEF StarterTypes, StarterStates
  <2>6. Becomes(s, new)
    BY <1>1, <1>2, <2>3, <2>4, <2>5 DEF Becomes
  <2>7. MoveSound(s, new)
    BY <1>1, <2>1, <2>2, <2>3, <2>5, <2>6 DEF MoveSound, Locking
  <2> QED
    BY <1>1, <1>5, <2>1, <2>7, StarterMoves
<1>10. CASE Unlock(s)
  <2>1. /\ row.pc \in {"done", "refused"} /\ lock = s /\ lock' = Null
        /\ UNCHANGED <<dialect, db>>
    BY <1>1, <1>2, <1>10 DEF Unlock, Locking
  <2>2. dialect # "sqlite"
    BY <1>1, <1>2, <2>1 DEF StartersSound, Locking
  <2>3. CASE row.pc = "done"
    <3>1. Move(s, "commit")
      BY <1>2, <1>10, <2>3 DEF Unlock
    <3>2. PICK new : Becomes(s, new) /\ new.pc = "commit" /\ new.seen = row.seen
      BY <1>3, <3>1 DEF StarterStates
    <3>3. db.rev = row.seen
      BY <1>1, <1>2, <2>3 DEF StartersSound
    <3>4. row.seen # 9 => \A x \in Starters \ {s} : ~Pending(x)
      BY <1>1, <1>2, <2>3 DEF StartersSound, Pending, HeadRevision
    <3>5. MoveSound(s, new)
      BY <1>1, <2>1, <2>2, <3>2, <3>3, <3>4 DEF MoveSound, Locking
    <3> QED
      BY <1>1, <1>5, <2>1, <3>5, StarterMoves
  <2>4. CASE row.pc = "refused"
    <3>1. End(s, "failed")
      BY <1>2, <1>10, <2>4 DEF Unlock
    <3>2. PICK new : Becomes(s, new) /\ new.pc = "failed"
      BY <1>4, <3>1 DEF StarterStates
    <3>3. MoveSound(s, new)
      BY <1>1, <2>1, <2>2, <3>2 DEF MoveSound, Locking
    <3> QED
      BY <1>1, <1>5, <2>1, <3>3, StarterMoves
  <2> QED
    BY <2>1, <2>3, <2>4
<1>11. CASE Commit(s)
  <2>1. /\ row.pc = "commit" /\ lock # s /\ UNCHANGED <<dialect, lock>> /\ End(s, "serving")
    BY <1>1, <1>2, <1>11 DEF Commit, Locking
  <2>2. dialect # "sqlite" /\ db.macos /\ db.rev = row.seen
    BY <1>1, <1>2, <2>1 DEF StartersSound
  <2>3. PICK new : Becomes(s, new) /\ new.pc = "serving"
    BY <1>4, <2>1 DEF StarterStates
  <2>4. CASE row.seen = 9
    <3>1. UNCHANGED db
      BY <1>2, <1>11, <2>4 DEF Commit, HeadRevision
    <3>2. MoveSound(s, new)
      BY <1>1, <2>1, <2>2, <2>3, <2>4, <3>1 DEF MoveSound, Locking
    <3> QED
      BY <1>1, <1>5, <3>1, <3>2, StarterMoves
  <2>5. CASE row.seen # 9
    <3>1. PICK missed \in Missed(s) :
              db' = upgrade_database([db EXCEPT !.missed = missed,
                                                !.unseen = db.endpoints \ starters[s].known])
      BY <1>2, <1>11, <2>5 DEF Commit, HeadRevision
    <3>2. db.rev >= 4 => missed = db.missed
      BY <1>2, <2>2 DEF Missed
    <3>3. PICK unseen : unseen = db.endpoints \ starters[s].known
      OBVIOUS
    <3>4. PICK d : d = View(db, missed, unseen)
      OBVIOUS
    <3>5. /\ Fits(d) /\ d.rev = db.rev /\ d.macos = db.macos
          /\ \A m : Survives(d, m) => Survives(db, m)
      BY <1>1, <3>2, <3>4, ViewFits
    <3>6. Fits(db') /\ db'.rev = 9 /\ db'.macos = d.macos /\ Survives(d, db')
      <4>1. db' = upgrade_database(d)
        BY <3>1, <3>3, <3>4 DEF View
      <4> QED
        BY <3>5, <4>1, HeadReached
    <3>7. Pending(s)
      BY <1>2, <2>1, <2>5 DEF Pending, HeadRevision
    <3>8. MoveSound(s, new)
      BY <1>1, <2>1, <2>2, <2>3, <3>5, <3>6, <3>7 DEF MoveSound, Locking
    <3> QED
      BY <1>1, <3>5, <3>6, <3>8, StarterMoves
  <2> QED
    BY <2>4, <2>5
<1>12. CASE Stop(s)
  <2>1. /\ End(s, "off") /\ UNCHANGED <<dialect, db>>
        /\ lock' = IF lock = s THEN Null ELSE lock
    BY <1>12 DEF Stop
  <2>2. PICK new : Becomes(s, new) /\ new.pc = "off"
    BY <1>4, <2>1 DEF StarterStates
  <2>3. MoveSound(s, new)
    BY <1>1, <2>1, <2>2 DEF MoveSound, Locking
  <2> QED
    BY <1>1, <1>5, <2>1, <2>3, StarterMoves
<1> QED
  BY <1>6, <1>7, <1>8, <1>9, <1>10, <1>11, <1>12 DEF StarterStep

LEMMA DowngradeSound ==
    ASSUME MigrationInv, NEW enforced \in BOOLEAN, Downgrade(enforced)
    PROVE  Fits(db') /\ Survives(db, db') /\ StartersSound'
<1>1. /\ \A s \in Starters : starters[s].pc \in {"off", "failed"}
      /\ _assert_downgrade_safe(db)
      /\ db' = downgrade(db, enforced)
      /\ UNCHANGED <<dialect, lock, starters>>
  BY DEF Downgrade
<1>2. Fits(db') /\ db'.macos = db.macos /\ Survives(db, db')
  BY <1>1, DowngradeFits DEF MigrationInv
<1>3. StartersSound'
  BY <1>1, <1>2 DEF MigrationInv, StartersSound, Locking, Pending
<1> QED
  BY <1>2, <1>3

(* Every step. *)
LEMMA StepSound ==
    ASSUME MigrationInv, [MigrationNext]_migrationVars
    PROVE  Fits(db') /\ Survives(db, db') /\ StartersSound'
<1>1. CASE \E s \in Starters : StarterStep(s)
  BY <1>1, StarterStepSound
<1>2. CASE \E enforced \in BOOLEAN : Downgrade(enforced)
  BY <1>2, DowngradeSound
<1>3. CASE Application
  BY <1>3, ApplicationStep, StartersKept DEF MigrationInv
<1>4. CASE UNCHANGED migrationVars
  <2>1. UNCHANGED <<dialect, lock, starters, db>>
    BY <1>4 DEF migrationVars
  <2>2. Fits(db') /\ Survives(db, db')
    BY <2>1, SurvivesItself DEF MigrationInv
  <2> QED
    BY <2>1, <2>2, StartersKept DEF MigrationInv
<1> QED
  BY <1>1, <1>2, <1>3, <1>4 DEF MigrationNext

-----------------------------------------------------------------------------
(* The first databases *)

LEMMA EmptyFits ==
    ASSUME NEW r \in 0..9, NEW macos, NEW d, d = Database(r, macos)
    PROVE  Fits(d) /\ d.rev = r /\ d.macos = macos
<1>1. /\ DOMAIN d = Columns /\ d.rev = r /\ d.macos = macos
      /\ d.snapshots = {} /\ d.results = {}
      /\ d.events = {} /\ d.endpoints = {} /\ d.tokens = {}
      /\ d.devices = FALSE /\ d.protocol = FALSE /\ d.security = FALSE /\ d.fleet = FALSE
  BY DEF Database, Columns
<1>2. /\ d.requests = [i \in Rows |-> Absent] /\ d.grants = [i \in Rows |-> Absent]
      /\ d.actions = [i \in Rows |-> "absent"] /\ d.profiles = [c \in Clients |-> "absent"]
  BY DEF Database
<1>3. d.catalog = IF r < 7 THEN NoCatalog ELSE IF r = 7 THEN _ROLE_PERMISSIONS ELSE RolePermissions
  BY DEF Database
<1>4. PostureFits(r, d.snapshots, d.results, d.missed) /\ EventsFit(d.events, d.requests)
  BY <1>1 DEF PostureFits, EventsFit
<1>5. RequestsFit(r, d.requests, d.endpoints) /\ GrantsFit(d.grants, d.endpoints)
  BY <1>2, AbsentFits DEF RequestsFit, GrantsFit
<1>6. ActionsFit(r, d.actions)
  BY <1>2 DEF ActionsFit
<1>7. ProfilesFit(r, d.profiles)
  <2>1. {c \in Clients : d.profiles[c] # "absent"} = {}
    BY <1>2
  <2> QED
    BY <1>2, <2>1, FS_EmptySet DEF ProfilesFit
<1>8. LaterFits(r, d.tokens, d.devices, d.protocol, d.security, d.fleet)
  BY <1>1 DEF LaterFits
<1>9. CatalogFits(r, d.catalog)
  BY <1>3 DEF CatalogFits
<1> QED
  BY <1>1, <1>4, <1>5, <1>6, <1>7, <1>8, <1>9 DEF Fits

LEMMA UsedFits ==
    ASSUME NEW d, Fits(d), d.rev \in 1..6, d.results = {}, d.profiles = [c \in Clients |-> "absent"],
           NEW e \in Endpoints, NEW status \in {"absent", "queued"}, NEW c \in Clients,
           NEW tokens, d.rev < 6 => tokens = {}, NEW n, n = Used(d, {e}, status, c, tokens)
    PROVE  Fits(n) /\ n.rev = d.rev /\ n.macos = d.macos
<1>1. PICK request : request = Request({e}, NoScope)
  OBVIOUS
<1>2. PICK grant : grant = [request EXCEPT !.is = "linked"]
  OBVIOUS
<1>3. PICK actions : actions = [i \in Rows |-> status]
  OBVIOUS
<1>4. PICK profiles : profiles = [d.profiles EXCEPT ![c] = "legacy_reporter"]
  OBVIOUS
<1>5. DOMAIN d = Columns
  BY DEF Fits
<1>6. n = [d EXCEPT !.endpoints = {e}, !.events = Rows, !.profiles[c] = "legacy_reporter",
                    !.requests = [i \in Rows |-> request], !.grants = [i \in Rows |-> grant],
                    !.actions = actions, !.tokens = tokens]
  BY <1>1, <1>2, <1>3, Zenon DEF Used
<1>7. /\ Kept(d, n, {"endpoints", "events", "profiles", "requests", "grants", "actions", "tokens"})
      /\ n.endpoints = {e} /\ n.events = Rows /\ n.profiles = profiles
      /\ n.requests = [i \in Rows |-> request] /\ n.grants = [i \in Rows |-> grant]
      /\ n.actions = actions /\ n.tokens = tokens
  BY <1>4, <1>5, <1>6 DEF Kept, Columns
<1>8. /\ n.rev = d.rev /\ n.macos = d.macos /\ n.missed = d.missed /\ n.snapshots = d.snapshots /\ n.results = d.results
      /\ n.devices = d.devices /\ n.protocol = d.protocol
      /\ n.security = d.security /\ n.fleet = d.fleet /\ n.catalog = d.catalog
  BY <1>7 DEF Kept, Columns
<1>9. /\ DOMAIN request = {"is", "targets", "scope"}
      /\ request.is = "there" /\ request.targets = {e} /\ request.scope = NoScope
  BY <1>1 DEF Request
<1>10. /\ DOMAIN grant = {"is", "targets", "scope"}
       /\ grant.is = "linked" /\ grant.targets = {e} /\ grant.scope = NoScope
  BY <1>2, <1>9
<1>11. RowFits(request, {e}) /\ RowFits(grant, {e})
  BY <1>9, <1>10, NoScopeIsScope DEF RowFits
<1>12. RequestsFit(d.rev, n.requests, {e}) /\ GrantsFit(n.grants, {e}) /\ EventsFit(n.events, n.requests)
  <2>1. /\ DOMAIN n.requests = Rows /\ \A i \in Rows : n.requests[i] = request
        /\ DOMAIN n.grants = Rows /\ \A i \in Rows : n.grants[i] = grant
    BY <1>7
  <2>2. RequestsFit(d.rev, n.requests, {e})
    <3>1. ~(d.rev >= 7) /\ request.scope.state = "none"
      BY <1>9, NoScopeIsScope
    <3> QED
      BY <1>9, <1>11, <2>1, <3>1 DEF RequestsFit
  <2>3. GrantsFit(n.grants, {e})
    BY <1>10, <1>11, <2>1 DEF GrantsFit
  <2>4. EventsFit(n.events, n.requests)
    BY <1>7, <1>9, <2>1 DEF EventsFit
  <2> QED
    BY <2>2, <2>3, <2>4
<1>13. ProfilesFit(d.rev, profiles)
  <2>1. {x \in Clients : profiles[x] # "absent"} = {c}
    BY <1>4
  <2>2. \A x \in Clients : profiles[x] # "go_agent"
    BY <1>4
  <2>3. DOMAIN profiles = Clients
    BY <1>4
  <2>4. Cardinality({x \in Clients : profiles[x] # "absent"}) = 1
    BY <2>1, FS_Singleton
  <2> QED
    BY <2>2, <2>3, <2>4 DEF ProfilesFit
<1>14. LaterFits(d.rev, tokens, d.devices, d.protocol, d.security, d.fleet)
  BY DEF Fits, LaterFits
<1>15. ActionsFit(d.rev, actions)
  BY <1>3 DEF ActionsFit
<1>16. Fits(n)
  BY <1>7, <1>8, <1>12, <1>13, <1>14, <1>15 DEF Fits, Kept
<1> QED
  BY <1>8, <1>16

LEMMA FirstSound ==
    ASSUME MigrationInit
    PROVE  MigrationInv
<1>1. PICK r \in FirstRevisions :
          LET empty == Database(r, r > 0 \/ dialect # "sqlite") IN
          \/ db = empty
          \/ /\ r \in 1..6
             /\ \E e \in Endpoints, status \in {"absent", "queued"}, c \in Clients :
                \E tokens \in IF r = 6 THEN SUBSET {c} ELSE {{}} :
                    db = Used(empty, {e}, status, c, tokens)
  BY DEF MigrationInit
<1>2. r \in 0..9
  BY MigrationsAssumption DEF MigrationsAssumption, HeadRevision
<1>3. PICK macos : macos = (r > 0 \/ dialect # "sqlite")
  OBVIOUS
<1>4. PICK d : d = Database(r, macos)
  OBVIOUS
<1>5. Fits(d) /\ d.rev = r /\ d.macos = macos
  BY <1>2, <1>4, EmptyFits
<1>6. d.results = {} /\ d.profiles = [c \in Clients |-> "absent"]
  BY <1>4 DEF Database
<1>7. Fits(db) /\ db.macos = macos
  <2>1. CASE db = d
    BY <1>5, <2>1
  <2>2. CASE /\ r \in 1..6
             /\ \E e \in Endpoints, status \in {"absent", "queued"}, c \in Clients :
                \E tokens \in IF r = 6 THEN SUBSET {c} ELSE {{}} :
                    db = Used(d, {e}, status, c, tokens)
    <3>1. PICK e \in Endpoints, status \in {"absent", "queued"}, c \in Clients :
              \E tokens \in IF r = 6 THEN SUBSET {c} ELSE {{}} : db = Used(d, {e}, status, c, tokens)
      BY <2>2
    <3>2. PICK tokens \in IF r = 6 THEN SUBSET {c} ELSE {{}} : db = Used(d, {e}, status, c, tokens)
      BY <3>1
    <3>3. d.rev \in 1..6 /\ (d.rev < 6 => tokens = {})
      BY <1>5, <2>2, <3>2
    <3>4. Fits(db) /\ db.rev = d.rev /\ db.macos = d.macos
      BY <1>5, <1>6, <3>2, <3>3, UsedFits
    <3> QED
      BY <1>5, <3>4
  <2> QED
    BY <1>1, <1>3, <1>4, <2>1, <2>2
<1>8. dialect # "sqlite" => db.macos
  BY <1>3, <1>7, Zenon
<1>9. /\ \A s \in Starters : starters[s].pc = "off"
      /\ starters \in [Starters -> StarterTypes]
      /\ lock = Null /\ dialect \in Dialects
  <2>1. \A mode \in {"upgrade", "check"} :
            Starter(mode, "off") \in StarterTypes /\ Starter(mode, "off").pc = "off"
    BY DEF Starter, StarterTypes, StarterStates
  <2>2. starters \in [Starters -> {Starter(mode, "off") : mode \in {"upgrade", "check"}}]
    BY DEF MigrationInit
  <2>3. ASSUME NEW s \in Starters
        PROVE  starters[s] \in StarterTypes /\ starters[s].pc = "off"
    BY <2>1, <2>2
  <2> QED
    BY <2>2, <2>3 DEF MigrationInit
<1>10. Null \notin Starters
  BY MigrationsAssumption DEF MigrationsAssumption
<1>11. StartersSound
  BY <1>8, <1>9, <1>10 DEF StartersSound, Locking, Pending
<1> QED
  BY <1>7, <1>11 DEF MigrationInv

-----------------------------------------------------------------------------
(* The theorems *)

LEMMA MigrationInvariant == MigrationSpec => []MigrationInv
<1>1. MigrationInit => MigrationInv
  BY FirstSound
<1>2. MigrationInv /\ [MigrationNext]_migrationVars => MigrationInv'
  BY StepSound DEF MigrationInv
<1> QED
  BY <1>1, <1>2, PTL DEF MigrationSpec

(* Whoever may see an approval of a derived scope may see its endpoints.   *)
LEMMA ScopePermits ==
    ASSUME NEW a, NEW endpoints, RowFits(a, endpoints), a.scope.state = "active", NEW e \in a.targets
    PROVE  permits_scope({ScopeGrant(IF a.scope.location = Null THEN ClientScope(a.scope.client)
                                     ELSE LocationScope(a.scope.client, a.scope.location),
                                     {"approval.read"})},
                         "approval.read", EndpointScope[e].client, EndpointScope[e].location)
<1>1. /\ e \in Endpoints /\ EndpointScope[e].client = a.scope.client
      /\ a.scope.location # Null => EndpointScope[e].location = a.scope.location
  BY DEF RowFits
<1>2. EndpointScope[e].client # Null /\ EndpointScope[e].location # Null
  BY <1>1, MigrationsAssumption DEF MigrationsAssumption
<1> DEFINE g == ScopeGrant(IF a.scope.location = Null THEN ClientScope(a.scope.client)
                           ELSE LocationScope(a.scope.client, a.scope.location),
                           {"approval.read"})
<1>3. permits(g, "approval.read", EndpointScope[e].client, EndpointScope[e].location)
  BY <1>1, <1>2 DEF permits, Equals, ScopeGrant, ClientScope, LocationScope
<1> HIDE DEF g
<1>4. permits_scope({g}, "approval.read", EndpointScope[e].client, EndpointScope[e].location)
  BY <1>3 DEF permits_scope
<1> QED
  BY <1>4 DEF g

(* Up and down through the revisions, in any order and with the application *)
(* at work in between and beside an upgrade's statements, the rows, the    *)
(* role catalogue and the derived scopes fit the revision that the         *)
(* database is at, with old names of controls only where they came after   *)
(* the migration looked for them (the upgrade and downgrade functions of   *)
(* alembic/versions and the downgrades' own checks).                       *)
THEOREM DatabaseFitsRevisionAlways == MigrationSpec => []DatabaseFitsRevision
<1>1. MigrationInv => DatabaseFitsRevision
  <2>1. SUFFICES ASSUME MigrationInv PROVE DatabaseFitsRevision
    OBVIOUS
  <2>2. Fits(db) /\ StartersSound
    BY <2>1 DEF MigrationInv
  <2>3. /\ db.rev \in 0..9 /\ PostureFits(db.rev, db.snapshots, db.results, db.missed)
        /\ RequestsFit(db.rev, db.requests, db.endpoints) /\ GrantsFit(db.grants, db.endpoints)
        /\ EventsFit(db.events, db.requests) /\ ActionsFit(db.rev, db.actions)
        /\ ProfilesFit(db.rev, db.profiles)
        /\ LaterFits(db.rev, db.tokens, db.devices, db.protocol, db.security, db.fleet)
        /\ CatalogFits(db.rev, db.catalog)
    BY <2>2 DEF Fits
  <2>4. MigrationTypeOK
    <3>1. \A i \in Rows : /\ db.requests[i].is \in ApprovalStates \ {"linked", "unlinked"}
                          /\ db.grants[i].is \in ApprovalStates \ {"there"}
                          /\ db.requests[i].scope \in Scopes /\ db.grants[i].scope \in Scopes
                          /\ db.actions[i] \in {"absent", "queued", "leased"}
      BY <2>3 DEF RequestsFit, GrantsFit, ActionsFit, RowFits, ApprovalStates
    <3>2. /\ dialect \in Dialects /\ lock \in Starters \cup {Null}
          /\ \A s \in Starters :
                 starters[s].pc \in {"locked", "migrating", "done", "refused"} <=> lock = s
      BY <2>2 DEF StartersSound, Locking
    <3>3. /\ db.snapshots \subseteq Snapshots /\ \A r \in db.results : r.snapshot \in db.snapshots
          /\ \A r, o \in db.results : r.snapshot = o.snapshot /\ r.control = o.control => r = o
          /\ db.events \subseteq {i \in Rows : db.requests[i].is = "there"}
      BY <2>3 DEF PostureFits, EventsFit
    <3> QED
      BY <2>3, <3>1, <3>2, <3>3 DEF MigrationTypeOK, HeadRevision
  <2>5. RowsFitRevision(db)
    BY <2>3 DEF RowsFitRevision, PostureFits, RequestsFit, ActionsFit, ProfilesFit, LaterFits
  <2>6. CatalogMatchesRevision(db)
    BY <2>3 DEF CatalogMatchesRevision, CatalogFits
  <2>7. MigratedScopesFit(db)
    <3>1. ASSUME NEW i \in Rows, NEW a \in {db.requests[i], db.grants[i]}, a.scope.state = "active"
          PROVE  /\ a.targets # {} /\ a.targets \subseteq db.endpoints
                 /\ \A e \in a.targets : permits_scope(
                        {ScopeGrant(IF a.scope.location = Null THEN ClientScope(a.scope.client)
                                    ELSE LocationScope(a.scope.client, a.scope.location),
                                    {"approval.read"})},
                        "approval.read", EndpointScope[e].client, EndpointScope[e].location)
      <4>1. RowFits(a, db.endpoints)
        BY <2>3 DEF RequestsFit, GrantsFit
      <4>2. a.targets # {} /\ a.targets \subseteq db.endpoints
        BY <3>1, <4>1 DEF RowFits
      <4> QED
        BY <3>1, <4>1, <4>2, ScopePermits
    <3> QED
      BY <3>1 DEF MigratedScopesFit
  <2> QED
    BY <2>4, <2>5, <2>6, <2>7 DEF DatabaseFitsRevision
<1> QED
  BY <1>1, MigrationInvariant, PTL

(* However many programs start at once, in either mode, and whichever of   *)
(* them stops half way, one serves only a database at the head revision    *)
(* (prepare, require_current_database, the advisory lock).                 *)
THEOREM ServingIsCurrentAlways == MigrationSpec => []ServingIsCurrent
<1>1. MigrationInv => ServingIsCurrent
  BY DEF MigrationInv, StartersSound, ServingIsCurrent, HeadRevision
<1> QED
  BY <1>1, MigrationInvariant, PTL

(* No upgrade, no downgrade and no write of the application loses a        *)
(* snapshot, an event, a grant or an action                                *)
(* (_restore_sqlite_endpoint_dependents, _restore_sqlite_table), and a     *)
(* result under an old name goes only where another one of its control, in *)
(* its snapshot, is kept with the outcome that it had (0002, 0004).        *)
THEOREM EvidenceSurvivesAlways == MigrationSpec => EvidenceSurvives
<1>1. MigrationInv /\ [MigrationNext]_migrationVars => [Survives(db, db')]_migrationVars
  BY StepSound
<1> QED
  BY <1>1, MigrationInvariant, PTL DEF MigrationSpec, EvidenceSurvives
=============================================================================
