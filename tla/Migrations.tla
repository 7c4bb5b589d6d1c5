----------------------------- MODULE Migrations -----------------------------
(***************************************************************************)
(* The database's revisions (backend/alembic/versions) and the programs    *)
(* that bring it to head when they start (backend/app/db.py,               *)
(* migrations.py, backend/alembic/env.py).                                 *)
(*                                                                         *)
(* A database is a record of the rows that some revision touches.  On      *)
(* PostgreSQL a table is altered in place and a starter is one transaction *)
(* under an advisory lock, whose statements meet the rows that are         *)
(* committed when each of them runs: the columns `missed` and `unseen` of  *)
(* the record are no data, but note what they did not meet.  On SQLite a   *)
(* table is altered by a copy: the old table is dropped, which deletes its *)
(* rows and, where the connection enforces foreign keys, the rows that     *)
(* refer to them.                                                          *)
(*                                                                         *)
(* An approval request, its grant and the action of the grant carry one    *)
(* number.  The application of each revision adds rows meanwhile, where    *)
(* no table that it needs is being altered.                                *)
(***************************************************************************)
EXTENDS Authorization, Naturals, FiniteSets, Sequences

CONSTANTS
    Starters,       \* programs that prepare the database
    Dialects,       \* "sqlite", "postgresql"
    Rows,           \* numbers of approval requests
    Snapshots,      \* posture snapshots
    Controls,       \* control keys that reporters have sent
    Statuses,       \* outcomes of a control
    Clients,        \* clients with an installer profile of one name
    Endpoints,
    EndpointScope,  \* [Endpoints -> client and location]
    FirstRevisions, \* revisions that the database may start at
    MaxWork         \* bound on the rows that the application adds

VARIABLES
    dialect,   \* what the database is
    db,        \* the committed database
    lock,      \* who holds the advisory lock
    starters,  \* the starters: [mode, pc, seen, met, known]
    work       \* rows that the application added

migrationVars == <<dialect, db, lock, starters, work>>

HeadRevision == 9

ASSUME MigrationsAssumption ==
    /\ Null \notin Starters \cup Clients
    /\ IsFiniteSet(Endpoints)
    /\ EndpointScope \in [Endpoints -> [client : Clients, location : STRING]]
    /\ \A e \in Endpoints : EndpointScope[e].location # Null
    /\ FirstRevisions \subseteq 0..HeadRevision
    /\ MaxWork \in Nat

NoScope == [state |-> "none", client |-> Null, location |-> Null]
Absent == [is |-> "absent", targets |-> {}, scope |-> NoScope]
Request(targets, scope) == [is |-> "there", targets |-> targets, scope |-> scope]

(* A grant is "linked" to its request or "unlinked".                       *)
ApprovalStates == {"absent", "there", "linked", "unlinked"}
Scopes == [state : {"none", "active", "migration_quarantine"},
           client : Clients \cup {Null},
           location : {EndpointScope[e].location : e \in Endpoints} \cup {Null}]

-----------------------------------------------------------------------------
(* 0002 and 0004: old names of controls *)

_ALIASES_0002 ==
    << <<"windows.defender.real-time-protection", "control.windows.defender-real-time-protection">>,
       <<"windows.firewall.all-profiles-enabled", "control.windows.firewall-all-profiles">> >>

_ALIASES_0004 ==
    << <<"journald.storage-persistent", "linux.telemetry.security-logging">>,
       <<"linux.ssh.disable_password_authentication", "linux.ssh.password-authentication-disabled">>,
       <<"ssh.disable-password-authentication", "linux.ssh.password-authentication-disabled">>,
       <<"ufw.enabled", "linux.firewall.service-active">>,
       <<"windows.defender.real-time-protection", "control.windows.defender-real-time-protection">>,
       <<"windows.defender.real_time_protection", "control.windows.defender-real-time-protection">>,
       <<"windows.firewall.all-profiles-enabled", "control.windows.firewall-all-profiles">>,
       <<"windows.firewall.all_profiles", "control.windows.firewall-all-profiles">> >>

Renames == {_ALIASES_0004[k] : k \in DOMAIN _ALIASES_0004}
OldNames == {p[1] : p \in Renames}

(* The aliases are taken in turn.  A result that is met under one gets the *)
(* new name, or goes when its snapshot has a result under the new name,    *)
(* from the start or from an alias before.                                 *)
RenameAll(d, aliases) ==
    LET Met(r, k) == r.control = aliases[k][1] /\ r.control \notin d.missed[r.snapshot]
        Duplicate(r, k) ==
            \E o \in d.results :
                /\ o.snapshot = r.snapshot
                /\ \/ o.control = aliases[k][2]
                   \/ \E j \in 1..(k - 1) : Met(o, j) /\ aliases[j][2] = aliases[k][2]
        updated == {x \in d.results \X DOMAIN aliases :
                        Met(x[1], x[2]) /\ ~Duplicate(x[1], x[2])}
    IN  [d EXCEPT !.results = {r \in @ : \A k \in DOMAIN aliases : ~Met(r, k)} \cup
                              {[x[1] EXCEPT !.control = aliases[x[2]][2]] : x \in updated}]

-----------------------------------------------------------------------------
(* Tables that are dropped and restored on SQLite *)

(* Whether dropping a table reaches the rows that refer to it. *)
Cascades(enforced) == dialect = "sqlite" /\ enforced

(* Rows of posture_snapshots, posture_results and response_actions go with *)
(* their endpoint.                                                         *)
DropEndpoints(d) ==
    [d EXCEPT !.snapshots = {}, !.results = {}, !.actions = [i \in Rows |-> "absent"]]

(* Events go with their request; a grant keeps its row without it. *)
DropRequests(d) ==
    [d EXCEPT !.events = {},
              !.grants = [i \in Rows |-> IF @[i].is = "linked"
                                         THEN [@[i] EXCEPT !.is = "unlinked"] ELSE @[i]]]

DropGrants(d) == [d EXCEPT !.actions = [i \in Rows |-> "absent"]]

(* Mistake: the rows are not put aside. *)
RebuildEndpointsOnly(d, enforced) == IF Cascades(enforced) THEN DropEndpoints(d) ELSE d

(* batch_alter_table("endpoints") between _backup_sqlite_endpoint_         *)
(* dependents and _restore_sqlite_endpoint_dependents, which puts back the *)
(* rows that are missing.                                                  *)
RebuildEndpoints(d, enforced) ==
    IF ~Cascades(enforced) THEN d
    ELSE LET n == DropEndpoints(d) IN
         [n EXCEPT !.snapshots = @ \cup d.snapshots,
                   !.results = @ \cup d.results,
                   !.actions = [i \in Rows |-> IF @[i] = "absent" THEN d.actions[i] ELSE @[i]]]

(* approval_requests and approval_grants are altered in turn, the rows     *)
(* that are missing restored by _restore_sqlite_table in between.          *)
RebuildApprovals(d, enforced) ==
    IF ~Cascades(enforced) THEN d
    ELSE LET n == DropRequests(d)
             r == [n EXCEPT !.events = @ \cup d.events,
                            !.grants = [i \in Rows |-> IF @[i].is = "absent"
                                                       THEN d.grants[i] ELSE @[i]]]
             g == DropGrants(r)
         IN  [g EXCEPT !.actions = [i \in Rows |-> IF @[i] = "absent"
                                                   THEN d.actions[i] ELSE @[i]]]

(* Enrollment tokens restrict the deletion of their installer profile. *)
ProfilesCanBeDropped(d, enforced) ==
    Cascades(enforced) => \A c \in Clients : d.profiles[c] = "absent" \/ c \notin d.tokens

-----------------------------------------------------------------------------
(* 0007: scopes of approvals and the catalog of roles *)

(* Mistake: endpoints that are not there do not count. *)
ScopeOfKnown(endpoints, targets) ==
    LET found == targets \cap endpoints
        clients == {EndpointScope[e].client : e \in found}
        locations == {EndpointScope[e].location : e \in found}
    IN  IF Cardinality(clients) # 1
        THEN [NoScope EXCEPT !.state = "migration_quarantine"]
        ELSE [state |-> "active", client |-> CHOOSE c \in clients : TRUE,
              location |-> IF Cardinality(locations) = 1
                           THEN CHOOSE l \in locations : TRUE ELSE Null]

_scope_for_endpoint_ids(endpoints, targets) ==
    LET clients == {EndpointScope[e].client : e \in targets}
        locations == {EndpointScope[e].location : e \in targets}
    IN  IF ~(targets \subseteq endpoints) \/ Cardinality(clients) # 1
        THEN [NoScope EXCEPT !.state = "migration_quarantine"]
        ELSE [state |-> "active", client |-> CHOOSE c \in clients : TRUE,
              location |-> IF Cardinality(locations) = 1
                           THEN CHOOSE l \in locations : TRUE ELSE Null]

(* Each row of `table` gets the scope that Of gives to its endpoints. *)
Scoped(table, Of(_)) ==
    [i \in Rows |-> IF table[i].is = "absent" THEN table[i]
                    ELSE [table[i] EXCEPT !.scope = Of(table[i].targets)]]

_backfill_approval_scopes(d) ==
    LET Of(targets) == _scope_for_endpoint_ids(d.endpoints \ d.unseen, targets) IN
    [d EXCEPT !.requests = Scoped(@, Of), !.grants = Scoped(@, Of)]

WithoutScopes(d) ==
    LET Of(targets) == NoScope IN
    [d EXCEPT !.requests = Scoped(@, Of), !.grants = Scoped(@, Of)]

RoleNames == DOMAIN RolePermissions
NoCatalog == [r \in RoleNames |-> {}]

_ROLE_PERMISSIONS ==
    LET reads == READONLY_PERMISSIONS \ FleetReads IN
    [viewer    |-> reads,
     operator  |-> reads \cup RequestPermissions,
     responder |-> reads \cup RequestPermissions \cup ResponsePermissions,
     approver  |-> reads \cup DecisionPermissions,
     admin     |-> RolePermissions.admin \ (FleetReads \cup FleetChanges)]

_ROLE_PERMISSION_ADDITIONS ==
    [viewer |-> FleetReads, operator |-> FleetReads \cup FleetChanges,
     responder |-> FleetReads \cup FleetChanges, approver |-> FleetReads,
     admin |-> FleetReads \cup FleetChanges]

_remove_role_permissions(catalog) ==
    [r \in RoleNames |-> catalog[r] \ _ROLE_PERMISSION_ADDITIONS[r]]

-----------------------------------------------------------------------------
(* Revisions *)

(* What the revisions that touch rows do to them. *)
upgrade_0002(d) == RenameAll(d, _ALIASES_0002)
upgrade_0004(d) == RenameAll(d, _ALIASES_0004)
upgrade_0005(d) == RebuildEndpoints(d, TRUE)
upgrade_0006(d) == RebuildEndpoints(d, TRUE)
upgrade_0007(d) ==
    [RebuildApprovals(_backfill_approval_scopes(d), TRUE) EXCEPT !.catalog = _ROLE_PERMISSIONS]
upgrade_0008(d) ==
    [d EXCEPT !.catalog = [x \in RoleNames |-> @[x] \cup _ROLE_PERMISSION_ADDITIONS[x]]]

upgrade(d, r) ==
    LET n == CASE r = 2 -> upgrade_0002(d)
               [] r = 4 -> upgrade_0004(d)
               [] r = 5 -> upgrade_0005(d)
               [] r = 6 -> upgrade_0006(d)
               [] r = 7 -> upgrade_0007(d)
               [] r = 8 -> upgrade_0008(d)
               [] OTHER -> d
    IN  [n EXCEPT !.rev = r]

(* 0009 alters installer_profiles. *)
UpgradeFails(d) == d.rev < 9 /\ ~ProfilesCanBeDropped(d, TRUE)

(* command.upgrade(config, "head"): the revisions that are missing, in     *)
(* turn.                                                                   *)
UpTo(r, d) == IF d.rev < r THEN upgrade(d, r) ELSE d

upgrade_database(d) ==
    UpTo(9, UpTo(8, UpTo(7, UpTo(6, UpTo(5, UpTo(4, UpTo(3, UpTo(2, UpTo(1, d)))))))))

(* The checks that downgrades make before they change anything. *)
downgrade_safe_0005(d) == Cardinality({c \in Clients : d.profiles[c] # "absent"}) <= 1
downgrade_safe_0006(d) == ~d.devices /\ d.tokens = {}
downgrade_safe_0007(d) == ~d.security /\ d.catalog = _ROLE_PERMISSIONS
downgrade_safe_0008(d) ==
    ~d.fleet /\ \A r \in RoleNames : _ROLE_PERMISSION_ADDITIONS[r] \subseteq d.catalog[r]
downgrade_safe_0009(d) == ~d.protocol /\ \A c \in Clients : d.profiles[c] # "go_agent"

_assert_downgrade_safe(d) ==
    CASE d.rev = 9 -> downgrade_safe_0009(d)
      [] d.rev = 8 -> downgrade_safe_0008(d)
      [] d.rev = 7 -> downgrade_safe_0007(d)
      [] d.rev = 6 -> downgrade_safe_0006(d)
      [] d.rev = 5 -> downgrade_safe_0005(d)
      [] OTHER -> d.rev > 1

(* What the downgrades do to the rows.  0003 takes the leases away. *)
downgrade_0003(d) ==
    [d EXCEPT !.actions = [i \in Rows |-> IF @[i] = "leased" THEN "queued" ELSE @[i]]]
downgrade_0005(d, enforced) == RebuildEndpoints(d, enforced)
downgrade_0006(d, enforced) == RebuildEndpoints(d, enforced)
downgrade_0007(d, enforced) ==
    [WithoutScopes(RebuildApprovals(d, enforced)) EXCEPT !.catalog = NoCatalog]
downgrade_0008(d) == [d EXCEPT !.catalog = _remove_role_permissions(@)]

(* One revision back. *)
downgrade(d, enforced) ==
    LET n == CASE d.rev = 8 -> downgrade_0008(d)
               [] d.rev = 7 -> downgrade_0007(d, enforced)
               [] d.rev = 6 -> downgrade_0006(d, enforced)
               [] d.rev = 5 -> downgrade_0005(d, enforced)
               [] d.rev = 3 -> downgrade_0003(d)
               [] OTHER -> d
    IN  [n EXCEPT !.rev = @ - 1]

(* The tables of a database that is older than 0001 on SQLite: they are    *)
(* copied with foreign keys off.                                           *)
run_sqlite_migrations(d) == IF dialect = "sqlite" THEN [d EXCEPT !.macos = TRUE] ELSE d

(* Mistake: any revision will do. *)
require_some_database(d) == d.rev # 0

require_current_database(d) == d.rev = HeadRevision

-----------------------------------------------------------------------------
(* Starters *)

Move(s, pc) == starters' = [starters EXCEPT ![s].pc = pc]

(* What a starter has read goes with its transaction. *)
Starter(mode, pc) == [mode |-> mode, pc |-> pc, seen |-> 0, met |-> {}, known |-> {}]
End(s, pc) == starters' = [starters EXCEPT ![s] = Starter(@.mode, pc)]

(* prepare on SQLite: one writer, and no lock.                             *)
PrepareSqlite(s) ==
    LET d == run_sqlite_migrations(db) IN
    /\ dialect = "sqlite"
    /\ starters[s].pc = "off"
    /\ IF starters[s].mode = "check"
       THEN /\ db' = d
            /\ Move(s, IF require_current_database(d) THEN "serving" ELSE "failed")
       ELSE IF UpgradeFails(d)
       THEN db' = d /\ Move(s, "failed")
       ELSE db' = upgrade_database(d) /\ Move(s, "serving")
    /\ UNCHANGED <<dialect, lock, work>>

(* prepare on PostgreSQL: pg_advisory_lock ... *)
Lock(s) ==
    /\ dialect = "postgresql"
    /\ starters[s].pc = "off"
    /\ lock = Null
    /\ lock' = s
    /\ Move(s, "locked")
    /\ UNCHANGED <<dialect, db, work>>

(* ... the revision and, from an old one, the first look for old names ... *)
Begin(s) ==
    /\ starters[s].pc = "locked"
    /\ starters' = [starters EXCEPT
                      ![s].pc = IF require_current_database(db) THEN "done"
                                ELSE IF starters[s].mode = "check" THEN "refused" ELSE "migrating",
                      ![s].seen = db.rev, ![s].met = db.snapshots]
    /\ UNCHANGED <<dialect, db, lock, work>>

(* Its tables are altered, and it is not committed. *)
Pending(s) == starters[s].pc \in {"done", "commit"} /\ starters[s].seen # HeadRevision

(* ... the other statements, in the starter's transaction.  They wait for  *)
(* one that has altered the same tables, and fail when it was committed.   *)
Migrate(s) ==
    /\ starters[s].pc = "migrating"
    /\ \A x \in Starters : ~Pending(x)
    /\ starters' = [starters EXCEPT
                      ![s].pc = IF db.rev = starters[s].seen THEN "done" ELSE "refused",
                      ![s].known = db.endpoints]
    /\ UNCHANGED <<dialect, db, lock, work>>

(* pg_advisory_unlock, also after an error ... *)
Unlock(s) ==
    /\ starters[s].pc \in {"done", "refused"}
    /\ lock' = Null
    /\ IF starters[s].pc = "done" THEN Move(s, "commit") ELSE End(s, "failed")
    /\ UNCHANGED <<dialect, db, work>>

(* Each alias has a SELECT of its own: a snapshot that comes between them  *)
(* is met by those that follow.                                            *)
LateNames == {{_ALIASES_0004[j][1] : j \in 1..k} : k \in 0..Len(_ALIASES_0004)}

Missed(s) ==
    IF starters[s].seen >= 4 THEN {db.missed}
    ELSE {m \in [Snapshots -> LateNames] :
              \A n \in Snapshots : n \notin db.snapshots \ starters[s].met => m[n] = {}}

(* ... and only then the end of the transaction, with what the statements  *)
(* made of the rows that they met.                                         *)
Commit(s) ==
    /\ starters[s].pc = "commit"
    /\ IF starters[s].seen = HeadRevision
       THEN UNCHANGED db
       ELSE \E missed \in Missed(s) :
                db' = upgrade_database([db EXCEPT !.missed = missed,
                                                  !.unseen = db.endpoints \ starters[s].known])
    /\ End(s, "serving")
    /\ UNCHANGED <<dialect, lock, work>>

(* A starter ends: its session's lock and its transaction end with it.     *)
Stop(s) ==
    /\ starters[s].pc # "off"
    /\ End(s, "off")
    /\ lock' = IF lock = s THEN Null ELSE lock
    /\ UNCHANGED <<dialect, db, work>>

(* An operator goes one revision back while nobody serves; alembic's own   *)
(* connection does not enforce foreign keys on SQLite, one that is handed  *)
(* to it may.                                                              *)
Downgrade(enforced) ==
    /\ \A s \in Starters : starters[s].pc \in {"off", "failed"}
    /\ _assert_downgrade_safe(db)
    /\ db.rev = 9 => ProfilesCanBeDropped(db, enforced)
    /\ db' = downgrade(db, enforced)
    /\ UNCHANGED <<dialect, lock, starters, work>>

-----------------------------------------------------------------------------
(* The application of the database's revision *)

(* A migration from before `r` that is not committed locks what it alters. *)
Unlocked(r) == \A s \in Starters : Pending(s) => starters[s].seen >= r

(* 0006 and those before it alter endpoints, which all rows refer to.      *)
Write(d) ==
    /\ work < MaxWork
    /\ Unlocked(6)
    /\ d # db
    /\ db' = d
    /\ work' = work + 1
    /\ UNCHANGED <<dialect, lock, starters>>

(* `f` gives the outcome of each control in the report. *)
Report(n, f) ==
    /\ n \notin db.snapshots
    /\ db.rev >= 4 => DOMAIN f \cap OldNames = {}
    /\ Write([db EXCEPT !.snapshots = @ \cup {n},
                        !.results = @ \cup {[snapshot |-> n, control |-> c, status |-> f[c]] :
                                                c \in DOMAIN f}])

Enroll(e) == Write([db EXCEPT !.endpoints = @ \cup {e}])

(* From 0007 on, which alters the tables of approvals, an approval has a   *)
(* scope from the start, and an audit event.                               *)
AskApproval(i, targets) ==
    LET scope == IF db.rev >= 7 THEN _scope_for_endpoint_ids(db.endpoints, targets) ELSE NoScope IN
    /\ Unlocked(7)
    /\ db.requests[i] = Absent /\ db.grants[i] = Absent
    /\ scope.state # "migration_quarantine"
    /\ Write([db EXCEPT !.requests[i] = Request(targets, scope), !.events = @ \cup {i},
                        !.security = @ \/ db.rev >= 7])

GiveApproval(i) ==
    /\ Unlocked(7)
    /\ db.requests[i].is = "there" /\ db.grants[i] = Absent
    /\ Write([db EXCEPT !.grants[i] = [db.requests[i] EXCEPT !.is = "linked"],
                        !.security = @ \/ db.rev >= 7])

Queue(i) ==
    /\ Unlocked(7)
    /\ db.grants[i] # Absent /\ db.actions[i] = "absent"
    /\ Write([db EXCEPT !.actions[i] = "queued", !.security = @ \/ db.rev >= 7])

Claim(i) ==
    /\ Unlocked(7)
    /\ db.rev >= 3 /\ db.actions[i] = "queued"
    /\ Write([db EXCEPT !.actions[i] = "leased"])

AddProfile(c, kind) ==
    /\ db.profiles[c] = "absent"
    /\ db.rev < 5 => \A x \in Clients : db.profiles[x] = "absent"
    /\ db.rev < 9 => kind = "legacy_reporter"
    /\ Write([db EXCEPT !.profiles[c] = kind, !.security = @ \/ db.rev >= 7])

AddToken(c) ==
    /\ db.rev >= 6 /\ db.profiles[c] # "absent"
    /\ Write([db EXCEPT !.tokens = @ \cup {c}, !.security = @ \/ db.rev >= 7])

EnrollDevice ==
    /\ db.tokens # {}
    /\ Write([db EXCEPT !.devices = TRUE, !.protocol = db.rev = 9])

LoginOrTag(fleet) ==
    /\ db.rev >= IF fleet THEN 8 ELSE 7
    /\ Write([db EXCEPT !.security = TRUE, !.fleet = @ \/ fleet])

Application ==
    \/ \E n \in Snapshots, controls \in SUBSET Controls :
           \E f \in [controls -> Statuses] : Report(n, f)
    \/ \E e \in Endpoints : Enroll(e)
    \/ \E i \in Rows : \/ \E targets \in SUBSET Endpoints : AskApproval(i, targets)
                       \/ GiveApproval(i) \/ Queue(i) \/ Claim(i)
    \/ \E c \in Clients : \/ \E kind \in {"legacy_reporter", "go_agent"} : AddProfile(c, kind)
                          \/ AddToken(c)
    \/ EnrollDevice
    \/ \E fleet \in BOOLEAN : LoginOrTag(fleet)

-----------------------------------------------------------------------------

(* An empty database of revision r; before 0001 it may be of a version     *)
(* that did not know macOS.                                                *)
Database(r, macos) ==
    [rev |-> r, macos |-> macos, snapshots |-> {}, results |-> {},
     missed |-> [n \in Snapshots |-> {}], unseen |-> {},
     requests |-> [i \in Rows |-> Absent], events |-> {}, grants |-> [i \in Rows |-> Absent],
     actions |-> [i \in Rows |-> "absent"], endpoints |-> {},
     profiles |-> [c \in Clients |-> "absent"], tokens |-> {}, devices |-> FALSE,
     protocol |-> FALSE, security |-> FALSE, fleet |-> FALSE,
     catalog |-> IF r < 7 THEN NoCatalog ELSE IF r = 7 THEN _ROLE_PERMISSIONS
                 ELSE RolePermissions]

(* One that has been used before 0007: grants for some endpoints, with or  *)
(* without their actions, and a profile with enrollment tokens or none.    *)
Used(d, targets, status, c, tokens) ==
    LET request == Request(targets, NoScope) IN
    [d EXCEPT !.endpoints = targets, !.events = Rows, !.profiles[c] = "legacy_reporter",
              !.requests = [i \in Rows |-> request],
              !.grants = [i \in Rows |-> [request EXCEPT !.is = "linked"]],
              !.actions = [i \in Rows |-> status], !.tokens = tokens]

MigrationInit ==
    /\ dialect \in Dialects
    /\ \E r \in FirstRevisions :
           LET empty == Database(r, r > 0 \/ dialect # "sqlite") IN
           \/ db = empty
           \/ /\ r \in 1..6
              /\ \E e \in Endpoints, status \in {"absent", "queued"}, c \in Clients :
                 \E tokens \in IF r = 6 THEN SUBSET {c} ELSE {{}} :
                     db = Used(empty, {e}, status, c, tokens)
    /\ lock = Null
    /\ starters \in [Starters -> {Starter(mode, "off") : mode \in {"upgrade", "check"}}]
    /\ work = 0

StarterStep(s) ==
    \/ PrepareSqlite(s)
    \/ Lock(s) \/ Begin(s) \/ Migrate(s) \/ Unlock(s) \/ Commit(s)
    \/ Stop(s)

MigrationNext ==
    \/ \E s \in Starters : StarterStep(s)
    \/ \E enforced \in BOOLEAN : Downgrade(enforced)
    \/ Application

MigrationSpec == MigrationInit /\ [][MigrationNext]_migrationVars
-----------------------------------------------------------------------------
(* Properties *)

MigrationTypeOK ==
    /\ dialect \in Dialects
    /\ db.rev \in 0..HeadRevision
    /\ db.snapshots \subseteq Snapshots /\ \A r \in db.results : r.snapshot \in db.snapshots
    /\ \A r, o \in db.results : r.snapshot = o.snapshot /\ r.control = o.control => r = o
    /\ db.events \subseteq {i \in Rows : db.requests[i].is = "there"}
    /\ \A i \in Rows : /\ db.requests[i].is \in ApprovalStates \ {"linked", "unlinked"}
                       /\ db.grants[i].is \in ApprovalStates \ {"there"}
                       /\ db.requests[i].scope \in Scopes /\ db.grants[i].scope \in Scopes
                       /\ db.actions[i] \in {"absent", "queued", "leased"}
    /\ lock \in Starters \cup {Null}
    /\ \A s \in Starters :
           starters[s].pc \in {"locked", "migrating", "done", "refused"} <=> lock = s

(* The rows fit the revision, wherever it went up and down: no action is   *)
(* leased where the application does not know leases, from 0004 on a       *)
(* result has an old name only where it came after the migration looked    *)
(* for that name, and nothing that only a later revision knows (tokens and *)
(* devices, security data, fleet metadata, canonical agents) is there      *)
(* before it (the downgrades' own checks, _assert_downgrade_safe and its   *)
(* like, and what they change).                                            *)
RowsFitRevision(d) ==
    /\ d.rev < 3 => \A i \in Rows : d.actions[i] # "leased"
    /\ d.rev >= 4 => \A r \in d.results :
                        r.control \in OldNames => r.control \in d.missed[r.snapshot]
    /\ d.rev < 5 => Cardinality({c \in Clients : d.profiles[c] # "absent"}) <= 1
    /\ d.rev < 6 => d.tokens = {} /\ ~d.devices
    /\ d.rev < 7 => ~d.security
    /\ d.rev < 8 => ~d.fleet
    /\ d.rev < 9 => ~d.protocol /\ \A c \in Clients : d.profiles[c] # "go_agent"
    /\ \A i \in Rows : d.requests[i].is = "there" =>
                          (d.rev >= 7 <=> d.requests[i].scope.state # "none")

(* The roles hold what the service asks for from 0008 on, and at 0007 what *)
(* its downgrade compares with, after any way up and down (_seed_roles,    *)
(* _seed_role_permissions, _remove_role_permissions).                      *)
CatalogMatchesRevision(d) ==
    d.catalog = IF d.rev >= 8 THEN RolePermissions
                 ELSE IF d.rev = 7 THEN _ROLE_PERMISSIONS ELSE NoCatalog

(* An approval that the migration gave a scope to concerns endpoints of    *)
(* that scope only, all of them known (_scope_for_endpoint_ids): whoever   *)
(* may see it may see what it is about.                                    *)
MigratedScopesFit(d) ==
    \A i \in Rows : \A a \in {d.requests[i], d.grants[i]} :
        a.scope.state = "active" =>
            /\ a.targets # {} /\ a.targets \subseteq d.endpoints
            /\ \A e \in a.targets : permits_scope(
                   {ScopeGrant(IF a.scope.location = Null THEN ClientScope(a.scope.client)
                               ELSE LocationScope(a.scope.client, a.scope.location),
                               {"approval.read"})},
                   "approval.read", EndpointScope[e].client, EndpointScope[e].location)

(* The database is one of its revision, wherever it went up and down: its  *)
(* rows, its role catalogue and the scopes that 0007 derived               *)
(* (the upgrade and downgrade functions of alembic/versions).              *)
DatabaseFitsRevision ==
    /\ MigrationTypeOK
    /\ RowsFitRevision(db)
    /\ CatalogMatchesRevision(db)
    /\ MigratedScopesFit(db)

(* A result stays as it is; one with an old name may instead make way for  *)
(* the result x that one of its snapshot, o, has become.                   *)
ResultSurvives(r, old, new) ==
    \/ r \in new
    \/ \E o \in old, x \in new :
           /\ o.snapshot = r.snapshot /\ x.snapshot = r.snapshot
           /\ <<r.control, x.control>> \in Renames
           /\ o.control = x.control \/ <<o.control, x.control>> \in Renames
           /\ x.status = o.status

(* n has what d has. *)
Survives(d, n) ==
    /\ d.snapshots \subseteq n.snapshots
    /\ \A r \in d.results : ResultSurvives(r, d.results, n.results)
    /\ d.events \subseteq n.events
    /\ \A i \in Rows : /\ d.grants[i] # Absent => n.grants[i] # Absent
                       /\ d.actions[i] # "absent" => n.actions[i] # "absent"

(* Every snapshot, event, grant and action is there after a step, although *)
(* SQLite deletes most of them on the way                                  *)
(* (_restore_sqlite_endpoint_dependents, _restore_sqlite_table), and every *)
(* result with its outcome, but for one thing: of several results of a     *)
(* snapshot that have one control under its name and older ones, a single  *)
(* one is left, that under the name where there is one (0002, 0004).       *)
EvidenceSurvives == [][Survives(db, db')]_migrationVars

(* A program serves a current database only, also when several start at    *)
(* once and the lock is free again before the migration is committed       *)
(* (prepare, require_current_database).                                    *)
ServingIsCurrent ==
    \A s \in Starters : starters[s].pc = "serving" => db.rev = HeadRevision /\ db.macos

(* From 0004 on no result has an old name: revisions through head          *)
(* "normalize legacy Windows and operational-observation control IDs"      *)
(* (docs/architecture/current-runtime-contract.md; 0004).                  *)
NoOldNameLeft == db.rev >= 4 => \A r \in db.results : r.control \notin OldNames

(* A grant stays with its request: the migration is to "preserve every     *)
(* approval_grants row" (_restore_sqlite_table, 0007).                     *)
GrantsKeepTheirRequest ==
    [][\A i \in Rows : db.grants[i].is = "linked" => db'.grants[i].is = "linked"]_migrationVars

(* Mode upgrade "upgrades the database to Alembic head before serving"     *)
(* (docs/architecture/current-runtime-contract.md; prepare).               *)
UpgradeReachesHead ==
    \A s \in Starters : starters[s].mode = "upgrade" => starters[s].pc # "failed"
=============================================================================
