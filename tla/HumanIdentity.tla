---------------------------- MODULE HumanIdentity ----------------------------
(***************************************************************************)
(* Browser users of the control plane: OIDC logins, users and their        *)
(* identities, browser sessions, role bindings and the bootstrap of the    *)
(* first Admin (backend/app/api/endpoints/authentication.py, identity.py,  *)
(* bootstrap_admin.py and the session branch of auth.py).                  *)
(*                                                                         *)
(* A worker runs one HTTP request at a time.  A request with a session     *)
(* cookie is authenticated in a transaction of its own, which reads the    *)
(* session, the user and the role bindings without locks and then writes   *)
(* the session's new idle limit; the handler that follows uses the         *)
(* principal this made.  A login callback consumes its transaction under   *)
(* a row lock, asks the provider, and then reads the identity and the user *)
(* without locks before it writes the session.                             *)
(*                                                                         *)
(* A binding is for a role in the global scope; what scopes mean is in     *)
(* module Authorization.  Only the Admin role has identity.manage.         *)
(***************************************************************************)
EXTENDS Naturals, FiniteSets

CONSTANTS
    Subjects,      \* subjects of the OIDC provider
    Users,         \* user ids
    Logins,        \* login transaction ids
    Sessions,      \* browser session ids
    Bindings,      \* role binding ids
    Roles,         \* role keys, "admin" among them
    Workers,       \* concurrent request handlers
    LoginTtl,      \* oidc_login_ttl_minutes
    IdleTtl,       \* session_idle_minutes
    AbsoluteTtl,   \* session_absolute_hours
    MaxClock,      \* bound on the clock
    Nothing

ASSUME HumanAssumption ==
    /\ "admin" \in Roles
    /\ {LoginTtl, IdleTtl, AbsoluteTtl} \subseteq Nat \ {0}
    /\ MaxClock \in Nat
    /\ Nothing \notin Subjects \cup Users \cup Logins \cup Sessions

VARIABLES
    clock,
    users,         \* users.status
    identity,      \* oidc_identities: the user of each subject
    logins,        \* oidc_login_transactions
    answered,      \* whom the provider named for each login (for the properties)
    sessions,      \* browser_sessions
    bindings,      \* user_role_bindings
    job            \* the request each worker is running

humanVars == <<clock, users, identity, logins, answered, sessions, bindings, job>>

UserStatuses == {"absent", "pending", "active", "disabled"}

NoLogin == [status |-> "absent", expires |-> 0]
NoSession == [status |-> "absent", user |-> Nothing, login |-> Nothing, opened |-> 0,
              idle |-> 0, absolute |-> 0]
NoBinding == [status |-> "absent", user |-> Nothing, role |-> "admin", by |-> Nothing]

(* A worker between two steps: what it was asked and what it has read.     *)
(* `row` is the session row it read, `admin` whether its principal holds   *)
(* identity.manage globally, `known` the user its callback found.          *)
Free == [pc |-> "free", login |-> Nothing, subject |-> Nothing, session |-> Nothing,
         row |-> NoSession, user |-> Nothing, admin |-> FALSE, known |-> Nothing, now |-> 0]

SessionRows ==
    [status : {"absent", "open", "revoked"}, user : Users \cup {Nothing},
     login : Logins \cup {Nothing}, opened : Nat, idle : Nat, absolute : Nat]

LoginRows == [status : {"absent", "open", "consumed"}, expires : Nat]

BindingRows ==
    [status : {"absent", "active", "revoked"}, user : Users \cup {Nothing}, role : Roles,
     by : Users \cup {Nothing, "bootstrap"}]

Jobs ==
    [pc : {"free", "exchange", "read", "write", "refresh", "handle"},
     login : Logins \cup {Nothing}, subject : Subjects \cup {Nothing},
     session : Sessions \cup {Nothing}, row : SessionRows, user : Users \cup {Nothing},
     admin : BOOLEAN, known : Users \cup {Nothing}, now : Nat]

HumanTypeOK ==
    /\ clock \in Nat
    /\ users \in [Users -> UserStatuses]
    /\ identity \in [Subjects -> Users \cup {Nothing}]
    /\ logins \in [Logins -> LoginRows]
    /\ answered \in [Logins -> Subjects \cup {Nothing}]
    /\ sessions \in [Sessions -> SessionRows]
    /\ bindings \in [Bindings -> BindingRows]
    /\ job \in [Workers -> Jobs]

HumanInit ==
    /\ clock = 0
    /\ users = [u \in Users |-> "absent"]
    /\ identity = [x \in Subjects |-> Nothing]
    /\ logins = [l \in Logins |-> NoLogin]
    /\ answered = [l \in Logins |-> Nothing]
    /\ sessions = [s \in Sessions |-> NoSession]
    /\ bindings = [b \in Bindings |-> NoBinding]
    /\ job = [w \in Workers |-> Free]

Smaller(m, n) == IF m <= n THEN m ELSE n

HumanTick ==
    /\ clock < MaxClock
    /\ clock' = clock + 1
    /\ UNCHANGED <<users, identity, logins, answered, sessions, bindings, job>>

End(w) == job' = [job EXCEPT ![w] = Free]

-----------------------------------------------------------------------------
(* Logging in *)

(* begin_oidc_login; what the provider's metadata lacks ends it before it  *)
(* writes anything.                                                        *)
BeginLogin(l) ==
    /\ logins[l].status = "absent"
    /\ logins' = [logins EXCEPT ![l] = [status |-> "open", expires |-> clock + LoginTtl]]
    /\ UNCHANGED <<clock, users, identity, answered, sessions, bindings, job>>

(* Mistake: a login transaction is not marked as consumed. *)
ConsumeAgain(w, l) ==
    /\ job[w].pc = "free"
    /\ logins[l].status = "open"
    /\ logins[l].expires > clock
    /\ job' = [job EXCEPT ![w] = [Free EXCEPT !.pc = "exchange", !.login = l]]
    /\ UNCHANGED <<clock, users, identity, logins, answered, sessions, bindings>>

(* complete_oidc_login, its first transaction: the locked row is consumed, *)
(* whatever comes after.                                                   *)
ConsumeLogin(w, l) ==
    /\ job[w].pc = "free"
    /\ logins[l].status = "open"
    /\ logins[l].expires > clock
    /\ logins' = [logins EXCEPT ![l].status = "consumed"]
    /\ job' = [job EXCEPT ![w] = [Free EXCEPT !.pc = "exchange", !.login = l]]
    /\ UNCHANGED <<clock, users, identity, answered, sessions, bindings>>

(* The provider names a subject.  The clock is read again. *)
LearnSubject(w, x) ==
    /\ job[w].pc = "exchange"
    /\ job' = [job EXCEPT ![w].pc = "read", ![w].subject = x, ![w].now = clock]
    /\ answered' = [answered EXCEPT ![job[w].login] = x]
    /\ UNCHANGED <<clock, users, identity, logins, sessions, bindings>>

(* The reads of the identity and its user; a disabled user is refused. *)
ReadIdentity(w) ==
    LET u == identity[job[w].subject] IN
    /\ job[w].pc = "read"
    /\ u # Nothing => users[u] # "disabled"
    /\ job' = [job EXCEPT ![w].pc = "write", ![w].known = u]
    /\ UNCHANGED <<clock, users, identity, logins, answered, sessions, bindings>>

(* A session for user u, with its idle and absolute limits. *)
OpenSession(w, s, u) ==
    sessions' = [sessions EXCEPT ![s] =
                   [status |-> "open", user |-> u, login |-> job[w].login,
                    opened |-> job[w].now,
                    idle |-> job[w].now + Smaller(IdleTtl, AbsoluteTtl),
                    absolute |-> job[w].now + AbsoluteTtl]]

(* The identity was known: the user's and the identity's snapshots are     *)
(* updated by primary key, the status is not looked at again.              *)
LoginKnown(w, s) ==
    /\ job[w].pc = "write"
    /\ job[w].known # Nothing
    /\ sessions[s].status = "absent"
    /\ OpenSession(w, s, job[w].known)
    /\ End(w)
    /\ UNCHANGED <<clock, users, identity, logins, answered, bindings>>

(* The identity was unknown and still is: user and identity are new. *)
LoginNew(w, s, u) ==
    /\ job[w].pc = "write"
    /\ job[w].known = Nothing
    /\ identity[job[w].subject] = Nothing
    /\ users[u] = "absent"
    /\ sessions[s].status = "absent"
    /\ users' = [users EXCEPT ![u] = "pending"]
    /\ identity' = [identity EXCEPT ![job[w].subject] = u]
    /\ OpenSession(w, s, u)
    /\ End(w)
    /\ UNCHANGED <<clock, logins, answered, bindings>>

(* The identity was unknown, but another transaction has written it: the   *)
(* unique constraint refuses, the savepoint is rolled back (the new user   *)
(* with it), and identity and user are read again.                         *)
LoginCollides(w) ==
    /\ job[w].pc = "write"
    /\ job[w].known = Nothing
    /\ identity[job[w].subject] # Nothing
    /\ job' = [job EXCEPT ![w].pc = "read"]
    /\ UNCHANGED <<clock, users, identity, logins, answered, sessions, bindings>>

-----------------------------------------------------------------------------
(* A request with a session cookie *)

Valid(row, now) == row.status = "open" /\ row.idle > now /\ row.absolute > now

(* load_user_grants, reduced to whether a global Admin binding is in force. *)
IsAdmin(u) ==
    /\ users[u] = "active"
    /\ \E b \in Bindings : bindings[b].status = "active" /\ bindings[b].user = u
                           /\ bindings[b].role = "admin"

(* _browser_session_principal, its reads. *)
ReadSession(w, s) ==
    LET row == sessions[s] IN
    /\ job[w].pc = "free"
    /\ Valid(row, clock)
    /\ users[row.user] # "disabled"
    /\ job' = [job EXCEPT ![w] =
                 [Free EXCEPT !.pc = "refresh", !.session = s, !.row = row, !.now = clock,
                              !.user = row.user, !.admin = IsAdmin(row.user)]]
    /\ UNCHANGED <<clock, users, identity, logins, answered, sessions, bindings>>

(* Mistake: the whole row that was read is written back. *)
RefreshWholeRow(w) ==
    /\ job[w].pc = "refresh"
    /\ sessions' = [sessions EXCEPT ![job[w].session] =
                      [job[w].row EXCEPT !.idle = Smaller(job[w].now + IdleTtl, job[w].row.absolute)]]
    /\ job' = [job EXCEPT ![w].pc = "handle"]
    /\ UNCHANGED <<clock, users, identity, logins, answered, bindings>>

(* Its commit: an UPDATE by primary key of the columns that changed. *)
Refresh(w) ==
    /\ job[w].pc = "refresh"
    /\ sessions' = [sessions EXCEPT ![job[w].session].idle =
                      Smaller(job[w].now + IdleTtl, job[w].row.absolute)]
    /\ job' = [job EXCEPT ![w].pc = "handle"]
    /\ UNCHANGED <<clock, users, identity, logins, answered, bindings>>

(* The open sessions of user u are revoked. *)
RevokeSessions(u) ==
    sessions' = [s \in Sessions |->
                   IF sessions[s].user = u /\ sessions[s].status = "open"
                   THEN [sessions[s] EXCEPT !.status = "revoked"] ELSE sessions[s]]

(* logout_current_session *)
Logout(w) ==
    /\ job[w].pc = "handle"
    /\ sessions' = [sessions EXCEPT ![job[w].session].status = "revoked"]
    /\ End(w)
    /\ UNCHANGED <<clock, users, identity, logins, answered, bindings>>

(* logout_all_sessions *)
LogoutAll(w) ==
    /\ job[w].pc = "handle"
    /\ RevokeSessions(job[w].user)
    /\ End(w)
    /\ UNCHANGED <<clock, users, identity, logins, answered, bindings>>

(* require_global_permission(identity.manage), on the principal. *)
ActsAsAdmin(w) == job[w].pc = "handle" /\ job[w].admin

(* update_user_status *)
SetStatus(w, u, status) ==
    /\ ActsAsAdmin(w)
    /\ users[u] # "absent"
    /\ users' = [users EXCEPT ![u] = status]
    /\ IF status = "disabled" THEN RevokeSessions(u) ELSE UNCHANGED sessions
    /\ End(w)
    /\ UNCHANGED <<clock, identity, logins, answered, bindings>>

Bound(u, role) == \E b \in Bindings : bindings[b].status = "active" /\ bindings[b].user = u
                                      /\ bindings[b].role = role

(* Mistake: any browser session may bind roles. *)
BindByAnyone(w, b, u, role) ==
    /\ job[w].pc = "handle"
    /\ users[u] # "absent"
    /\ bindings[b].status = "absent"
    /\ ~Bound(u, role)
    /\ bindings' = [bindings EXCEPT ![b] =
                      [status |-> "active", user |-> u, role |-> role, by |-> job[w].user]]
    /\ End(w)
    /\ UNCHANGED <<clock, users, identity, logins, answered, sessions>>

(* create_role_binding; a unique index keeps one active binding per role.  *)
CreateBinding(w, b, u, role) ==
    /\ ActsAsAdmin(w)
    /\ users[u] # "absent"
    /\ bindings[b].status = "absent"
    /\ ~Bound(u, role)
    /\ bindings' = [bindings EXCEPT ![b] =
                      [status |-> "active", user |-> u, role |-> role, by |-> job[w].user]]
    /\ End(w)
    /\ UNCHANGED <<clock, users, identity, logins, answered, sessions>>

(* revoke_role_binding *)
RevokeBinding(w, b) ==
    /\ ActsAsAdmin(w)
    /\ bindings[b].status = "active"
    /\ bindings' = [bindings EXCEPT ![b].status = "revoked"]
    /\ RevokeSessions(bindings[b].user)
    /\ End(w)
    /\ UNCHANGED <<clock, users, identity, logins, answered>>

(* The request ends without a write of its own: a read, a refusal, a       *)
(* failure of the provider, a lost replica.                                *)
EndRequest(w) ==
    /\ job[w].pc # "free"
    /\ End(w)
    /\ UNCHANGED <<clock, users, identity, logins, answered, sessions, bindings>>

-----------------------------------------------------------------------------
(* bootstrap_global_admin *)

AdminBound == \E b \in Bindings : bindings[b].status = "active" /\ bindings[b].role = "admin"

(* The command runs under a lock on the Admin role's row; the foreign key  *)
(* of a new binding needs the same row, so no other Admin binding can      *)
(* appear while it runs.                                                   *)
Bootstrap(b, x, u) ==
    /\ ~AdminBound
    /\ bindings[b].status = "absent"
    /\ IF identity[x] = Nothing THEN users[u] = "absent"
       ELSE u = identity[x] /\ users[u] # "disabled"
    /\ users' = [users EXCEPT ![u] = "active"]
    /\ identity' = [identity EXCEPT ![x] = u]
    /\ bindings' = [bindings EXCEPT ![b] =
                      [status |-> "active", user |-> u, role |-> "admin", by |-> "bootstrap"]]
    /\ UNCHANGED <<clock, logins, answered, sessions, job>>

-----------------------------------------------------------------------------
RequestStep(w) ==
    \/ \E l \in Logins : ConsumeLogin(w, l)
    \/ \E x \in Subjects : LearnSubject(w, x)
    \/ ReadIdentity(w)
    \/ LoginCollides(w)
    \/ \E s \in Sessions : \/ LoginKnown(w, s)
                           \/ \E u \in Users : LoginNew(w, s, u)
                           \/ ReadSession(w, s)
    \/ Refresh(w) \/ Logout(w) \/ LogoutAll(w)
    \/ \E u \in Users : \/ \E status \in UserStatuses \ {"absent"} : SetStatus(w, u, status)
                        \/ \E b \in Bindings, role \in Roles : CreateBinding(w, b, u, role)
    \/ \E b \in Bindings : RevokeBinding(w, b)
    \/ EndRequest(w)

HumanNext ==
    \/ HumanTick
    \/ \E l \in Logins : BeginLogin(l)
    \/ \E w \in Workers : RequestStep(w)
    \/ \E b \in Bindings, x \in Subjects, u \in Users : Bootstrap(b, x, u)

HumanSpec == HumanInit /\ [][HumanNext]_humanVars
-----------------------------------------------------------------------------
(* Properties *)

(* One person, one user: every user belongs to exactly one subject of the  *)
(* provider, although first logins of one subject run at the same time,    *)
(* also beside a bootstrap; a login that lost the race leaves no user      *)
(* behind (complete_oidc_login, bootstrap_global_admin).                   *)
OneUserPerIdentity ==
    \A u \in Users : users[u] # "absent" =>
        Cardinality({x \in Subjects : identity[x] = u}) = 1

(* A login transaction opens at most one session, however often its        *)
(* callback is delivered, and a session is the one of the user its login   *)
(* was answered for, although what the callback read of the identity is    *)
(* old when it writes (complete_oidc_login).                               *)
LoginOpensOneSession ==
    \A s, t \in Sessions : sessions[s].status # "absent" =>
        /\ sessions[s].login = sessions[t].login => s = t
        /\ logins[sessions[s].login].status = "consumed"
        /\ answered[sessions[s].login] \in Subjects
        /\ identity[answered[sessions[s].login]] = sessions[s].user

(* No session outlives its absolute limit: however often it is refreshed,  *)
(* and from however old a read, its idle limit stays within the absolute   *)
(* one, and no request runs under a session older than AbsoluteTtl when it *)
(* was authenticated (_browser_session_principal, complete_oidc_login).    *)
SessionLifeBounded ==
    /\ \A s \in Sessions : sessions[s].status # "absent" =>
           /\ sessions[s].idle <= sessions[s].absolute
           /\ sessions[s].absolute = sessions[s].opened + AbsoluteTtl
    /\ \A w \in Workers : job[w].pc \in {"refresh", "handle"} =>
           job[w].now < sessions[job[w].session].opened + AbsoluteTtl

(* What logins and sessions keep to whatever races with them: one user per *)
(* person, one session per login, sessions of bounded life                 *)
(* (complete_oidc_login, _browser_session_principal).                      *)
LoginsSound ==
    /\ HumanTypeOK
    /\ OneUserPerIdentity
    /\ LoginOpensOneSession
    /\ SessionLifeBounded

(* All authority goes back to a bootstrap: whoever bound a role held an    *)
(* Admin binding before, and somewhere the chain starts with the local     *)
(* command (create_role_binding, bootstrap_global_admin).                  *)
AuthorityTracesToBootstrap ==
    \A b \in Bindings : bindings[b].status # "absent" /\ bindings[b].by # "bootstrap" =>
        /\ \E a \in Bindings \ {b} : bindings[a].status # "absent" /\ bindings[a].role = "admin"
                                     /\ bindings[a].user = bindings[b].by
        /\ \E a \in Bindings : bindings[a].by = "bootstrap"

(* A revoked session is never open again, although requests that read it   *)
(* before it was revoked write to its row afterwards (logout, logout-all,  *)
(* update_user_status and revoke_role_binding against                      *)
(* _browser_session_principal).                                            *)
RevokedSessionStaysRevoked ==
    [][\A s \in Sessions : sessions[s].status = "revoked" =>
           sessions'[s].status = "revoked"]_humanVars

(* backend/tests/test_oidc_authorization.py: a callback for a disabled     *)
(* user opens no session (complete_oidc_login).                            *)
NoSessionForDisabledUser ==
    [][\A s \in Sessions : sessions[s].status = "absent" /\ sessions'[s].status = "open" =>
           users[sessions'[s].user] # "disabled"]_humanVars

(* The roadmap's bootstrap-admin recovery: once there has been an Admin,   *)
(* there is an Admin who can log in, or the bootstrap command can make one *)
(* of somebody (update_user_status, bootstrap_global_admin).               *)
AdminCanBeRecovered ==
    (\E b \in Bindings : bindings[b].status # "absent") =>
        (\E u \in Users : IsAdmin(u)) \/ ~AdminBound
=============================================================================
