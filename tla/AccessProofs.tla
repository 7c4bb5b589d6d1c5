---------------------------- MODULE AccessProofs ----------------------------
(***************************************************************************)
(* Theorems about who is let in: logins, sessions and role bindings, for   *)
(* every set of workers, subjects, users, logins, sessions and bindings    *)
(* and every session lifetime; and the principals and routes of requests,  *)
(* for every deployment and every request.                                 *)
(***************************************************************************)
EXTENDS HumanIdentity, RequestAuth, TLAPS, FiniteSetTheorems

(***************************************************************************)
(*                       Logins, sessions, bindings                        *)
(***************************************************************************)

-----------------------------------------------------------------------------
(* The inductive invariant *)

(* Subjects and users: the unique constraint on the subject, and that      *)
(* neither a user nor an identity is written without the other.            *)
IdentitiesSound ==
    /\ \A x \in Subjects : identity[x] # Nothing => users[identity[x]] # "absent"
    /\ \A x, y \in Subjects : identity[x] # Nothing /\ identity[x] = identity[y] => x = y
    /\ \A u \in Users : users[u] # "absent" => \E x \in Subjects : identity[x] = u

(* A session row: its user, its login, and the two limits. *)
SessionSound(s) ==
    LET row == sessions[s] IN
    /\ row.status = "absent" => row.login = Nothing
    /\ row.status # "absent" =>
           /\ row.user \in Users /\ row.login \in Logins
           /\ logins[row.login].status = "consumed"
           /\ row.idle <= row.absolute
           /\ row.absolute = row.opened + AbsoluteTtl

OneSessionPerLogin ==
    \A s, t \in Sessions : sessions[s].status # "absent" /\ sessions[t].status # "absent"
                           /\ sessions[s].login = sessions[t].login => s = t

LoggingIn(w) == job[w].pc \in {"exchange", "read", "write"}
Authenticated(w) == job[w].pc \in {"refresh", "handle"}

(* A callback holds a consumed login that no session and no other callback *)
(* has.                                                                    *)
CallbackSound(w) ==
    LoggingIn(w) =>
        /\ job[w].login \in Logins
        /\ logins[job[w].login].status = "consumed"
        /\ \A s \in Sessions : sessions[s].login # job[w].login
        /\ \A v \in Workers : LoggingIn(v) /\ job[v].login = job[w].login => v = w
        /\ job[w].pc # "exchange" => job[w].subject \in Subjects

(* An authenticated request names a session that exists; the columns it    *)
(* read and uses again are ones nobody ever changes.                       *)
RequestSound(w) ==
    Authenticated(w) =>
        LET row == sessions[job[w].session] IN
        /\ job[w].session \in Sessions
        /\ row.status # "absent"
        /\ job[w].user = row.user
        /\ job[w].row.absolute = row.absolute
        /\ job[w].now < row.absolute

SessionsSound == OneSessionPerLogin /\ \A s \in Sessions : SessionSound(s)
CallbacksSound == \A w \in Workers : CallbackSound(w)
RequestsSound == \A w \in Workers : RequestSound(w)

LoginInv == HumanTypeOK /\ IdentitiesSound /\ SessionsSound /\ CallbacksSound /\ RequestsSound

(* A callback keeps the subject that its login was answered with and the   *)
(* user of that subject, if it found one; its session is that user's.      *)
AnswersSound ==
    /\ \A w \in Workers : job[w].pc \in {"read", "write"} =>
           answered[job[w].login] = job[w].subject
    /\ \A w \in Workers : job[w].pc = "write" /\ job[w].known # Nothing =>
           identity[job[w].subject] = job[w].known
    /\ \A s \in Sessions : sessions[s].status # "absent" =>
           /\ answered[sessions[s].login] \in Subjects
           /\ identity[answered[sessions[s].login]] = sessions[s].user

(* Someone bound as Admin, now or earlier: bindings are never deleted. *)
WasAdmin(u, a) ==
    bindings[a].status # "absent" /\ bindings[a].role = "admin" /\ bindings[a].user = u

(* Where authority comes from: a principal that passes                     *)
(* require_global_permission had an Admin binding when it was read.        *)
AuthorityInv ==
    /\ \A w \in Workers : job[w].admin => \E a \in Bindings : WasAdmin(job[w].user, a)
    /\ (\E b \in Bindings : bindings[b].status # "absent") =>
           \E a \in Bindings : bindings[a].status # "absent" /\ bindings[a].by = "bootstrap"
    /\ \A b \in Bindings : bindings[b].status # "absent" /\ bindings[b].by # "bootstrap" =>
           \E a \in Bindings \ {b} : WasAdmin(bindings[b].by, a)
-----------------------------------------------------------------------------
(* Type correctness *)

LEMMA FreeType == NoSession \in SessionRows /\ Free \in Jobs
  BY DEF NoSession, SessionRows, Free, Jobs

(* The jobs that the callback's steps leave are jobs. *)
LEMMA LearnedType ==
    ASSUME NEW j \in Jobs, NEW x \in Subjects, NEW t \in Nat
    PROVE  [j EXCEPT !.pc = "read", !.subject = x, !.now = t] \in Jobs
  BY DEF Jobs

LEMMA KnownType ==
    ASSUME NEW j \in Jobs, NEW u \in Users \cup {Nothing}
    PROVE  [j EXCEPT !.pc = "write", !.known = u] \in Jobs
  BY DEF Jobs

(* What each step writes to the workers' jobs. *)
LEMMA JobStep ==
    ASSUME LoginInv, [HumanNext]_humanVars
    PROVE  job' \in [Workers -> Jobs]
  <1>0. /\ job \in [Workers -> Jobs] /\ identity \in [Subjects -> Users \cup {Nothing}]
        /\ sessions \in [Sessions -> SessionRows] /\ clock \in Nat
    BY DEF LoginInv, HumanTypeOK
  <1>1. CASE UNCHANGED job
    BY <1>0, <1>1
  <1>2. ASSUME NEW w \in Workers, End(w)
        PROVE  job' \in [Workers -> Jobs]
    BY <1>0, <1>2, FreeType DEF End
  <1>3. ASSUME NEW w \in Workers, NEW l \in Logins, ConsumeLogin(w, l)
        PROVE  job' \in [Workers -> Jobs]
    <2>1. [Free EXCEPT !.pc = "exchange", !.login = l] \in Jobs
      BY FreeType DEF Jobs
    <2>2. QED
      BY <1>0, <1>3, <2>1 DEF ConsumeLogin
  <1>4. ASSUME NEW w \in Workers, NEW x \in Subjects, LearnSubject(w, x)
        PROVE  job' \in [Workers -> Jobs]
    <2>1. [job[w] EXCEPT !.pc = "read", !.subject = x, !.now = clock] \in Jobs
      BY <1>0, LearnedType
    <2>2. QED
      BY <1>0, <1>4, <2>1 DEF LearnSubject
  <1>5. ASSUME NEW w \in Workers, ReadIdentity(w)
        PROVE  job' \in [Workers -> Jobs]
    <2> DEFINE u == identity[job[w].subject]
    <2>1. u \in Users \cup {Nothing}
      BY <1>0, <1>5 DEF LoginInv, CallbacksSound, CallbackSound, LoggingIn, ReadIdentity
    <2>2. [job[w] EXCEPT !.pc = "write", !.known = u] \in Jobs
      BY <1>0, <2>1, KnownType
    <2>3. QED
      BY <1>0, <1>5, <2>2 DEF ReadIdentity
  <1>6. ASSUME NEW w \in Workers, LoginCollides(w)
        PROVE  job' \in [Workers -> Jobs]
    <2>1. [job[w] EXCEPT !.pc = "read"] \in Jobs
      BY <1>0 DEF Jobs
    <2>2. QED
      BY <1>0, <1>6, <2>1 DEF LoginCollides
  <1>7. ASSUME NEW w \in Workers, NEW s \in Sessions, ReadSession(w, s)
        PROVE  job' \in [Workers -> Jobs]
    <2> DEFINE row == sessions[s]
    <2>1. row \in SessionRows /\ row.user \in Users \cup {Nothing}
      BY <1>0 DEF SessionRows
    <2>2. IsAdmin(row.user) \in BOOLEAN
      BY DEF IsAdmin
    <2>3. [Free EXCEPT !.pc = "refresh", !.session = s, !.row = row, !.now = clock,
                       !.user = row.user, !.admin = IsAdmin(row.user)] \in Jobs
      BY <1>0, <2>1, <2>2, FreeType DEF Jobs
    <2>4. QED
      BY <1>0, <1>7, <2>3 DEF ReadSession
  <1>8. ASSUME NEW w \in Workers, Refresh(w)
        PROVE  job' \in [Workers -> Jobs]
    <2>1. [job[w] EXCEPT !.pc = "handle"] \in Jobs
      BY <1>0 DEF Jobs
    <2>2. QED
      BY <1>0, <1>8, <2>1 DEF Refresh
  <1>9. ASSUME NEW w \in Workers, RequestStep(w)
        PROVE  job' \in [Workers -> Jobs]
    <2>1. (\E s \in Sessions : LoginKnown(w, s) \/ \E u \in Users : LoginNew(w, s, u)) => End(w)
      BY DEF LoginKnown, LoginNew
    <2>2. Logout(w) \/ LogoutAll(w) \/ EndRequest(w) => End(w)
      BY DEF Logout, LogoutAll, EndRequest
    <2>3. (\E u \in Users : \E status \in UserStatuses \ {"absent"} : SetStatus(w, u, status))
          => End(w)
      BY DEF SetStatus
    <2>4. (\E u \in Users : \E b \in Bindings, role \in Roles : CreateBinding(w, b, u, role))
          => End(w)
      BY DEF CreateBinding
    <2>5. (\E b \in Bindings : RevokeBinding(w, b)) => End(w)
      BY DEF RevokeBinding
    <2>6. QED
      BY <1>2, <1>3, <1>4, <1>5, <1>6, <1>7, <1>8, <1>9, <2>1, <2>2, <2>3, <2>4, <2>5
         DEF RequestStep
  <1>10. HumanTick \/ (\E l \in Logins : BeginLogin(l)) => UNCHANGED job
    BY DEF HumanTick, BeginLogin
  <1>11. (\E b \in Bindings, x \in Subjects, u \in Users : Bootstrap(b, x, u)) => UNCHANGED job
    BY DEF Bootstrap
  <1>12. QED
    BY <1>1, <1>9, <1>10, <1>11 DEF HumanNext, humanVars
-----------------------------------------------------------------------------
(* What a step does to browser_sessions *)

(* The callback of worker w ends by inserting session s for user u. *)
Opened(w, s, u) ==
    /\ job[w].pc = "write"
    /\ sessions[s].status = "absent"
    /\ OpenSession(w, s, u)
    /\ End(w)
    /\ \/ u = job[w].known /\ UNCHANGED identity
       \/ identity' = [identity EXCEPT ![job[w].subject] = u]
    /\ UNCHANGED <<clock, logins, answered, bindings>>

(* Row s keeps what no UPDATE touches; it may be revoked, and its idle     *)
(* limit may move within the absolute one.                                 *)
Kept(s) ==
    LET row == sessions[s]
        new == sessions'[s]
    IN
    /\ new.user = row.user /\ new.login = row.login
    /\ new.opened = row.opened /\ new.absolute = row.absolute
    /\ new.status # row.status => row.status # "absent" /\ new.status = "revoked"
    /\ new.idle # row.idle => row.status # "absent" /\ new.idle <= row.absolute

AllKept == sessions' \in [Sessions -> SessionRows] /\ \A s \in Sessions : Kept(s)

(* The two columns that an UPDATE of a session row writes. *)
LEMMA SessionRowTypes ==
    ASSUME NEW row \in SessionRows, NEW n \in Nat
    PROVE  /\ [row EXCEPT !.status = "revoked"] \in SessionRows
           /\ [row EXCEPT !.idle = n] \in SessionRows
  BY DEF SessionRows

LEMMA RevokedKept ==
    ASSUME LoginInv, NEW u, RevokeSessions(u)
    PROVE  AllKept
  <1>0. sessions \in [Sessions -> SessionRows]
    BY DEF LoginInv, HumanTypeOK
  <1>1. ASSUME NEW s \in Sessions
        PROVE  sessions'[s] \in SessionRows /\ Kept(s)
    <2>1. sessions[s] \in SessionRows
      BY <1>0
    <2>2. sessions'[s] = IF sessions[s].user = u /\ sessions[s].status = "open"
                         THEN [sessions[s] EXCEPT !.status = "revoked"] ELSE sessions[s]
      BY DEF RevokeSessions
    <2>3. CASE sessions'[s] = sessions[s]
      BY <2>1, <2>3 DEF Kept
    <2>4. CASE sessions'[s] = [sessions[s] EXCEPT !.status = "revoked"] /\ sessions[s].status = "open"
      <3>1. sessions'[s] \in SessionRows
        BY <2>1, <2>4, SessionRowTypes
      <3>2. Kept(s)
        BY <2>1, <2>4 DEF Kept, SessionRows
      <3>3. QED
        BY <3>1, <3>2
    <2>5. QED
      BY <2>2, <2>3, <2>4
  <1>2. QED
    BY <1>1 DEF AllKept, RevokeSessions

LEMMA RefreshKept ==
    ASSUME LoginInv, NEW w \in Workers, Refresh(w)
    PROVE  AllKept
  <1> DEFINE s == job[w].session
             idle == Smaller(job[w].now + IdleTtl, job[w].row.absolute)
  <1>0. sessions \in [Sessions -> SessionRows] /\ job[w] \in Jobs
    BY DEF LoginInv, HumanTypeOK
  <1>1. /\ s \in Sessions /\ sessions[s].status # "absent"
        /\ job[w].row.absolute = sessions[s].absolute
    BY DEF Refresh, LoginInv, RequestsSound, RequestSound, Authenticated
  <1>2. idle \in Nat /\ idle <= sessions[s].absolute
    <2>1. job[w].now \in Nat /\ sessions[s].absolute \in Nat /\ IdleTtl \in Nat
      BY <1>0, <1>1, HumanAssumption DEF Jobs, SessionRows
    <2>2. QED
      BY <1>1, <2>1 DEF Smaller
  <1>3. sessions' = [sessions EXCEPT ![s] = [sessions[s] EXCEPT !.idle = idle]]
    BY DEF Refresh
  <1>4. [sessions[s] EXCEPT !.idle = idle] \in SessionRows
    BY <1>0, <1>1, <1>2, SessionRowTypes
  <1>5. Kept(s)
    BY <1>0, <1>1, <1>2, <1>3 DEF Kept, SessionRows
  <1>6. ASSUME NEW t \in Sessions, t # s
        PROVE  Kept(t)
    BY <1>0, <1>3, <1>6 DEF Kept
  <1>7. QED
    BY <1>0, <1>3, <1>4, <1>5, <1>6 DEF AllKept

LEMMA LogoutKept ==
    ASSUME LoginInv, NEW w \in Workers, Logout(w)
    PROVE  AllKept
  <1> DEFINE s == job[w].session
  <1>0. sessions \in [Sessions -> SessionRows]
    BY DEF LoginInv, HumanTypeOK
  <1>1. s \in Sessions /\ sessions[s].status # "absent"
    BY DEF Logout, LoginInv, RequestsSound, RequestSound, Authenticated
  <1>2. sessions' = [sessions EXCEPT ![s] = [sessions[s] EXCEPT !.status = "revoked"]]
    BY DEF Logout
  <1>3. [sessions[s] EXCEPT !.status = "revoked"] \in SessionRows
    BY <1>0, <1>1, SessionRowTypes, 0 \in Nat
  <1>4. Kept(s)
    BY <1>0, <1>1, <1>2 DEF Kept, SessionRows
  <1>5. ASSUME NEW t \in Sessions, t # s
        PROVE  Kept(t)
    BY <1>0, <1>2, <1>5 DEF Kept
  <1>6. QED
    BY <1>0, <1>2, <1>3, <1>4, <1>5 DEF AllKept

(* A step opens one session or keeps them all. *)
LEMMA SessionStep ==
    ASSUME LoginInv, [HumanNext]_humanVars
    PROVE  \/ AllKept
           \/ \E w \in Workers, s \in Sessions, u \in Users : Opened(w, s, u)
  <1>1. CASE UNCHANGED sessions
    BY <1>1 DEF AllKept, Kept, LoginInv, HumanTypeOK
  <1>2. ASSUME NEW w \in Workers, NEW s \in Sessions,
               LoginKnown(w, s) \/ \E u \in Users : LoginNew(w, s, u)
        PROVE  \E u \in Users : Opened(w, s, u)
    <2>1. CASE LoginKnown(w, s)
      <3>1. job[w].known \in Users
        BY <2>1 DEF LoginKnown, LoginInv, HumanTypeOK, Jobs
      <3>2. QED
        BY <2>1, <3>1 DEF LoginKnown, Opened
    <2>2. CASE \E u \in Users : LoginNew(w, s, u)
      BY <2>2 DEF LoginNew, Opened
    <2>3. QED
      BY <1>2, <2>1, <2>2
  <1>3. ASSUME NEW w \in Workers, LogoutAll(w) \/ \E b \in Bindings : RevokeBinding(w, b)
        PROVE  AllKept
    BY <1>3, RevokedKept DEF LogoutAll, RevokeBinding
  <1>4. ASSUME NEW w \in Workers, NEW u \in Users, NEW status \in UserStatuses \ {"absent"},
               SetStatus(w, u, status)
        PROVE  AllKept \/ UNCHANGED sessions
    BY <1>4, RevokedKept DEF SetStatus
  <1>5. ASSUME NEW w \in Workers, RequestStep(w)
        PROVE  \/ AllKept \/ UNCHANGED sessions
               \/ \E s \in Sessions, u \in Users : Opened(w, s, u)
    <2>1. (\E l \in Logins : ConsumeLogin(w, l)) \/ (\E x \in Subjects : LearnSubject(w, x))
          => UNCHANGED sessions
      BY DEF ConsumeLogin, LearnSubject
    <2>2. ReadIdentity(w) \/ LoginCollides(w) \/ EndRequest(w)
          \/ (\E s \in Sessions : ReadSession(w, s)) => UNCHANGED sessions
      BY DEF ReadIdentity, LoginCollides, ReadSession, EndRequest
    <2>3. (\E u \in Users : \E b \in Bindings, role \in Roles : CreateBinding(w, b, u, role))
          => UNCHANGED sessions
      BY DEF CreateBinding
    <2>4. QED
      BY <1>2, <1>3, <1>4, <1>5, <2>1, <2>2, <2>3, RefreshKept, LogoutKept DEF RequestStep
  <1>6. HumanTick \/ (\E l \in Logins : BeginLogin(l)) => UNCHANGED sessions
    BY DEF HumanTick, BeginLogin
  <1>7. (\E b \in Bindings, x \in Subjects, u \in Users : Bootstrap(b, x, u))
        => UNCHANGED sessions
    BY DEF Bootstrap
  <1>8. QED
    BY <1>1, <1>5, <1>6, <1>7 DEF HumanNext, humanVars
-----------------------------------------------------------------------------
(* What a step does to a worker's job *)

(* A callback goes on with the login it consumed. *)
Proceeds(v) ==
    /\ LoggingIn(v) /\ job'[v].pc \in {"read", "write"}
    /\ job'[v].login = job[v].login /\ job'[v].subject \in Subjects
    /\ job'[v].admin = job[v].admin /\ job'[v].user = job[v].user
    /\ ReadIdentity(v) \/ LoginCollides(v) \/ \E x \in Subjects : LearnSubject(v, x)

JobMoves(v) ==
    \/ job'[v] = job[v]
    \/ job'[v] = Free
    \/ \E l \in Logins : ConsumeLogin(v, l)
    \/ Proceeds(v)
    \/ \E s \in Sessions : ReadSession(v, s)
    \/ job[v].pc = "refresh" /\ job'[v] = [job[v] EXCEPT !.pc = "handle"]

(* Steps of another worker leave the job alone. *)
LEMMA JobShape ==
    ASSUME LoginInv, [HumanNext]_humanVars, NEW v \in Workers
    PROVE  JobMoves(v)
  <1>0. job \in [Workers -> Jobs] /\ job[v] \in Jobs
    BY DEF LoginInv, HumanTypeOK
  <1>1. CASE UNCHANGED job
    BY <1>1 DEF JobMoves
  <1>2. ASSUME NEW w \in Workers, End(w)
        PROVE  JobMoves(v)
    BY <1>0, <1>2 DEF End, JobMoves
  <1>3. ASSUME NEW w \in Workers, NEW l \in Logins, ConsumeLogin(w, l)
        PROVE  JobMoves(v)
    <2>1. w # v => job'[v] = job[v]
      BY <1>0, <1>3 DEF ConsumeLogin
    <2>2. QED
      BY <1>3, <2>1 DEF JobMoves
  <1>4. ASSUME NEW w \in Workers, NEW x \in Subjects, LearnSubject(w, x)
        PROVE  JobMoves(v)
    <2>1. w # v => job'[v] = job[v]
      BY <1>0, <1>4 DEF LearnSubject
    <2>2. w = v => Proceeds(v)
      BY <1>0, <1>4 DEF LearnSubject, Proceeds, LoggingIn, Jobs
    <2>3. QED
      BY <2>1, <2>2 DEF JobMoves
  <1>5. ASSUME NEW w \in Workers, ReadIdentity(w) \/ LoginCollides(w)
        PROVE  JobMoves(v)
    <2>1. w # v => job'[v] = job[v]
      BY <1>0, <1>5 DEF ReadIdentity, LoginCollides
    <2>2. job[w].subject \in Subjects
      BY <1>5 DEF ReadIdentity, LoginCollides, LoginInv, CallbacksSound, CallbackSound, LoggingIn
    <2>3. w = v => Proceeds(v)
      BY <1>0, <1>5, <2>2 DEF ReadIdentity, LoginCollides, Proceeds, LoggingIn, Jobs
    <2>4. QED
      BY <2>1, <2>3 DEF JobMoves
  <1>6. ASSUME NEW w \in Workers, NEW s \in Sessions, ReadSession(w, s)
        PROVE  JobMoves(v)
    <2>1. w # v => job'[v] = job[v]
      BY <1>0, <1>6 DEF ReadSession
    <2>2. QED
      BY <1>6, <2>1 DEF JobMoves
  <1>7. ASSUME NEW w \in Workers, Refresh(w)
        PROVE  JobMoves(v)
    BY <1>0, <1>7 DEF Refresh, JobMoves
  <1>8. ASSUME NEW w \in Workers, RequestStep(w)
        PROVE  JobMoves(v)
    <2>1. (\E s \in Sessions : LoginKnown(w, s) \/ \E u \in Users : LoginNew(w, s, u)) => End(w)
      BY DEF LoginKnown, LoginNew
    <2>2. Logout(w) \/ LogoutAll(w) \/ EndRequest(w) => End(w)
      BY DEF Logout, LogoutAll, EndRequest
    <2>3. (\E u \in Users : \E status \in UserStatuses \ {"absent"} : SetStatus(w, u, status))
          => End(w)
      BY DEF SetStatus
    <2>4. (\E u \in Users : \E b \in Bindings, role \in Roles : CreateBinding(w, b, u, role))
          => End(w)
      BY DEF CreateBinding
    <2>5. (\E b \in Bindings : RevokeBinding(w, b)) => End(w)
      BY DEF RevokeBinding
    <2>6. QED
      BY <1>2, <1>3, <1>4, <1>5, <1>6, <1>7, <1>8, <2>1, <2>2, <2>3, <2>4, <2>5
         DEF RequestStep
  <1>9. HumanTick \/ (\E l \in Logins : BeginLogin(l)) => UNCHANGED job
    BY DEF HumanTick, BeginLogin
  <1>10. (\E b \in Bindings, x \in Subjects, u \in Users : Bootstrap(b, x, u)) => UNCHANGED job
    BY DEF Bootstrap
  <1>11. QED
    BY <1>1, <1>8, <1>9, <1>10 DEF HumanNext, humanVars

-----------------------------------------------------------------------------
(* Logins and users *)

(* A login row is a row, and a consumed one stays consumed. *)
LEMMA LoginRowStep ==
    ASSUME LoginInv, [HumanNext]_humanVars
    PROVE  /\ logins' \in [Logins -> LoginRows]
           /\ \A l \in Logins : logins[l].status = "consumed" => logins'[l].status = "consumed"
  <1>0. logins \in [Logins -> LoginRows] /\ clock \in Nat
    BY DEF LoginInv, HumanTypeOK
  <1>1. CASE UNCHANGED logins
    BY <1>0, <1>1
  <1>2. ASSUME NEW l \in Logins, BeginLogin(l)
        PROVE  /\ logins' \in [Logins -> LoginRows]
               /\ \A k \in Logins : logins[k].status = "consumed" => logins'[k].status = "consumed"
    <2>1. [status |-> "open", expires |-> clock + LoginTtl] \in LoginRows
      BY <1>0, HumanAssumption DEF LoginRows
    <2>2. QED
      BY <1>0, <1>2, <2>1 DEF BeginLogin
  <1>3. ASSUME NEW w \in Workers, NEW l \in Logins, ConsumeLogin(w, l)
        PROVE  /\ logins' \in [Logins -> LoginRows]
               /\ \A k \in Logins : logins[k].status = "consumed" => logins'[k].status = "consumed"
    <2>1. [logins[l] EXCEPT !.status = "consumed"] \in LoginRows
      BY <1>0 DEF LoginRows
    <2>2. logins' = [logins EXCEPT ![l] = [logins[l] EXCEPT !.status = "consumed"]]
      BY <1>3 DEF ConsumeLogin
    <2>3. [logins[l] EXCEPT !.status = "consumed"].status = "consumed"
      BY <1>0 DEF LoginRows
    <2>4. QED
      BY <1>0, <2>1, <2>2, <2>3
  <1>4. ASSUME NEW w \in Workers, RequestStep(w)
        PROVE  UNCHANGED logins \/ \E l \in Logins : ConsumeLogin(w, l)
    BY <1>4 DEF RequestStep, LearnSubject, ReadIdentity, LoginCollides, LoginKnown, LoginNew,
                ReadSession, Refresh, Logout, LogoutAll, SetStatus, CreateBinding,
                RevokeBinding, EndRequest
  <1>5. HumanTick \/ (\E b \in Bindings, x \in Subjects, u \in Users : Bootstrap(b, x, u))
        => UNCHANGED logins
    BY DEF HumanTick, Bootstrap
  <1>6. QED
    BY <1>1, <1>2, <1>3, <1>4, <1>5 DEF HumanNext, humanVars

(* A new user comes with its identity, and an identity keeps its user. *)
LEMMA IdentityStep ==
    ASSUME LoginInv, [HumanNext]_humanVars
    PROVE  /\ users' \in [Users -> UserStatuses]
           /\ identity' \in [Subjects -> Users \cup {Nothing}]
           /\ IdentitiesSound'
           /\ \A x \in Subjects : identity[x] # Nothing => identity'[x] = identity[x]
  <1>0. /\ users \in [Users -> UserStatuses]
        /\ identity \in [Subjects -> Users \cup {Nothing}]
        /\ IdentitiesSound
        /\ Nothing \notin Users
    BY HumanAssumption DEF LoginInv, HumanTypeOK
  <1> DEFINE Goal == /\ users' \in [Users -> UserStatuses]
                     /\ identity' \in [Subjects -> Users \cup {Nothing}]
                     /\ IdentitiesSound'
                     /\ \A x \in Subjects : identity[x] # Nothing => identity'[x] = identity[x]
  <1>1. CASE UNCHANGED <<users, identity>>
    BY <1>0, <1>1 DEF IdentitiesSound
  <1>2. ASSUME NEW x \in Subjects, NEW u \in Users, NEW status \in UserStatuses \ {"absent"},
               identity[x] = Nothing, users[u] = "absent",
               users' = [users EXCEPT ![u] = status],
               identity' = [identity EXCEPT ![x] = u]
        PROVE  Goal
    <2>1. users' \in [Users -> UserStatuses] /\ identity' \in [Subjects -> Users \cup {Nothing}]
      BY <1>0, <1>2
    <2>2. \A y \in Subjects : identity[y] # u
      BY <1>0, <1>2 DEF IdentitiesSound
    <2>3. QED
      BY <1>0, <1>2, <2>1, <2>2 DEF IdentitiesSound, UserStatuses
  <1>3. ASSUME NEW u \in Users, NEW status \in UserStatuses \ {"absent"},
               users[u] # "absent", users' = [users EXCEPT ![u] = status], identity' = identity
        PROVE  Goal
    <2>1. users' \in [Users -> UserStatuses]
      BY <1>0, <1>3
    <2>2. \A t \in Users : users'[t] = "absent" <=> users[t] = "absent"
      BY <1>0, <1>3
    <2>3. QED
      BY <1>0, <1>3, <2>1, <2>2 DEF IdentitiesSound
  <1>4. ASSUME NEW w \in Workers, NEW s \in Sessions, NEW u \in Users, LoginNew(w, s, u)
        PROVE  Goal
    <2>1. job[w].subject \in Subjects
      BY <1>4 DEF LoginNew, LoginInv, CallbacksSound, CallbackSound, LoggingIn
    <2>2. "pending" \in UserStatuses \ {"absent"}
      BY DEF UserStatuses
    <2>3. QED
      BY <1>2, <1>4, <2>1, <2>2 DEF LoginNew
  <1>5. ASSUME NEW w \in Workers, NEW u \in Users, NEW status \in UserStatuses \ {"absent"},
               SetStatus(w, u, status)
        PROVE  Goal
    BY <1>3, <1>5 DEF SetStatus
  <1>6. ASSUME NEW b \in Bindings, NEW x \in Subjects, NEW u \in Users, Bootstrap(b, x, u)
        PROVE  Goal
    <2>1. "active" \in UserStatuses \ {"absent"}
      BY DEF UserStatuses
    <2>2. CASE identity[x] = Nothing
      BY <1>2, <1>6, <2>1, <2>2 DEF Bootstrap
    <2>3. CASE identity[x] # Nothing
      <3>1. identity[x] = u /\ users[u] # "absent"
        BY <1>0, <1>6, <2>3 DEF Bootstrap, IdentitiesSound
      <3>2. identity' = identity
        BY <1>0, <1>6, <3>1 DEF Bootstrap
      <3>3. QED
        BY <1>3, <1>6, <2>1, <3>1, <3>2 DEF Bootstrap
    <2>4. QED
      BY <2>2, <2>3
  <1>7. ASSUME NEW w \in Workers, RequestStep(w)
        PROVE  Goal
    <2>1. \/ UNCHANGED <<users, identity>>
          \/ \E s \in Sessions, u \in Users : LoginNew(w, s, u)
          \/ \E u \in Users, status \in UserStatuses \ {"absent"} : SetStatus(w, u, status)
      BY <1>7 DEF RequestStep, ConsumeLogin, LearnSubject, ReadIdentity, LoginCollides,
                  LoginKnown, ReadSession, Refresh, Logout, LogoutAll, CreateBinding,
                  RevokeBinding, EndRequest
    <2>2. QED
      BY <1>1, <1>4, <1>5, <2>1
  <1>8. HumanTick \/ (\E l \in Logins : BeginLogin(l)) => UNCHANGED <<users, identity>>
    BY DEF HumanTick, BeginLogin
  <1>9. QED
    BY <1>1, <1>6, <1>7, <1>8 DEF HumanNext, humanVars

(* Only a callback that is answered names a subject, for a login that no   *)
(* session and no other callback has.                                      *)
LEMMA AnsweredStep ==
    ASSUME LoginInv, [HumanNext]_humanVars
    PROVE  /\ answered' \in [Logins -> Subjects \cup {Nothing}]
           /\ \/ UNCHANGED answered
              \/ \E w \in Workers, x \in Subjects :
                     LearnSubject(w, x) /\ answered' = [answered EXCEPT ![job[w].login] = x]
  <1>0. answered \in [Logins -> Subjects \cup {Nothing}]
    BY DEF LoginInv, HumanTypeOK
  <1>1. CASE UNCHANGED answered
    BY <1>0, <1>1
  <1>2. ASSUME NEW w \in Workers, NEW x \in Subjects, LearnSubject(w, x)
        PROVE  /\ answered' \in [Logins -> Subjects \cup {Nothing}]
               /\ answered' = [answered EXCEPT ![job[w].login] = x]
    BY <1>0, <1>2 DEF LearnSubject
  <1>3. ASSUME NEW w \in Workers, RequestStep(w)
        PROVE  UNCHANGED answered \/ \E x \in Subjects : LearnSubject(w, x)
    BY <1>3 DEF RequestStep, ConsumeLogin, ReadIdentity, LoginCollides, LoginKnown, LoginNew,
                ReadSession, Refresh, Logout, LogoutAll, SetStatus, CreateBinding,
                RevokeBinding, EndRequest
  <1>4. HumanTick \/ (\E l \in Logins : BeginLogin(l))
        \/ (\E b \in Bindings, x \in Subjects, u \in Users : Bootstrap(b, x, u))
        => UNCHANGED answered
    BY DEF HumanTick, BeginLogin, Bootstrap
  <1>5. QED
    BY <1>1, <1>2, <1>3, <1>4 DEF HumanNext, humanVars
-----------------------------------------------------------------------------
(* The inductive step *)

LEMMA BindingTypes ==
    ASSUME LoginInv, [HumanNext]_humanVars
    PROVE  clock' \in Nat /\ bindings' \in [Bindings -> BindingRows]
  <1>0. bindings \in [Bindings -> BindingRows] /\ clock \in Nat /\ job \in [Workers -> Jobs]
    BY DEF LoginInv, HumanTypeOK
  <1>1. CASE UNCHANGED <<clock, bindings>>
    BY <1>0, <1>1
  <1>2. ASSUME NEW w \in Workers, NEW b \in Bindings, NEW u \in Users, NEW role \in Roles,
               CreateBinding(w, b, u, role)
        PROVE  clock' \in Nat /\ bindings' \in [Bindings -> BindingRows]
    <2>1. [status |-> "active", user |-> u, role |-> role, by |-> job[w].user] \in BindingRows
      BY <1>0 DEF BindingRows, Jobs
    <2>2. QED
      BY <1>0, <1>2, <2>1 DEF CreateBinding
  <1>3. ASSUME NEW w \in Workers, NEW b \in Bindings, RevokeBinding(w, b)
        PROVE  clock' \in Nat /\ bindings' \in [Bindings -> BindingRows]
    <2>1. [bindings[b] EXCEPT !.status = "revoked"] \in BindingRows
      BY <1>0 DEF BindingRows
    <2>2. QED
      BY <1>0, <1>3, <2>1 DEF RevokeBinding
  <1>4. ASSUME NEW b \in Bindings, NEW x \in Subjects, NEW u \in Users, Bootstrap(b, x, u)
        PROVE  clock' \in Nat /\ bindings' \in [Bindings -> BindingRows]
    <2>1. [status |-> "active", user |-> u, role |-> "admin", by |-> "bootstrap"] \in BindingRows
      BY HumanAssumption DEF BindingRows
    <2>2. QED
      BY <1>0, <1>4, <2>1 DEF Bootstrap
  <1>5. ASSUME NEW w \in Workers, RequestStep(w)
        PROVE  \/ UNCHANGED <<clock, bindings>>
               \/ \E b \in Bindings, u \in Users, role \in Roles : CreateBinding(w, b, u, role)
               \/ \E b \in Bindings : RevokeBinding(w, b)
    BY <1>5 DEF RequestStep, ConsumeLogin, LearnSubject, ReadIdentity, LoginCollides,
                LoginKnown, LoginNew, ReadSession, Refresh, Logout, LogoutAll, SetStatus,
                EndRequest
  <1>6. CASE HumanTick
    BY <1>0, <1>6 DEF HumanTick
  <1>7. (\E l \in Logins : BeginLogin(l)) => UNCHANGED <<clock, bindings>>
    BY DEF BeginLogin
  <1>8. QED
    BY <1>1, <1>2, <1>3, <1>4, <1>5, <1>6, <1>7 DEF HumanNext, humanVars

(* The session that a callback inserts. *)
LEMMA OpenedRow ==
    ASSUME LoginInv, NEW w \in Workers, NEW s \in Sessions, NEW u \in Users, Opened(w, s, u)
    PROVE  LET new == sessions'[s] IN
           /\ sessions' \in [Sessions -> SessionRows]
           /\ \A t \in Sessions \ {s} : sessions'[t] = sessions[t]
           /\ new.status = "open" /\ new.user = u /\ new.login = job[w].login
           /\ new.idle <= new.absolute /\ new.absolute = new.opened + AbsoluteTtl
           /\ new.login \in Logins /\ logins[new.login].status = "consumed"
           /\ \A t \in Sessions : sessions[t].login # new.login
           /\ job[w].pc = "write" /\ sessions[s].status = "absent"
  <1> DEFINE row == [status |-> "open", user |-> u, login |-> job[w].login,
                     opened |-> job[w].now,
                     idle |-> job[w].now + Smaller(IdleTtl, AbsoluteTtl),
                     absolute |-> job[w].now + AbsoluteTtl]
  <1>0. sessions \in [Sessions -> SessionRows] /\ job[w].now \in Nat
    BY DEF LoginInv, HumanTypeOK, Jobs
  <1>1. /\ job[w].login \in Logins /\ logins[job[w].login].status = "consumed"
        /\ \A t \in Sessions : sessions[t].login # job[w].login
    BY DEF Opened, LoginInv, CallbacksSound, CallbackSound, LoggingIn
  <1>2. Smaller(IdleTtl, AbsoluteTtl) \in Nat /\ Smaller(IdleTtl, AbsoluteTtl) <= AbsoluteTtl
        /\ AbsoluteTtl \in Nat
    BY HumanAssumption DEF Smaller
  <1>3. row \in SessionRows
    BY <1>0, <1>1, <1>2 DEF SessionRows
  <1>4. sessions' = [sessions EXCEPT ![s] = row]
    BY DEF Opened, OpenSession
  <1>5. sessions'[s] = row /\ row.idle <= row.absolute
    BY <1>0, <1>2, <1>4
  <1>6. QED
    BY <1>0, <1>1, <1>3, <1>4, <1>5 DEF Opened

LEMMA SessionsStep ==
    ASSUME LoginInv, [HumanNext]_humanVars
    PROVE  sessions' \in [Sessions -> SessionRows] /\ SessionsSound'
  <1>0. OneSessionPerLogin /\ \A s \in Sessions : SessionSound(s)
    BY DEF LoginInv, SessionsSound
  <1>1. \A l \in Logins : logins[l].status = "consumed" => logins'[l].status = "consumed"
    BY LoginRowStep
  <1>2. CASE AllKept
    <2>1. \A s \in Sessions : SessionSound(s)'
      BY <1>0, <1>1, <1>2 DEF AllKept, Kept, SessionSound
    <2>2. OneSessionPerLogin'
      BY <1>0, <1>2 DEF AllKept, Kept, OneSessionPerLogin
    <2>3. QED
      BY <1>2, <2>1, <2>2 DEF AllKept, SessionsSound
  <1>3. ASSUME NEW w \in Workers, NEW s \in Sessions, NEW u \in Users, Opened(w, s, u)
        PROVE  sessions' \in [Sessions -> SessionRows] /\ SessionsSound'
    <2>1. SessionSound(s)'
      BY <1>1, <1>3, OpenedRow DEF SessionSound
    <2>2. \A t \in Sessions \ {s} : SessionSound(t)'
      BY <1>0, <1>1, <1>3, OpenedRow DEF SessionSound
    <2>3. OneSessionPerLogin'
      BY <1>0, <1>3, OpenedRow DEF OneSessionPerLogin
    <2>4. QED
      BY <1>3, <2>1, <2>2, <2>3, OpenedRow DEF SessionsSound
  <1>4. QED
    BY <1>2, <1>3, SessionStep

(* The only sessions that get a login's id are the one its callback opens. *)
LEMMA CallbacksStep ==
    ASSUME LoginInv, [HumanNext]_humanVars
    PROVE  CallbacksSound'
  <1>0. /\ CallbacksSound /\ \A s \in Sessions : SessionSound(s)
        /\ job \in [Workers -> Jobs] /\ logins \in [Logins -> LoginRows]
        /\ Nothing \notin Logins
    BY HumanAssumption DEF LoginInv, HumanTypeOK, SessionsSound
  <1>1. \A l \in Logins : logins[l].status = "consumed" => logins'[l].status = "consumed"
    BY LoginRowStep
  <1>2. ASSUME NEW v \in Workers, LoggingIn(v)'
        PROVE  \/ /\ LoggingIn(v) /\ job'[v].login = job[v].login
                  /\ job'[v].pc # "exchange" => job'[v].subject \in Subjects
               \/ \E l \in Logins : ConsumeLogin(v, l)
    <2>1. JobMoves(v)
      BY JobShape
    <2>2. CASE job'[v] = job[v]
      BY <1>0, <1>2, <2>2 DEF LoggingIn, CallbacksSound, CallbackSound
    <2>3. CASE job'[v] = Free
      BY <1>2, <2>3 DEF LoggingIn, Free
    <2>4. CASE Proceeds(v)
      BY <2>4 DEF Proceeds
    <2>5. ASSUME NEW s \in Sessions, ReadSession(v, s)
          PROVE  FALSE
      <3>1. job'[v].pc = "refresh"
        BY <1>0, <2>5 DEF ReadSession, Free
      <3>2. QED
        BY <1>2, <3>1 DEF LoggingIn
    <2>6. CASE job'[v] = [job[v] EXCEPT !.pc = "handle"]
      BY <1>0, <1>2, <2>6 DEF LoggingIn, Jobs
    <2>7. QED
      BY <2>1, <2>2, <2>3, <2>4, <2>5, <2>6 DEF JobMoves
  <1>3. ASSUME NEW v \in Workers, NEW l \in Logins, ConsumeLogin(v, l)
        PROVE  /\ job'[v].login = l /\ job'[v].pc = "exchange"
               /\ logins[l].status = "open" /\ logins'[l].status = "consumed"
               /\ sessions' = sessions
               /\ \A w \in Workers \ {v} : job'[w] = job[w]
               /\ ~LoggingIn(v)
    <2>1. logins' = [logins EXCEPT ![l] = [logins[l] EXCEPT !.status = "consumed"]]
      BY <1>3 DEF ConsumeLogin
    <2>2. logins'[l].status = "consumed"
      BY <1>0, <2>1 DEF LoginRows
    <2>3. QED
      BY <1>0, <1>3, <2>2 DEF ConsumeLogin, Free, LoggingIn
  <1>4. ASSUME NEW v \in Workers, LoggingIn(v)', NEW s \in Sessions
        PROVE  sessions'[s].login # job'[v].login
    <2>1. CASE \E l \in Logins : ConsumeLogin(v, l)
      <3>1. PICK l \in Logins : ConsumeLogin(v, l)
        BY <2>1
      <3>2. sessions[s].login # l
        BY <1>0, <1>3, <3>1 DEF SessionSound
      <3>3. QED
        BY <1>3, <3>1, <3>2
    <2>2. CASE LoggingIn(v) /\ job'[v].login = job[v].login
      <3>1. CASE AllKept
        BY <1>0, <2>2, <3>1 DEF AllKept, Kept, CallbacksSound, CallbackSound
      <3>2. ASSUME NEW w \in Workers, NEW t \in Sessions, NEW u \in Users, Opened(w, t, u)
            PROVE  sessions'[s].login # job'[v].login
        <4>1. v # w
          BY <1>0, <1>4, <3>2 DEF Opened, End, LoggingIn, Free
        <4>2. job[v].login # job[w].login
          BY <1>0, <2>2, <3>2, <4>1 DEF Opened, LoggingIn, CallbacksSound, CallbackSound
        <4>3. sessions[s].login # job[v].login
          BY <1>0, <2>2 DEF CallbacksSound, CallbackSound
        <4>4. QED
          BY <2>2, <3>2, <4>2, <4>3, OpenedRow
      <3>3. QED
        BY <3>1, <3>2, SessionStep
    <2>3. QED
      BY <1>2, <1>4, <2>1, <2>2
  <1>5. ASSUME NEW v \in Workers, NEW w \in Workers, LoggingIn(v)', LoggingIn(w)',
               job'[v].login = job'[w].login
        PROVE  v = w
    <2>1. ASSUME NEW p \in Workers, NEW q \in Workers, LoggingIn(q)', p # q,
                 job'[p].login = job'[q].login, NEW l \in Logins, ConsumeLogin(p, l)
          PROVE  FALSE
      <3>1. job'[q] = job[q] /\ LoggingIn(q) /\ job[q].login = l
        BY <1>3, <2>1 DEF LoggingIn
      <3>2. logins[l].status = "consumed"
        BY <1>0, <3>1 DEF CallbacksSound, CallbackSound
      <3>3. QED
        BY <1>3, <2>1, <3>2
    <2>2. CASE /\ LoggingIn(v) /\ job'[v].login = job[v].login
               /\ LoggingIn(w) /\ job'[w].login = job[w].login
      BY <1>0, <1>5, <2>2 DEF CallbacksSound, CallbackSound
    <2>3. QED
      BY <1>2, <1>5, <2>1, <2>2
  <1>6. ASSUME NEW v \in Workers, LoggingIn(v)'
        PROVE  /\ job'[v].login \in Logins /\ logins'[job'[v].login].status = "consumed"
               /\ job'[v].pc # "exchange" => job'[v].subject \in Subjects
    BY <1>0, <1>1, <1>2, <1>3, <1>6 DEF CallbacksSound, CallbackSound
  <1>7. QED
    BY <1>4, <1>5, <1>6 DEF CallbacksSound, CallbackSound

(* What a request read of its session stays true of it. *)
LEMMA RequestsStep ==
    ASSUME LoginInv, [HumanNext]_humanVars
    PROVE  RequestsSound'
  <1>0. /\ RequestsSound /\ job \in [Workers -> Jobs] /\ sessions \in [Sessions -> SessionRows]
        /\ \A s \in Sessions : SessionSound(s)
        /\ clock \in Nat
    BY DEF LoginInv, HumanTypeOK, SessionsSound
  <1>1. ASSUME NEW s \in Sessions, sessions[s].status # "absent"
        PROVE  /\ sessions'[s].status # "absent" /\ sessions'[s].user = sessions[s].user
               /\ sessions'[s].absolute = sessions[s].absolute
    <2>1. CASE AllKept
      BY <1>1, <2>1 DEF AllKept, Kept
    <2>2. ASSUME NEW w \in Workers, NEW t \in Sessions, NEW u \in Users, Opened(w, t, u)
          PROVE  sessions'[s] = sessions[s]
      BY <1>1, <2>2, OpenedRow DEF Opened
    <2>3. QED
      BY <1>1, <2>1, <2>2, SessionStep
  <1>2. ASSUME NEW v \in Workers, Authenticated(v)'
        PROVE  RequestSound(v)'
    <2>1. CASE /\ Authenticated(v)
               /\ job'[v].session = job[v].session /\ job'[v].user = job[v].user
               /\ job'[v].row = job[v].row /\ job'[v].now = job[v].now
      BY <1>0, <1>1, <2>1 DEF RequestsSound, RequestSound
    <2>2. ASSUME NEW s \in Sessions, ReadSession(v, s)
          PROVE  RequestSound(v)'
      <3> DEFINE row == sessions[s]
      <3>1. row.status = "open" /\ clock < row.absolute /\ sessions' = sessions
        BY <1>0, <2>2 DEF ReadSession, Valid, SessionRows
      <3>2. /\ job'[v].session = s /\ job'[v].user = row.user /\ job'[v].row = row
            /\ job'[v].now = clock
        BY <1>0, <2>2 DEF ReadSession, Free
      <3>3. QED
        BY <3>1, <3>2 DEF RequestSound
    <2>3. JobMoves(v)
      BY JobShape
    <2>4. CASE job'[v] = job[v]
      BY <1>2, <2>1, <2>4 DEF Authenticated
    <2>5. CASE job[v].pc = "refresh" /\ job'[v] = [job[v] EXCEPT !.pc = "handle"]
      <3>1. job[v] \in Jobs
        BY <1>0
      <3>2. QED
        BY <2>1, <2>5, <3>1 DEF Authenticated, Jobs
    <2>6. CASE job'[v] = Free \/ Proceeds(v)
      BY <1>2, <2>6 DEF Authenticated, Free, Proceeds
    <2>7. ASSUME NEW l \in Logins, ConsumeLogin(v, l)
          PROVE  FALSE
      <3>1. job'[v].pc = "exchange"
        BY <1>0, <2>7 DEF ConsumeLogin, Free
      <3>2. QED
        BY <1>2, <3>1 DEF Authenticated
    <2>8. QED
      BY <2>2, <2>3, <2>4, <2>5, <2>6, <2>7 DEF JobMoves
  <1>3. QED
    BY <1>2 DEF RequestsSound, RequestSound

(* What a login was answered with is not overwritten, and an identity      *)
(* keeps its user.                                                         *)
LEMMA AnswersStep ==
    ASSUME LoginInv, AnswersSound, [HumanNext]_humanVars
    PROVE  AnswersSound'
  <1>0. /\ job \in [Workers -> Jobs] /\ sessions \in [Sessions -> SessionRows]
        /\ answered \in [Logins -> Subjects \cup {Nothing}]
        /\ identity \in [Subjects -> Users \cup {Nothing}]
        /\ Nothing \notin Users \cup Subjects
        /\ \A s \in Sessions : SessionSound(s)
        /\ \A w \in Workers : CallbackSound(w)
    BY HumanAssumption DEF LoginInv, HumanTypeOK, SessionsSound, CallbacksSound
  <1>1. \A x \in Subjects : identity[x] # Nothing => identity'[x] = identity[x]
    BY IdentityStep
  <1>2. ASSUME NEW s \in Sessions, sessions[s].status # "absent"
        PROVE  /\ answered'[sessions[s].login] = answered[sessions[s].login]
               /\ answered'[sessions[s].login] \in Subjects
               /\ identity'[answered'[sessions[s].login]] = sessions[s].user
    <2>1. /\ sessions[s].login \in Logins /\ sessions[s].user \in Users
          /\ answered[sessions[s].login] \in Subjects
          /\ identity[answered[sessions[s].login]] = sessions[s].user
      BY <1>0, <1>2 DEF SessionSound, AnswersSound
    <2>2. ASSUME NEW w \in Workers, NEW x \in Subjects, LearnSubject(w, x)
          PROVE  sessions[s].login # job[w].login
      BY <1>0, <2>2 DEF LearnSubject, CallbackSound, LoggingIn
    <2>3. answered'[sessions[s].login] = answered[sessions[s].login]
      BY <1>0, <2>1, <2>2, AnsweredStep
    <2>4. QED
      BY <1>0, <1>1, <2>1, <2>3
  <1>3. ASSUME NEW s \in Sessions, sessions'[s].status # "absent"
        PROVE  /\ answered'[sessions'[s].login] \in Subjects
               /\ identity'[answered'[sessions'[s].login]] = sessions'[s].user
    <2>1. CASE AllKept
      BY <1>2, <1>3, <2>1 DEF AllKept, Kept
    <2>2. ASSUME NEW w \in Workers, NEW t \in Sessions, NEW u \in Users, Opened(w, t, u)
          PROVE  /\ answered'[sessions'[s].login] \in Subjects
                 /\ identity'[answered'[sessions'[s].login]] = sessions'[s].user
      <3>1. CASE s # t
        BY <1>2, <1>3, <2>2, <3>1, OpenedRow
      <3>2. CASE s = t
        <4>1. /\ sessions'[s].user = u /\ sessions'[s].login = job[w].login
              /\ job[w].pc = "write" /\ answered' = answered
          BY <2>2, <3>2, OpenedRow DEF Opened
        <4>2. answered[job[w].login] = job[w].subject /\ job[w].subject \in Subjects
          BY <1>0, <4>1 DEF AnswersSound, CallbackSound, LoggingIn
        <4>3. CASE u = job[w].known /\ UNCHANGED identity
          BY <1>0, <4>1, <4>2, <4>3 DEF AnswersSound
        <4>4. CASE identity' = [identity EXCEPT ![job[w].subject] = u]
          BY <1>0, <4>1, <4>2, <4>4
        <4>5. QED
          BY <2>2, <4>3, <4>4 DEF Opened
      <3>3. QED
        BY <3>1, <3>2
    <2>3. QED
      BY <2>1, <2>2, SessionStep
  <1>4. ASSUME NEW v \in Workers, job'[v].pc \in {"read", "write"}
        PROVE  /\ answered'[job'[v].login] = job'[v].subject
               /\ job'[v].pc = "write" /\ job'[v].known # Nothing =>
                      identity'[job'[v].subject] = job'[v].known
    <2>1. JobMoves(v)
      BY JobShape
    <2>2. ASSUME NEW x \in Subjects, LearnSubject(v, x)
          PROVE  /\ answered'[job'[v].login] = job'[v].subject
                 /\ job'[v].pc = "read"
      <3>1. job[v].login \in Logins
        BY <1>0, <2>2 DEF LearnSubject, CallbackSound, LoggingIn
      <3>2. /\ job'[v] = [job[v] EXCEPT !.pc = "read", !.subject = x, !.now = clock]
            /\ answered' = [answered EXCEPT ![job[v].login] = x]
        BY <1>0, <2>2 DEF LearnSubject
      <3>3. /\ job'[v].login = job[v].login /\ job'[v].subject = x /\ job'[v].pc = "read"
        BY <1>0, <3>2 DEF Jobs
      <3>4. QED
        BY <1>0, <3>1, <3>2, <3>3
    <2>3. ASSUME ReadIdentity(v) \/ LoginCollides(v) \/ job'[v] = job[v]
          PROVE  /\ job[v].pc \in {"read", "write"}
                 /\ job'[v].login = job[v].login /\ job'[v].subject = job[v].subject
                 /\ job[v].login \in Logins /\ job[v].subject \in Subjects
      <3>1. /\ job[v].pc \in {"read", "write"}
            /\ job'[v].login = job[v].login /\ job'[v].subject = job[v].subject
        BY <1>0, <1>4, <2>3 DEF ReadIdentity, LoginCollides, Jobs
      <3>2. QED
        BY <1>0, <3>1 DEF CallbackSound, LoggingIn
    <2>4. ASSUME ReadIdentity(v) \/ LoginCollides(v) \/ job'[v] = job[v]
          PROVE  answered'[job'[v].login] = job'[v].subject
      <3>1. CASE UNCHANGED answered
        BY <2>3, <2>4, <3>1 DEF AnswersSound
      <3>2. ASSUME NEW w \in Workers, NEW x \in Subjects, LearnSubject(w, x),
                   answered' = [answered EXCEPT ![job[w].login] = x]
            PROVE  answered'[job'[v].login] = job'[v].subject
        <4>1. job[w].pc = "exchange" /\ job[w].login # job[v].login
          BY <1>0, <2>3, <2>4, <3>2 DEF LearnSubject, CallbackSound, LoggingIn
        <4>2. QED
          BY <1>0, <2>3, <2>4, <3>2, <4>1 DEF AnswersSound
      <3>3. QED
        BY <3>1, <3>2, AnsweredStep
    <2>5. ASSUME ReadIdentity(v) \/ LoginCollides(v) \/ job'[v] = job[v],
                 job'[v].pc = "write", job'[v].known # Nothing
          PROVE  identity'[job'[v].subject] = job'[v].known
      <3>1. identity[job[v].subject] = job'[v].known
        BY <1>0, <2>5 DEF ReadIdentity, LoginCollides, Jobs, AnswersSound
      <3>2. QED
        BY <1>1, <2>3, <2>5, <3>1
    <2>6. CASE job'[v] = Free
      BY <1>4, <2>6 DEF Free
    <2>7. ASSUME NEW l \in Logins, ConsumeLogin(v, l)
          PROVE  FALSE
      <3>1. job'[v].pc = "exchange"
        BY <1>0, <2>7 DEF ConsumeLogin, Free
      <3>2. QED
        BY <1>4, <3>1
    <2>8. ASSUME NEW s \in Sessions, ReadSession(v, s)
          PROVE  FALSE
      <3>1. job'[v].pc = "refresh"
        BY <1>0, <2>8 DEF ReadSession, Free
      <3>2. QED
        BY <1>4, <3>1
    <2>9. CASE job'[v] = [job[v] EXCEPT !.pc = "handle"]
      BY <1>0, <1>4, <2>9 DEF Jobs
    <2>10. QED
      BY <2>1, <2>2, <2>4, <2>5, <2>6, <2>7, <2>8, <2>9 DEF JobMoves, Proceeds
  <1>5. QED
    BY <1>3, <1>4 DEF AnswersSound
-----------------------------------------------------------------------------
(* Theorems about logins and sessions *)

LEMMA LoginStart == HumanInit => LoginInv
  <1> SUFFICES ASSUME HumanInit
               PROVE  LoginInv
    OBVIOUS
  <1>1. HumanTypeOK
    <2>1. NoLogin \in LoginRows /\ NoBinding \in BindingRows
      BY HumanAssumption DEF NoLogin, LoginRows, NoBinding, BindingRows
    <2>2. QED
      BY <2>1, FreeType DEF HumanInit, HumanTypeOK, UserStatuses
  <1>2. IdentitiesSound
    BY DEF HumanInit, IdentitiesSound
  <1>3. SessionsSound
    BY DEF HumanInit, SessionsSound, OneSessionPerLogin, SessionSound, NoSession
  <1>4. CallbacksSound /\ RequestsSound
    BY DEF HumanInit, Free, CallbacksSound, CallbackSound, LoggingIn, RequestsSound,
           RequestSound, Authenticated
  <1>5. QED
    BY <1>1, <1>2, <1>3, <1>4 DEF LoginInv

LEMMA LoginStep == LoginInv /\ [HumanNext]_humanVars => LoginInv'
  BY JobStep, SessionsStep, LoginRowStep, IdentityStep, AnsweredStep, BindingTypes,
     CallbacksStep, RequestsStep DEF LoginInv, HumanTypeOK

LEMMA AnswersStart == HumanInit => AnswersSound
  BY DEF HumanInit, AnswersSound, Free, NoSession

(* What the invariant is for. *)
LEMMA LoginInvSound == LoginInv /\ AnswersSound => LoginsSound
  <1> SUFFICES ASSUME LoginInv, AnswersSound
               PROVE  LoginsSound
    OBVIOUS
  <1>0. /\ HumanTypeOK /\ IdentitiesSound /\ SessionsSound /\ RequestsSound
        /\ Nothing \notin Logins \cup Users
    BY HumanAssumption DEF LoginInv
  <1>1. OneUserPerIdentity
    <2> SUFFICES ASSUME NEW u \in Users, users[u] # "absent"
                 PROVE  Cardinality({x \in Subjects : identity[x] = u}) = 1
      BY DEF OneUserPerIdentity
    <2>1. PICK x \in Subjects : identity[x] = u
      BY <1>0 DEF IdentitiesSound
    <2>2. {y \in Subjects : identity[y] = u} = {x}
      BY <1>0, <2>1 DEF IdentitiesSound
    <2>3. QED
      BY <2>2, FS_Singleton
  <1>2. LoginOpensOneSession
    BY <1>0 DEF LoginOpensOneSession, SessionsSound, OneSessionPerLogin, SessionSound,
                AnswersSound
  <1>3. SessionLifeBounded
    <2>1. \A s \in Sessions : sessions[s].status # "absent" =>
              /\ sessions[s].idle <= sessions[s].absolute
              /\ sessions[s].absolute = sessions[s].opened + AbsoluteTtl
      BY <1>0 DEF SessionsSound, SessionSound
    <2>2. ASSUME NEW w \in Workers, Authenticated(w)
          PROVE  job[w].now < sessions[job[w].session].opened + AbsoluteTtl
      BY <1>0, <2>1, <2>2 DEF RequestsSound, RequestSound
    <2>3. QED
      BY <2>1, <2>2 DEF SessionLifeBounded, Authenticated
  <1>4. QED
    BY <1>0, <1>1, <1>2, <1>3 DEF LoginsSound

LEMMA LoginInvAlways == HumanSpec => []LoginInv
  BY LoginStart, LoginStep, PTL DEF HumanSpec

LEMMA AnswersAlways == HumanSpec => []AnswersSound
  BY AnswersStart, AnswersStep, LoginInvAlways, PTL DEF HumanSpec

(* Whatever races with what, one person has one user, one login opens at   *)
(* most one session, for the user of the person it was answered for, and   *)
(* no session, refreshed however often and from however old a read, lives  *)
(* past its absolute limit                                                 *)
(* (complete_oidc_login, bootstrap_global_admin,                           *)
(* _browser_session_principal).                                            *)
THEOREM LoginsSoundAlways == HumanSpec => []LoginsSound
  BY LoginInvAlways, AnswersAlways, LoginInvSound, PTL

(* A session that was revoked is never open again: not by the refresh of a *)
(* request that read it while it was open, nor by any other write          *)
(* (logout, logout-all, update_user_status and revoke_role_binding against *)
(* _browser_session_principal).                                            *)
THEOREM RevokedSessionStaysRevokedAlways == HumanSpec => RevokedSessionStaysRevoked
  <1>1. ASSUME LoginInv, [HumanNext]_humanVars
        PROVE  \A s \in Sessions : sessions[s].status = "revoked" =>
                   sessions'[s].status = "revoked"
    <2>1. CASE AllKept
      BY <2>1 DEF AllKept, Kept
    <2>2. ASSUME NEW w \in Workers, NEW t \in Sessions, NEW u \in Users, Opened(w, t, u)
          PROVE  \A s \in Sessions : sessions[s].status = "revoked" =>
                     sessions'[s].status = "revoked"
      BY <1>1, <2>2, OpenedRow DEF Opened
    <2>3. QED
      BY <1>1, <2>1, <2>2, SessionStep
  <1>2. QED
    BY <1>1, LoginInvAlways, PTL DEF HumanSpec, RevokedSessionStaysRevoked
-----------------------------------------------------------------------------
(* Where authority comes from *)

(* Bindings are revoked but never deleted or rewritten. *)
BindingsPersist ==
    \A b \in Bindings : bindings[b].status # "absent" =>
        /\ bindings'[b].status # "absent" /\ bindings'[b].user = bindings[b].user
        /\ bindings'[b].role = bindings[b].role /\ bindings'[b].by = bindings[b].by

LEMMA BindingStep ==
    ASSUME LoginInv, [HumanNext]_humanVars
    PROVE  \/ BindingsPersist /\ \A b \in Bindings : bindings[b].status = "absent" =>
                                     bindings'[b] = bindings[b]
           \/ \E w \in Workers, b \in Bindings, u \in Users, role \in Roles :
                  CreateBinding(w, b, u, role)
           \/ \E b \in Bindings, x \in Subjects, u \in Users : Bootstrap(b, x, u)
  <1>0. bindings \in [Bindings -> BindingRows]
    BY DEF LoginInv, HumanTypeOK
  <1>1. UNCHANGED bindings => BindingsPersist /\ \A b \in Bindings : bindings'[b] = bindings[b]
    BY DEF BindingsPersist
  <1>2. ASSUME NEW w \in Workers, NEW b \in Bindings, RevokeBinding(w, b)
        PROVE  BindingsPersist /\ \A a \in Bindings : bindings[a].status = "absent" =>
                                     bindings'[a] = bindings[a]
    <2> DEFINE row == [bindings[b] EXCEPT !.status = "revoked"]
    <2>1. bindings' = [bindings EXCEPT ![b] = row] /\ bindings[b].status = "active"
      BY <1>2 DEF RevokeBinding
    <2>2. /\ row.status = "revoked" /\ row.user = bindings[b].user
          /\ row.role = bindings[b].role /\ row.by = bindings[b].by
      BY <1>0 DEF BindingRows
    <2>3. QED
      BY <1>0, <2>1, <2>2 DEF BindingsPersist
  <1>3. ASSUME NEW w \in Workers, RequestStep(w)
        PROVE  \/ UNCHANGED bindings
               \/ \E b \in Bindings, u \in Users, role \in Roles : CreateBinding(w, b, u, role)
               \/ \E b \in Bindings : RevokeBinding(w, b)
    BY <1>3 DEF RequestStep, ConsumeLogin, LearnSubject, ReadIdentity, LoginCollides,
                LoginKnown, LoginNew, ReadSession, Refresh, Logout, LogoutAll, SetStatus,
                EndRequest
  <1>4. HumanTick \/ (\E l \in Logins : BeginLogin(l)) => UNCHANGED bindings
    BY DEF HumanTick, BeginLogin
  <1>5. QED
    BY <1>1, <1>2, <1>3, <1>4 DEF HumanNext, humanVars

(* A new binding takes an unused row. *)
LEMMA NewBinding ==
    ASSUME LoginInv, NEW b \in Bindings, bindings[b].status = "absent",
           NEW row \in BindingRows, bindings' = [bindings EXCEPT ![b] = row]
    PROVE  BindingsPersist /\ bindings'[b] = row
           /\ \A a \in Bindings \ {b} : bindings'[a] = bindings[a]
  BY DEF LoginInv, HumanTypeOK, BindingsPersist

LEMMA AuthorityStep ==
    ASSUME LoginInv, AuthorityInv, [HumanNext]_humanVars
    PROVE  AuthorityInv'
  <1>0. job \in [Workers -> Jobs] /\ bindings \in [Bindings -> BindingRows] /\ HumanTypeOK
    BY DEF LoginInv, HumanTypeOK
  <1>1. /\ BindingsPersist
        /\ \A b \in Bindings : bindings[b].status = "absent" =>
               \/ bindings'[b] = bindings[b]
               \/ bindings'[b].by = "bootstrap" /\ bindings'[b].status # "absent"
               \/ \E w \in Workers : job[w].admin /\ bindings'[b].by = job[w].user
    <2>1. ASSUME NEW w \in Workers, NEW b \in Bindings, NEW u \in Users, NEW role \in Roles,
                 CreateBinding(w, b, u, role)
          PROVE  /\ BindingsPersist /\ job[w].admin /\ bindings'[b].by = job[w].user
                 /\ \A a \in Bindings \ {b} : bindings'[a] = bindings[a]
      <3> DEFINE row == [status |-> "active", user |-> u, role |-> role, by |-> job[w].user]
      <3>1. row \in BindingRows
        BY <1>0 DEF BindingRows, Jobs
      <3>2. bindings[b].status = "absent" /\ bindings' = [bindings EXCEPT ![b] = row]
            /\ job[w].admin
        BY <2>1 DEF CreateBinding, ActsAsAdmin
      <3>3. /\ BindingsPersist /\ bindings'[b] = row
            /\ \A a \in Bindings \ {b} : bindings'[a] = bindings[a]
        BY ONLY LoginInv, <3>1, <3>2, NewBinding, b \in Bindings
      <3>4. QED
        BY <3>2, <3>3
    <2>2. ASSUME NEW b \in Bindings, NEW x \in Subjects, NEW u \in Users, Bootstrap(b, x, u)
          PROVE  /\ BindingsPersist
                 /\ bindings'[b].by = "bootstrap" /\ bindings'[b].status # "absent"
                 /\ \A a \in Bindings \ {b} : bindings'[a] = bindings[a]
      <3> DEFINE row == [status |-> "active", user |-> u, role |-> "admin", by |-> "bootstrap"]
      <3>1. row \in BindingRows
        BY HumanAssumption DEF BindingRows
      <3>2. bindings[b].status = "absent" /\ bindings' = [bindings EXCEPT ![b] = row]
        BY <2>2 DEF Bootstrap
      <3>3. /\ BindingsPersist /\ bindings'[b] = row
            /\ \A a \in Bindings \ {b} : bindings'[a] = bindings[a]
        BY ONLY LoginInv, <3>1, <3>2, NewBinding, b \in Bindings
      <3>4. QED
        BY <3>3
    <2>3. QED
      BY <2>1, <2>2, BindingStep
  <1>2. ASSUME NEW v \in Workers, job'[v].admin
        PROVE  \E a \in Bindings : WasAdmin(job[v].user, a)'
    <2>1. CASE job[v].admin /\ job'[v].user = job[v].user
      <3>1. PICK a \in Bindings : WasAdmin(job[v].user, a)
        BY <2>1 DEF AuthorityInv
      <3>2. QED
        BY <1>1, <2>1, <3>1 DEF WasAdmin, BindingsPersist
    <2>2. ASSUME NEW s \in Sessions, ReadSession(v, s)
          PROVE  \E a \in Bindings : WasAdmin(job[v].user, a)'
      <3>1. /\ job'[v].admin = IsAdmin(sessions[s].user)
            /\ job'[v].user = sessions[s].user /\ bindings' = bindings
        BY <1>0, <2>2 DEF ReadSession, Free
      <3>2. QED
        BY <1>2, <3>1 DEF IsAdmin, WasAdmin
    <2>3. job'[v] = Free => ~job'[v].admin
      BY DEF Free
    <2>4. ASSUME NEW l \in Logins, ConsumeLogin(v, l)
          PROVE  ~job'[v].admin
      BY <1>0, <2>4 DEF ConsumeLogin, Free
    <2>5. job'[v] = [job[v] EXCEPT !.pc = "handle"] =>
              job'[v].admin = job[v].admin /\ job'[v].user = job[v].user
      BY <1>0 DEF Jobs
    <2>6. QED
      BY <1>2, <2>1, <2>2, <2>3, <2>4, <2>5, JobShape DEF JobMoves, Proceeds
  <1>3. ASSUME NEW b \in Bindings, bindings'[b].status # "absent"
        PROVE  \E a \in Bindings : bindings'[a].status # "absent" /\ bindings'[a].by = "bootstrap"
    <2>1. CASE \E a \in Bindings : bindings[a].status # "absent"
      <3>1. PICK a \in Bindings : bindings[a].status # "absent" /\ bindings[a].by = "bootstrap"
        BY <2>1 DEF AuthorityInv
      <3>2. QED
        BY <1>1, <3>1 DEF BindingsPersist
    <2>2. CASE \A a \in Bindings : bindings[a].status = "absent"
      <3>1. \A w \in Workers : ~job[w].admin
        BY <2>2 DEF AuthorityInv, WasAdmin
      <3>2. QED
        BY <1>1, <1>3, <2>2, <3>1
    <2>3. QED
      BY <2>1, <2>2
  <1>4. ASSUME NEW b \in Bindings, bindings'[b].status # "absent", bindings'[b].by # "bootstrap"
        PROVE  \E a \in Bindings \ {b} : WasAdmin(bindings[b].by, a)'
    <2>1. \E a \in Bindings \ {b} : WasAdmin(bindings'[b].by, a)
      <3>1. CASE bindings[b].status # "absent"
        BY <1>1, <1>4, <3>1 DEF BindingsPersist, AuthorityInv
      <3>2. CASE bindings[b].status = "absent"
        <4>1. PICK w \in Workers : job[w].admin /\ bindings'[b].by = job[w].user
          BY <1>1, <1>4, <3>2
        <4>2. PICK a \in Bindings : WasAdmin(job[w].user, a)
          BY <4>1 DEF AuthorityInv
        <4>3. QED
          BY <3>2, <4>1, <4>2 DEF WasAdmin
      <3>3. QED
        BY <3>1, <3>2
    <2>2. PICK a \in Bindings \ {b} : WasAdmin(bindings'[b].by, a)
      BY <2>1
    <2>3. QED
      BY <1>1, <2>2 DEF WasAdmin, BindingsPersist
  <1>5. QED
    BY <1>2, <1>3, <1>4 DEF AuthorityInv

(* Authority is never made out of nothing: whoever bound a role held an    *)
(* Admin binding of his own before, although the permission was checked on *)
(* a principal read earlier, and the chain starts with the bootstrap       *)
(* command (create_role_binding, bootstrap_global_admin).                  *)
THEOREM AuthorityTracesToBootstrapAlways == HumanSpec => []AuthorityTracesToBootstrap
  <1>1. HumanInit => AuthorityInv
    BY DEF HumanInit, AuthorityInv, Free, NoBinding
  <1>2. LoginInv /\ AuthorityInv /\ [HumanNext]_humanVars => AuthorityInv'
    BY AuthorityStep
  <1>3. AuthorityInv => AuthorityTracesToBootstrap
    BY DEF AuthorityInv, AuthorityTracesToBootstrap, WasAdmin
  <1>4. QED
    BY <1>1, <1>2, <1>3, LoginInvAlways, PTL DEF HumanSpec

(***************************************************************************)
(*                          Requests and routes                            *)
(***************************************************************************)

-----------------------------------------------------------------------------
(* The routes *)

(* What the table of special routes says of each class. *)
LEMMA AgentRoutes ==
    ASSUME NEW r \in Routes, Policy(r) = "agent"
    PROVE  /\ _is_existing_agent_path(r)
           /\ ~_is_bootstrap_path(r)
           /\ ~_is_device_only_path(r)
           /\ ~Safe(r)
  BY DEF Routes, SPECIAL_ROUTE_POLICIES, HUMAN_ROUTE_POLICIES, Policy, Path, Method, Safe,
         _is_existing_agent_path, _is_bootstrap_path, _is_device_only_path

(* The session's own page is only read. *)
LEMMA SelfRoutes ==
    ASSUME NEW r \in Routes, Policy(r) = "self"
    PROVE  Safe(r)
  BY DEF Routes, SPECIAL_ROUTE_POLICIES, HUMAN_ROUTE_POLICIES, Policy, Method, Safe

(* A route whose permission is one of the readers' changes nothing. *)
LEMMA ReaderRoutes ==
    ASSUME NEW r \in Routes, Policy(r) \in READONLY_PERMISSIONS
    PROVE  Safe(r)
  BY DEF Routes, SPECIAL_ROUTE_POLICIES, HUMAN_ROUTE_POLICIES, Policy, Method, Safe,
         READONLY_PERMISSIONS, FleetReads

-----------------------------------------------------------------------------
(* The principals *)

(* What stands behind a principal: the mechanism the request used, and     *)
(* that the deployment has it.                                             *)
Development(c, p) ==
    c.tokens = {} /\ c.mode = "development_open"
    /\ p = Principal("operator", "development_open", "all")

Browser(c, q, p) ==
    /\ "key" \in c.browser /\ c.tokens # {} /\ q.cookie # "none"
    /\ _browser_csrf_valid(c, q)
    /\ p = Principal("human", "oidc_session", q.cookie)

Proxy(c, q, p) ==
    /\ "external" \in c.tokens /\ "oidc" \notin c.tokens
    /\ \/ q.external = "operator" /\ p = Principal("operator", "external_proxy", "legacy_operator")
       \/ q.external = "readonly" /\ p = Principal("readonly", "external_proxy", "readonly")

Token(c, p) ==
    \/ "hmac" \in c.tokens /\ p = Principal("agent", "device_credential", "none")
    \/ c.tokens # {} /\ p = Principal("enrollment", "enrollment_token", "none")
    \/ "operator" \in c.tokens /\ p = OperatorPrincipal
    \/ "agent" \in c.tokens /\ p = Principal("agent", "agent_token", "none")
    \/ "readonly" \in c.tokens /\ p = Principal("readonly", "readonly_token", "readonly")

Identified(c, q, p) ==
    \/ Development(c, p)
    \/ Browser(c, q, p)
    \/ q.cookie = "none" /\ (Proxy(c, q, p) \/ Token(c, p))

LEMMA TokenIdentifies ==
    ASSUME NEW c \in Configs, NEW q \in Requests, c.tokens # {}
    PROVE  LET a == TokenAnswer(c, q) IN
           \/ a.status = 0 /\ Token(c, a.principal)
           \/ a.status \in {401, 403} /\ a.principal = Nobody
  <1>1. CASE q.token = "device"
    BY <1>1 DEF TokenAnswer, Token, Known, Refused
  <1>2. CASE q.token = "enrollment"
    BY <1>2 DEF TokenAnswer, Token, Known, Refused
  <1>3. CASE q.token \notin {"device", "enrollment"}
    BY <1>3 DEF TokenAnswer, Token, Known, Refused
  <1>4. QED
    BY <1>1, <1>2, <1>3

LEMMA ProxyIdentifies ==
    ASSUME NEW c \in Configs, NEW q \in Requests, "external" \in c.tokens
    PROVE  LET a == ExternalAnswer(c, q) IN
           \/ a.status = 0 /\ Proxy(c, q, a.principal)
           \/ a.status = 403 /\ a.principal = Nobody
  BY DEF ExternalAnswer, Proxy, Known, Refused

(* A request gets past the middleware's first part only as somebody the    *)
(* deployment knows; the answers of the others are refusals.               *)
LEMMA AuthenticateIdentifies ==
    ASSUME NEW c \in Configs, NEW q \in Requests
    PROVE  LET a == Authenticate(c, q) IN
           \/ a.status = 0 /\ Identified(c, q, a.principal)
           \/ a.status \in {401, 403, 503} /\ a.principal = Nobody
  <1>1. CASE ~authentication_configured(c)
    BY <1>1 DEF Authenticate, authentication_configured, Identified, Development, Known, Refused
  <1>2. CASE authentication_configured(c) /\ q.cookie # "none"
    BY <1>2 DEF Authenticate, authentication_configured, SessionHolds, Identified, Browser,
                Known, Refused
  <1>3. CASE authentication_configured(c) /\ q.cookie = "none"
    <2>1. CASE q.external # "none" /\ "external" \in c.tokens
      <3>1. Authenticate(c, q) = ExternalAnswer(c, q)
        BY <1>3, <2>1 DEF Authenticate
      <3>2. QED
        BY <1>3, <2>1, <3>1, ProxyIdentifies DEF Identified
    <2>2. CASE ~(q.external # "none" /\ "external" \in c.tokens)
      <3>1. Authenticate(c, q) = TokenAnswer(c, q)
        BY <1>3, <2>2 DEF Authenticate
      <3>2. QED
        BY <1>3, <3>1, TokenIdentifies DEF Identified, authentication_configured
    <2>3. QED
      BY <2>1, <2>2
  <1>4. QED
    BY <1>1, <1>2, <1>3
-----------------------------------------------------------------------------
(* The inductive invariant *)

(* A connection in its three stages: refused by the middleware, past it    *)
(* and waiting for its handler, answered by the handler.                   *)
TurnedAway ==
    /\ conn.pc = "answered" /\ conn.status \in {401, 403, 503}
    /\ conn.principal = Nobody

Forbidden ==
    /\ conn.pc = "answered" /\ conn.status = 403
    /\ Identified(config, conn.request, conn.principal)
    /\ ~_authorize(conn.principal, conn.request.route) \/ ~MayHandle(conn.principal, conn.request)

LetIn ==
    /\ conn.pc = "handler" /\ conn.status = 0
    /\ Identified(config, conn.request, conn.principal)
    /\ _authorize(conn.principal, conn.request.route)

Handled ==
    /\ conn.pc = "answered" /\ conn.status \in {200, 410, 503}
    /\ Identified(config, conn.request, conn.principal)
    /\ _authorize(conn.principal, conn.request.route)
    /\ MayHandle(conn.principal, conn.request)

Principals ==
    [role : {"nobody", "human", "operator", "readonly", "agent", "enrollment"},
     method : {"none", "development_open", "oidc_session", "external_proxy", "device_credential",
               "enrollment_token", "operator_token", "agent_token", "readonly_token"},
     held : {"none", "all", "viewer", "operator", "responder", "approver", "admin",
             "legacy_operator", "readonly"}]

Connections ==
    [pc : {"handler", "answered"}, request : Requests, principal : Principals, status : Nat]

AuthInv ==
    /\ config \in Configs
    /\ now \in 0..MaxTime
    /\ session \in {"valid", "ended"} /\ device \in {"valid", "revoked"}
    /\ \/ conn = NoRequest
       \/ conn \in Connections /\ (TurnedAway \/ Forbidden \/ LetIn \/ Handled)

LEMMA NobodyType == Nobody \in Principals
  BY DEF Nobody, Principal, Principals

LEMMA IdentifiedType ==
    ASSUME NEW c \in Configs, NEW q \in Requests, NEW p, Identified(c, q, p)
    PROVE  p \in Principals /\ p # Nobody
  <1>1. q.cookie \in {"none", "viewer", "operator", "responder", "approver", "admin"}
    BY RequestsAssumption
  <1>2. CASE Development(c, p) \/ Browser(c, q, p)
    BY <1>1, <1>2 DEF Development, Browser, Principal, Principals, Nobody
  <1>3. CASE Proxy(c, q, p) \/ Token(c, p)
    BY <1>3 DEF Proxy, Token, Principal, Principals, Nobody, OperatorPrincipal
  <1>4. QED
    BY <1>2, <1>3 DEF Identified

LEMMA ArriveStep ==
    ASSUME AuthInv, NEW q \in Requests, Arrive(q)
    PROVE  AuthInv'
  <1> DEFINE a == Authenticate(config, q)
  <1>1. /\ config \in Configs /\ now \in 0..MaxTime
        /\ session \in {"valid", "ended"} /\ device \in {"valid", "revoked"}
        /\ UNCHANGED <<config, now, session, device>>
    BY DEF AuthInv, Arrive
  <1>2. \/ a.status = 0 /\ Identified(config, q, a.principal)
        \/ a.status \in {401, 403, 503} /\ a.principal = Nobody
    BY <1>1, AuthenticateIdentifies
  <1>3. conn' = IF a.status # 0
                THEN [pc |-> "answered", request |-> q, principal |-> Nobody, status |-> a.status]
                ELSE IF ~_authorize(a.principal, q.route)
                THEN [pc |-> "answered", request |-> q, principal |-> a.principal, status |-> 403]
                ELSE [pc |-> "handler", request |-> q, principal |-> a.principal, status |-> 0]
    BY DEF Arrive
  <1> HIDE DEF a
  <1>4. CASE a.status # 0
    <2>1. conn' = [pc |-> "answered", request |-> q, principal |-> Nobody, status |-> a.status]
      BY <1>3, <1>4
    <2>2. conn' \in Connections /\ TurnedAway'
      BY <1>2, <1>4, <2>1, NobodyType DEF Connections, TurnedAway
    <2>3. QED
      BY <1>1, <2>2 DEF AuthInv
  <1>5. CASE a.status = 0 /\ ~_authorize(a.principal, q.route)
    <2>1. conn' = [pc |-> "answered", request |-> q, principal |-> a.principal, status |-> 403]
      BY <1>3, <1>5
    <2>2. Identified(config, q, a.principal)
      BY <1>2, <1>5
    <2>3. a.principal \in Principals
      BY <1>1, <2>2, IdentifiedType
    <2>4. conn' \in Connections /\ Forbidden'
      BY <1>1, <1>5, <2>1, <2>2, <2>3 DEF Connections, Forbidden
    <2>5. QED
      BY <1>1, <2>4 DEF AuthInv
  <1>6. CASE a.status = 0 /\ _authorize(a.principal, q.route)
    <2>1. conn' = [pc |-> "handler", request |-> q, principal |-> a.principal, status |-> 0]
      BY <1>3, <1>6
    <2>2. Identified(config, q, a.principal)
      BY <1>2, <1>6
    <2>3. a.principal \in Principals
      BY <1>1, <2>2, IdentifiedType
    <2>4. conn' \in Connections /\ LetIn'
      BY <1>1, <1>6, <2>1, <2>2, <2>3 DEF Connections, LetIn
    <2>5. QED
      BY <1>1, <2>4 DEF AuthInv
  <1>7. QED
    BY <1>4, <1>5, <1>6

LEMMA AnsweredType ==
    ASSUME NEW k \in Connections, NEW n \in Nat
    PROVE  [k EXCEPT !.pc = "answered", !.status = n] \in Connections
  BY DEF Connections

(* What a handler answers. *)
LEMMA HandleAnswers ==
    ASSUME AuthInv, Handle
    PROVE  /\ conn \in Connections /\ LetIn
           /\ conn' \in Connections /\ conn'.pc = "answered"
           /\ conn'.request = conn.request /\ conn'.principal = conn.principal
           /\ ~MayHandle(conn.principal, conn.request) => conn'.status = 403
           /\ MayHandle(conn.principal, conn.request) => conn'.status \in {200, 410, 503}
           /\ MayHandle(conn.principal, conn.request)
              /\ Policy(conn.request.route) = "installer_artifact.download" =>
                     conn'.status = get_installer_artifact(config, conn.request.target)
  <1> DEFINE answer == IF ~MayHandle(conn.principal, conn.request) THEN 403
                       ELSE IF Policy(conn.request.route) = "installer_artifact.download"
                       THEN get_installer_artifact(config, conn.request.target)
                       ELSE 200
  <1>1. conn.pc = "handler" /\ conn' = [conn EXCEPT !.pc = "answered", !.status = answer]
    BY DEF Handle
  <1>2. conn \in Connections /\ LetIn
    BY <1>1 DEF AuthInv, NoRequest, TurnedAway, Forbidden, Handled
  <1>3. get_installer_artifact(config, conn.request.target) \in {200, 410, 503}
    BY DEF get_installer_artifact
  <1>4. /\ answer \in {200, 403, 410, 503}
        /\ ~MayHandle(conn.principal, conn.request) => answer = 403
        /\ MayHandle(conn.principal, conn.request) => answer \in {200, 410, 503}
        /\ MayHandle(conn.principal, conn.request)
           /\ Policy(conn.request.route) = "installer_artifact.download" =>
                  answer = get_installer_artifact(config, conn.request.target)
    BY <1>3
  <1> HIDE DEF answer
  <1>5. /\ conn' \in Connections /\ conn'.pc = "answered" /\ conn'.status = answer
        /\ conn'.request = conn.request /\ conn'.principal = conn.principal
    <2>1. answer \in Nat
      BY <1>4
    <2>2. conn' \in Connections
      BY <1>1, <1>2, <2>1, AnsweredType
    <2>3. /\ conn'.pc = "answered" /\ conn'.status = answer
          /\ conn'.request = conn.request /\ conn'.principal = conn.principal
      BY <1>1, <1>2 DEF Connections
    <2>4. QED
      BY <2>2, <2>3
  <1>6. QED
    BY <1>2, <1>4, <1>5

LEMMA HandleStep ==
    ASSUME AuthInv, Handle
    PROVE  AuthInv'
  <1>1. /\ config \in Configs /\ now \in 0..MaxTime
        /\ session \in {"valid", "ended"} /\ device \in {"valid", "revoked"}
        /\ UNCHANGED <<config, now, session, device>>
    BY DEF AuthInv, Handle
  <1>2. CASE ~MayHandle(conn.principal, conn.request)
    <2>1. Forbidden'
      BY <1>1, <1>2, HandleAnswers DEF Forbidden, LetIn
    <2>2. QED
      BY <1>1, <2>1, HandleAnswers DEF AuthInv
  <1>3. CASE MayHandle(conn.principal, conn.request)
    <2>1. Handled'
      BY <1>1, <1>3, HandleAnswers DEF Handled, LetIn
    <2>2. QED
      BY <1>1, <2>1, HandleAnswers DEF AuthInv
  <1>4. QED
    BY <1>2, <1>3

LEMMA OtherSteps ==
    ASSUME AuthInv, Close \/ AuthTick \/ EndSession \/ RevokeDevice \/ UNCHANGED authVars
    PROVE  AuthInv'
  <1>1. CASE Close
    BY <1>1 DEF AuthInv, Close
  <1>2. CASE AuthTick
    <2>1. now' \in 0..MaxTime
      BY <1>2, RequestAuthAssumption DEF AuthInv, AuthTick
    <2>2. UNCHANGED <<config, session, device, conn>>
      BY <1>2 DEF AuthTick
    <2>3. QED
      BY <2>1, <2>2 DEF AuthInv, TurnedAway, Forbidden, LetIn, Handled
  <1>3. CASE EndSession \/ RevokeDevice
    <2>1. /\ UNCHANGED <<config, now, conn>>
          /\ session' \in {"valid", "ended"} /\ device' \in {"valid", "revoked"}
      BY <1>3 DEF AuthInv, EndSession, RevokeDevice
    <2>2. QED
      BY <2>1 DEF AuthInv, TurnedAway, Forbidden, LetIn, Handled
  <1>4. CASE UNCHANGED authVars
    BY <1>4 DEF authVars, AuthInv, TurnedAway, Forbidden, LetIn, Handled
  <1>5. QED
    BY <1>1, <1>2, <1>3, <1>4

LEMMA AuthInvHolds == AuthSpec => []AuthInv
  <1>1. AuthInit => AuthInv
    BY RequestAuthAssumption DEF AuthInit, AuthInv
  <1>2. AuthInv /\ [AuthNext]_authVars => AuthInv'
    BY ArriveStep, HandleStep, OtherSteps DEF AuthNext
  <1>3. QED
    BY <1>1, <1>2, PTL DEF AuthSpec
-----------------------------------------------------------------------------
(* Who is served *)

(* The permissions of a principal are those of its one global grant. *)
LEMMA HeldPermissions ==
    ASSUME NEW p \in Principals, NEW permission
    PROVE  has_permission(Grants(p), permission) <=> permission \in PermissionsHeld[p.held]
  BY DEF has_permission, Grants, synthetic_global_grant, ScopeGrant

(* What a route with a permission asks of whom it serves. *)
LEMMA PermissionAsked ==
    ASSUME NEW q \in Requests, NEW p \in Principals, MayHandle(p, q),
           Policy(q.route) \notin {"self", "self_session", "agent", "enrollment", "device"}
    PROVE  /\ p.role \notin {"agent", "enrollment"}
           /\ Policy(q.route) \in PermissionsHeld[p.held]
  BY HeldPermissions DEF MayHandle

(* The role, the mechanism and the permissions of a principal belong       *)
(* together.                                                               *)
LEMMA RolesFit ==
    ASSUME NEW c \in Configs, NEW q \in Requests, NEW p, Identified(c, q, p), c.tokens # {}
    PROVE  /\ p.role \in {"human", "operator", "readonly", "agent", "enrollment"}
           /\ p.method # "development_open"
           /\ p.role = "agent" <=> p.method \in {"device_credential", "agent_token"}
           /\ p.role = "enrollment" <=> p.method = "enrollment_token"
           /\ p.role = "human" <=> p.method = "oidc_session"
           /\ p.role = "human" <=> q.cookie # "none"
           /\ p.role = "human" => p.held = q.cookie
           /\ p.role = "operator" => p.held = "legacy_operator"
           /\ p.role = "readonly" => p.held = "readonly"
           /\ p.role \in {"agent", "enrollment"} => p.held = "none"
  <1>1. CASE Browser(c, q, p)
    BY <1>1 DEF Browser, Principal
  <1>2. CASE q.cookie = "none" /\ Proxy(c, q, p)
    BY <1>2 DEF Proxy, Principal
  <1>3. CASE q.cookie = "none" /\ Token(c, p)
    BY <1>3 DEF Token, Principal, OperatorPrincipal
  <1>4. QED
    BY <1>1, <1>2, <1>3 DEF Identified, Development

(* A connection that carries a request is in one of the stages. *)
LEMMA Stages ==
    ASSUME AuthInv, conn.pc # "idle"
    PROVE  /\ config \in Configs
           /\ conn \in Connections /\ conn.request \in Requests /\ conn.principal \in Principals
           /\ conn.request.route \in Routes
           /\ TurnedAway \/ Forbidden \/ LetIn \/ Handled
  <1>1. config \in Configs /\ conn \in Connections /\ (TurnedAway \/ Forbidden \/ LetIn \/ Handled)
    BY DEF AuthInv, NoRequest
  <1>2. conn.request \in Requests /\ conn.principal \in Principals
    BY <1>1 DEF Connections
  <1>3. conn.request.route \in Routes
    BY <1>2, RequestsAssumption
  <1>4. QED
    BY <1>1, <1>2, <1>3

(* Whoever was served passed the middleware and the handler's checks. *)
LEMMA ServedStage ==
    ASSUME AuthInv, Served
    PROVE  Handled /\ conn.pc # "idle"
  <1>1. conn.pc = "answered" /\ conn.status = 200
    BY DEF Served
  <1>2. QED
    BY <1>1, Stages DEF TurnedAway, Forbidden, LetIn

LEMMA TypesFollow == AuthInv => AuthTypeOK
  <1> SUFFICES ASSUME AuthInv PROVE AuthTypeOK
    OBVIOUS
  <1>1. ASSUME conn # NoRequest
        PROVE  /\ conn.pc \in {"handler", "answered"}
               /\ conn.pc = "answered" => conn.status \in {200, 401, 403, 410, 503}
    BY <1>1 DEF AuthInv, TurnedAway, Forbidden, LetIn, Handled
  <1>2. QED
    BY <1>1 DEF AuthInv, AuthTypeOK

(* Among configured mechanisms only agents pass to an agents' route. *)
LEMMA AgentsOnly ==
    ASSUME NEW c \in Configs, NEW q \in Requests, NEW p, Identified(c, q, p), c.tokens # {},
           q.route \in Routes, Policy(q.route) = "agent", _authorize(p, q.route)
    PROVE  p.role = "agent"
  <1>1. _is_agent_path(q.route) /\ ~_is_readonly_path(q.route)
    BY AgentRoutes DEF _is_agent_path, _is_readonly_path
  <1>2. QED
    BY <1>1, AgentRoutes, RolesFit DEF _authorize

(* Why an agent is forbidden an agents' route. *)
LEMMA AgentForbidden ==
    ASSUME NEW c \in Configs, NEW q \in Requests, NEW p, Identified(c, q, p), c.tokens # {},
           q.route \in Routes, Policy(q.route) = "agent", p.role = "agent",
           ~_authorize(p, q.route) \/ ~MayHandle(p, q)
    PROVE  \/ p.method = "device_credential" /\ q.target # "own"
           \/ p.method = "agent_token" /\ q.target # "legacy"
           \/ p.method = "device_credential" /\ Path(q.route) = <<"api", "endpoints", "enroll">>
  <1>1. p.method \in {"device_credential", "agent_token"}
    BY RolesFit
  <1>2. CASE ~_authorize(p, q.route)
    <2>1. _is_existing_agent_path(q.route)
      BY AgentRoutes
    <2>2. p.method = "device_credential" /\ Path(q.route) = <<"api", "endpoints", "enroll">>
      BY <1>1, <1>2, <2>1 DEF _authorize
    <2>3. QED
      BY <2>2
  <1>3. CASE ~MayHandle(p, q)
    <2>1. ~MayReport(p, q.target)
      BY <1>3 DEF MayHandle
    <2>2. QED
      BY <1>1, <2>1 DEF MayReport
  <1>4. QED
    BY <1>2, <1>3

LEMMA ClassifiedFollows == AuthInv => ServedAsClassified
  <1> SUFFICES ASSUME AuthInv, conn.pc # "idle", authentication_configured(config)
               PROVE  LET p == conn.principal
                          q == conn.request
                          policy == Policy(q.route)
                      IN  /\ policy = "agent" /\ Served => p.role = "agent"
                          /\ policy = "agent" /\ Served /\ q.target # "legacy" =>
                                 p.method = "device_credential" /\ q.target = "own"
                          /\ policy = "agent" /\ p.role = "agent" /\ conn.status = 403 =>
                                 \/ p.method = "device_credential" /\ q.target # "own"
                                 \/ p.method = "agent_token" /\ q.target # "legacy"
                                 \/ p.method = "device_credential"
                                    /\ Path(q.route) = <<"api", "endpoints", "enroll">>
                          /\ policy \notin {"agent", "device", "enrollment", "self"} /\ Served =>
                                 p.role \in {"human", "operator", "readonly"}
    BY Zenon DEF ServedAsClassified
  <1> DEFINE p == conn.principal
             q == conn.request
             policy == Policy(q.route)
  <1>0. /\ config \in Configs /\ q \in Requests /\ p \in Principals /\ q.route \in Routes
        /\ config.tokens # {}
    BY Stages DEF authentication_configured
  <1>1. ASSUME policy = "agent", Served
        PROVE  p.role = "agent"
    <2>1. Identified(config, q, p) /\ _authorize(p, q.route)
      BY <1>1, ServedStage DEF Handled
    <2>2. QED
      BY <1>0, <1>1, <2>1, AgentsOnly
  <1>2. ASSUME policy = "agent", Served, q.target # "legacy"
        PROVE  p.method = "device_credential" /\ q.target = "own"
    <2>1. MayHandle(p, q)
      BY <1>2, ServedStage DEF Handled
    <2>2. MayReport(p, q.target)
      BY <1>2, <2>1 DEF MayHandle
    <2>3. QED
      BY <1>2, <2>2 DEF MayReport
  <1>3. ASSUME policy = "agent", p.role = "agent", conn.status = 403
        PROVE  \/ p.method = "device_credential" /\ q.target # "own"
               \/ p.method = "agent_token" /\ q.target # "legacy"
               \/ p.method = "device_credential" /\ Path(q.route) = <<"api", "endpoints", "enroll">>
    <2>1. p # Nobody
      BY <1>3 DEF Nobody, Principal
    <2>2. Forbidden
      BY <1>3, <2>1, Stages DEF TurnedAway, LetIn, Handled
    <2>3. Identified(config, q, p) /\ (~_authorize(p, q.route) \/ ~MayHandle(p, q))
      BY <2>2 DEF Forbidden
    <2>4. QED
      BY <1>0, <1>3, <2>3, AgentForbidden
  <1>4. ASSUME policy \notin {"agent", "device", "enrollment", "self"}, Served
        PROVE  p.role \in {"human", "operator", "readonly"}
    <2>1. Identified(config, q, p) /\ MayHandle(p, q)
      BY <1>4, ServedStage DEF Handled
    <2>2. CASE policy = "self_session"
      <3>1. p.method = "oidc_session"
        BY <2>1, <2>2 DEF MayHandle
      <3>2. QED
        BY <1>0, <2>1, <3>1, RolesFit
    <2>3. CASE policy # "self_session"
      <3>1. p.role \notin {"agent", "enrollment"}
        BY <1>0, <1>4, <2>1, <2>3, PermissionAsked
      <3>2. QED
        BY <1>0, <2>1, <3>1, RolesFit
    <2>4. QED
      BY <2>2, <2>3
  <1>5. QED
    BY <1>1, <1>2, <1>3, <1>4

LEMMA MechanismsFollow == AuthInv => OnlyConfiguredMechanisms
  <1> SUFFICES ASSUME AuthInv, Served PROVE OnlyConfiguredMechanisms
    BY DEF OnlyConfiguredMechanisms
  <1> DEFINE p == conn.principal
             q == conn.request
             c == config
  <1>1. Identified(c, q, p)
    BY ServedStage DEF Handled
  <1>2. CASE Development(c, p)
    BY <1>2 DEF Development, OnlyConfiguredMechanisms, Principal
  <1>3. CASE Browser(c, q, p)
    BY <1>3 DEF Browser, OnlyConfiguredMechanisms, Principal
  <1>4. CASE Proxy(c, q, p)
    BY <1>4 DEF Proxy, OnlyConfiguredMechanisms, Principal
  <1>5. CASE Token(c, p)
    BY <1>5 DEF Token, OnlyConfiguredMechanisms, Principal, OperatorPrincipal
  <1>6. QED
    BY <1>1, <1>2, <1>3, <1>4, <1>5 DEF Identified

(* Which permissions the shared identities lack. *)
LEMMA NotShared ==
    /\ PermissionsHeld["viewer"] = READONLY_PERMISSIONS
    /\ PermissionsHeld["readonly"] = READONLY_PERMISSIONS
    /\ PermissionsHeld["none"] = {}
    /\ PermissionsHeld["legacy_operator"] = LEGACY_OPERATOR_PERMISSIONS
    /\ "identity.manage" \notin READONLY_PERMISSIONS \cup LEGACY_OPERATOR_PERMISSIONS
    /\ "installer_artifact.download" \notin READONLY_PERMISSIONS
  <1>1. /\ PermissionsHeld["viewer"] = READONLY_PERMISSIONS
        /\ PermissionsHeld["readonly"] = READONLY_PERMISSIONS
        /\ PermissionsHeld["none"] = {}
        /\ PermissionsHeld["legacy_operator"] = LEGACY_OPERATOR_PERMISSIONS
    BY DEF PermissionsHeld, RolePermissions
  <1>2. /\ "identity.manage" \notin READONLY_PERMISSIONS
        /\ "installer_artifact.download" \notin READONLY_PERMISSIONS
    BY DEF READONLY_PERMISSIONS, FleetReads
  <1>3. "identity.manage" \notin LEGACY_OPERATOR_PERMISSIONS
    BY <1>2 DEF LEGACY_OPERATOR_PERMISSIONS, FleetChanges
  <1>4. QED
    BY <1>1, <1>2, <1>3

LEMMA ReadersFollow == AuthInv => ReadersChangeNothing
  <1> SUFFICES ASSUME AuthInv, Served, authentication_configured(config),
                      conn.principal.role = "readonly" \/ conn.request.cookie = "viewer"
               PROVE  Safe(conn.request.route) \/ Policy(conn.request.route) = "self_session"
    BY DEF ReadersChangeNothing
  <1> DEFINE p == conn.principal
             q == conn.request
             policy == Policy(q.route)
  <1>0. /\ config \in Configs /\ q \in Requests /\ p \in Principals /\ q.route \in Routes
        /\ config.tokens # {}
    BY ServedStage, Stages DEF authentication_configured
  <1>1. Identified(config, q, p) /\ _authorize(p, q.route) /\ MayHandle(p, q)
    BY ServedStage DEF Handled
  <1>2. CASE p.role = "readonly"
    <2>1. _is_readonly_path(q.route)
      BY <1>0, <1>1, <1>2, RolesFit DEF _authorize
    <2>2. QED
      BY <2>1 DEF _is_readonly_path
  <1>3. CASE q.cookie = "viewer"
    <2>1. p.role = "human" /\ p.held = "viewer" /\ p.method = "oidc_session"
      BY <1>0, <1>1, <1>3, RolesFit
    <2>2. policy # "agent"
      BY <1>0, <1>1, <2>1, AgentsOnly
    <2>3. policy \notin {"device", "enrollment"}
      BY <1>1, <2>1 DEF MayHandle
    <2>4. CASE policy = "self"
      BY <1>0, <2>4, SelfRoutes
    <2>5. CASE policy \notin {"self", "self_session"}
      <3>1. policy \in PermissionsHeld[p.held]
        BY <1>0, <1>1, <2>2, <2>3, <2>5, PermissionAsked
      <3>2. policy \in READONLY_PERMISSIONS
        BY <2>1, <3>1, NotShared
      <3>3. QED
        BY <1>0, <3>2, ReaderRoutes
    <2>6. QED
      BY <2>4, <2>5
  <1>4. QED
    BY <1>2, <1>3

LEMMA PersonsFollow == AuthInv => IdentitiesManagedByPersons
  <1> SUFFICES ASSUME AuthInv, Served, authentication_configured(config),
                      Policy(conn.request.route) = "identity.manage"
               PROVE  conn.principal.method = "oidc_session"
    BY DEF IdentitiesManagedByPersons
  <1> DEFINE p == conn.principal
             q == conn.request
  <1>0. /\ config \in Configs /\ q \in Requests /\ p \in Principals /\ config.tokens # {}
    BY ServedStage, Stages DEF authentication_configured
  <1>1. Identified(config, q, p) /\ MayHandle(p, q)
    BY ServedStage DEF Handled
  <1>2. "identity.manage" \in PermissionsHeld[p.held]
    BY <1>0, <1>1, PermissionAsked
  <1>3. p.held \notin {"none", "readonly", "legacy_operator"}
    BY <1>2, NotShared
  <1>4. QED
    BY <1>0, <1>1, <1>3, RolesFit

(* Whoever is served is who the route, the deployment and the permissions  *)
(* call for, in every deployment and for every request that can arrive.    *)
THEOREM ServedWithinAuthorityAlways == AuthSpec => []ServedWithinAuthority
  <1>1. AuthInv => ServedWithinAuthority
    BY TypesFollow, ClassifiedFollows, MechanismsFollow, ReadersFollow, PersonsFollow
    DEF ServedWithinAuthority
  <1>2. QED
    BY AuthInvHolds, <1>1, PTL

(* Once a request carries a session cookie, nothing else that it carries   *)
(* gives it a principal.                                                   *)
THEOREM CookieDecidesAlways == AuthSpec => []CookieDecides
  <1>1. AuthInv => CookieDecides
    <2> SUFFICES ASSUME AuthInv, conn.pc # "idle", authentication_configured(config),
                        conn.request.cookie # "none", conn.principal # Nobody
                 PROVE  /\ conn.principal.method = "oidc_session"
                        /\ "key" \in config.browser
                        /\ \/ Safe(conn.request.route)
                           \/ conn.request.csrf /\ "origin" \in config.browser
      BY DEF CookieDecides
    <2>1. Identified(config, conn.request, conn.principal)
      BY Stages DEF TurnedAway, Forbidden, LetIn, Handled
    <2>2. Browser(config, conn.request, conn.principal)
      BY <2>1 DEF Identified, Development, authentication_configured
    <2>3. QED
      BY <2>2 DEF Browser, _browser_csrf_valid, Principal
  <1>2. QED
    BY AuthInvHolds, <1>1, PTL
-----------------------------------------------------------------------------
(* The legacy reporter's artifact *)

(* Only an operator or an admin may download one, and both come from a     *)
(* mechanism for operators, or from a session older than the deployment.   *)
LEMMA DownloadersAreOperators ==
    ASSUME NEW c \in Configs, NEW q \in Requests, NEW p, Identified(c, q, p), c.tokens # {},
           "installer_artifact.download" \in PermissionsHeld[p.held],
           p.method = "oidc_session" => "oidc" \in c.tokens
    PROVE  OperatorAuth(c)
  <1>1. p.held \notin {"none", "readonly"}
    BY NotShared
  <1>2. CASE Browser(c, q, p)
    BY <1>2 DEF Browser, Principal, OperatorAuth
  <1>3. CASE Proxy(c, q, p)
    BY <1>3 DEF Proxy, OperatorAuth
  <1>4. CASE Token(c, p)
    BY <1>1, <1>4 DEF Token, Principal, OperatorAuth
  <1>5. QED
    BY <1>2, <1>3, <1>4 DEF Identified, Development

(* An answer to a request in its handler comes from the handler. *)
LEMMA AnswersComeFromHandlers ==
    ASSUME AuthInv, [AuthNext]_authVars, conn.pc = "handler", conn'.status = 200
    PROVE  Handle
  <1>1. conn.status = 0
    BY Stages DEF TurnedAway, Forbidden, LetIn, Handled
  <1>2. \A q : ~Arrive(q)
    BY DEF Arrive, NoRequest
  <1>3. ~Close
    BY DEF Close
  <1>4. AuthTick \/ EndSession \/ RevokeDevice \/ UNCHANGED authVars => conn' = conn
    BY DEF AuthTick, EndSession, RevokeDevice, authVars
  <1>5. QED
    BY <1>1, <1>2, <1>3, <1>4 DEF AuthNext

(* The shared token in an artifact that is handed out is one that the      *)
(* middleware accepts at that moment.                                      *)
THEOREM ArtifactCanReportAlways == AuthSpec => ArtifactCanReport
  <1>1. AuthInv /\ [AuthNext]_authVars =>
            [LegacyArtifactServed /\ ~LeftoverSession =>
               TokenAnswer(config, [conn.request EXCEPT !.token = "agent"]).status = 0]_authVars
    <2> SUFFICES ASSUME AuthInv, [AuthNext]_authVars, conn.pc = "handler", conn'.status = 200,
                        Policy(conn.request.route) = "installer_artifact.download",
                        conn.request.target = "legacy_reporter",
                        authentication_configured(config),
                        conn.principal.method = "oidc_session" => "oidc" \in config.tokens
                 PROVE  TokenAnswer(config, [conn.request EXCEPT !.token = "agent"]).status = 0
      BY DEF LegacyArtifactServed, LeftoverSession
    <2> DEFINE p == conn.principal
               q == conn.request
               asked == [conn.request EXCEPT !.token = "agent"]
    <2>1. Handle
      BY AnswersComeFromHandlers
    <2>2. /\ config \in Configs /\ q \in Requests /\ p \in Principals /\ config.tokens # {}
      BY Stages DEF authentication_configured
    <2>3. LetIn /\ MayHandle(p, q) /\ conn'.status = get_installer_artifact(config, q.target)
      BY <2>1, HandleAnswers
    <2>4. "installer_artifact.download" \in PermissionsHeld[p.held]
      BY <2>2, <2>3, PermissionAsked
    <2>5. OperatorAuth(config)
      BY <2>2, <2>3, <2>4, DownloadersAreOperators DEF LetIn
    <2>6. config.mode = "protected"
      BY <2>2, RequestAuthAssumption
    <2>7. get_installer_artifact(config, "legacy_reporter") = 200
      BY <2>3
    <2>8. allows(config, now) /\ "agent" \in config.tokens
      BY <2>5, <2>6, <2>7 DEF get_installer_artifact
    <2>9. asked.token = "agent"
      BY <2>2, RequestsAssumption
    <2> HIDE DEF asked
    <2>10. TokenAnswer(config, asked) = Known(Principal("agent", "agent_token", "none"))
      BY <2>8, <2>9 DEF TokenAnswer
    <2>11. QED
      BY <2>10 DEF Known, asked
  <1>2. QED
    BY AuthInvHolds, <1>1, PTL DEF AuthSpec, ArtifactCanReport
=============================================================================
