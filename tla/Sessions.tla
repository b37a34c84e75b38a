------------------------------- MODULE Sessions -------------------------------
(***************************************************************************)
(* Logging in and out of the dashboard and the API (internal/service/      *)
(* auth.go, internal/handler/dashboard.go and user.go, the session         *)
(* middleware of internal/middleware/session.go), the change and the reset *)
(* of passwords, and the administration of accounts and roles.             *)
(*                                                                         *)
(* A dashboard session is a copy in Valkey of what the database said at    *)
(* the login: the roles and whether the password must be changed.  It is   *)
(* not looked up again; it ends when it expires.  A refresh token stands   *)
(* for a user and is exchanged for a new one at each use.  Every handler   *)
(* is a job of a few calls to PostgreSQL and Valkey, and the calls of      *)
(* different jobs interleave.                                              *)
(*                                                                         *)
(* A hash stands for its password.  A password is temporary when an        *)
(* administrator set it, at the creation or a reset of the account.  Span  *)
(* bounds the time between the read of an account and the save of its      *)
(* session.  Valkey may forget a key at any time; a refresh token's        *)
(* lifetime of 30 days is such a loss.                                     *)
(***************************************************************************)
EXTENDS Integers, FiniteSets

CONSTANTS
  Users,      \* accounts
  Grants,     \* roles with their scope
  Jobs,       \* requests that log in, refresh, change or reset a password
  Readers,    \* requests for a page
  Ids,        \* random session ids
  Tokens,     \* random refresh tokens
  Temporary,  \* passwords an administrator sets
  Chosen,     \* passwords a user chooses
  TTL,        \* lifetime of a session (8 hours)
  Span,       \* longest time between a login's read and its save
  MaxTime,    \* bound: the clock stops here
  MaxWrites,  \* bound: changes of roles and of account status
  None

\* Of the constants; MCAccess assumes it of theirs.
SessionAssumption == TTL \in Nat \ {0} /\ Span \in Nat

VARIABLES
  now,        \* the clock
  table,      \* PostgreSQL: whether an account is active, and its roles
  account,    \* PostgreSQL: an account's password and force_password_change
  sessions,   \* Valkey: sess:<id>
  tokens,     \* Valkey: jwt:refresh:<token>, the user it stands for
  job,        \* the requests being served
  used,       \* history: ids, tokens and temporary passwords that were drawn
  chain,      \* history: the token of the login that each token goes back to
  kept,       \* history: exchanged tokens whose deletion failed or found nothing
  excused,    \* history: accounts whose force_password_change was lost
  past,       \* history: the facts that were replaced, and when
  told        \* history: the facts the pages were served by

credentials == <<account, used, excused>>
refreshes == <<tokens, chain, kept>>
stores == <<sessions, refreshes>>
facts == <<table, past>>
vars == <<now, facts, credentials, stores, job, told>>

Kinds == {"active", "grants"}
Subjects == Users \X Kinds
Facts == SUBSET (Grants \cup {"active"})
Active == {"active"}
Inactive == {}
Passwords == Temporary \cup Chosen

SessionData == [user : Users, grants : SUBSET Grants, force : BOOLEAN, until : Nat]
Steps == {"idle", "roles", "save", "token", "exchange", "compare", "update", "resave", "flag"}
Progress == [at : Steps, user : {None} \cup Users, key : {None} \cup Ids \cup Tokens,
             copy : {None} \cup SessionData, word : {None} \cup Passwords,
             dashboard : BOOLEAN, readAt : Nat]
Idle == [at |-> "idle", user |-> None, key |-> None, copy |-> None, word |-> None,
         dashboard |-> FALSE, readAt |-> 0]
Rows == [password : Passwords, force : BOOLEAN]

TypeOK ==
  /\ now \in Nat
  /\ table \in [Subjects -> Facts]
  /\ \A u \in Users : table[<<u, "grants">>] \in SUBSET Grants
  /\ account \in [Users -> Rows]
  /\ sessions \in [Ids -> {None} \cup SessionData]
  /\ tokens \in [Tokens -> {None} \cup Users]
  /\ chain \in [Tokens -> {None} \cup Tokens]
  /\ kept \in SUBSET Tokens
  /\ job \in [Jobs -> Progress]
  /\ \A p \in Jobs : job[p].at # "idle" => job[p].user \in Users
  /\ \A p \in Jobs : job[p].at \in {"roles", "save", "resave"} => job[p].copy \in SessionData
  /\ \A p \in Jobs : job[p].at = "update" => job[p].word \in Passwords
  /\ \A p \in Jobs : /\ job[p].at = "roles" => job[p].key = None
                     /\ job[p].at = "token" => job[p].key \in {None} \cup Tokens
                     /\ job[p].at = "exchange" => job[p].key \in Tokens
  /\ used \in SUBSET (Ids \cup Tokens \cup Temporary)
  /\ excused \in SUBSET Users
  /\ past \in SUBSET [subject : Subjects, fact : Facts, at : Nat]
  /\ told \in [Readers -> [Subjects -> {None} \cup Facts]]

Nothing == [s \in Subjects |-> None]

\* CreateUser: the password is the administrator's and must be changed.
Init ==
  /\ now = 0
  /\ table \in [Subjects -> Facts]
  /\ \A u \in Users : table[<<u, "active">>] = Active /\ table[<<u, "grants">>] \in SUBSET Grants
  /\ account \in [Users -> [password : Temporary, force : {TRUE}]]
  /\ sessions = [s \in Ids |-> None]
  /\ tokens = [t \in Tokens |-> None]
  /\ chain = tokens
  /\ kept = {}
  /\ job = [p \in Jobs |-> Idle]
  /\ used = {account[u].password : u \in Users}
  /\ excused = {}
  /\ past = {}
  /\ told = [r \in Readers |-> Nothing]

Live(s) == sessions[s] # None
Step(p, next) == job' = [job EXCEPT ![p] = next]

\* An error of PostgreSQL or Valkey ends the request, and so does a password
\* that does not match.
Fail(p) ==
  /\ job[p].at \notin {"idle", "exchange", "flag"}
  /\ Step(p, Idle)
  /\ UNCHANGED <<now, facts, credentials, stores, told>>

-------------------------------------------------------------------------------
(* Logging in. *)

\* authenticateUser: the account is active and the password matches its hash.
AuthenticateUser(p, u, dash) ==
  /\ job[p].at = "idle"
  /\ table[<<u, "active">>] = Active
  /\ Step(p, [Idle EXCEPT !.at = "roles", !.user = u, !.word = account[u].password,
                !.dashboard = dash, !.readAt = now,
                !.copy = [user |-> u, grants |-> {}, force |-> account[u].force, until |-> 0]])
  /\ UNCHANGED <<now, facts, credentials, stores, told>>

GetActiveRolesForUser(p) ==
  /\ job[p].at = "roles"
  /\ Step(p, [job[p] EXCEPT !.at = IF job[p].dashboard THEN "save" ELSE "token",
                !.copy.grants = table[<<job[p].user, "grants">>]])
  /\ UNCHANGED <<now, facts, credentials, stores, told>>

LoginDashboard(p, s) ==
  /\ job[p].at = "save"
  /\ s \notin used
  /\ sessions' = [sessions EXCEPT ![s] = [job[p].copy EXCEPT !.until = now + TTL]]
  /\ used' = used \cup {s}
  /\ Step(p, Idle)
  /\ UNCHANGED <<now, facts, account, excused, refreshes, told>>

\* Slip: the exchanged token is saved next to the new one, for a client that
\* repeats its request.
SaveBothTokens(p, t) ==
  tokens' = [k \in Tokens |-> IF k \in {t, job[p].key} THEN job[p].user ELSE tokens[k]]

SaveRefreshToken(p, t) == tokens' = [tokens EXCEPT ![t] = job[p].user]

\* The last step of Login and of Refresh.
IssueTokens(p, t) ==
  /\ job[p].at = "token"
  /\ t \notin used
  /\ SaveRefreshToken(p, t)
  /\ used' = used \cup {t}
  /\ chain' = [chain EXCEPT ![t] = IF job[p].key = None THEN t ELSE chain[job[p].key]]
  /\ Step(p, Idle)
  /\ UNCHANGED <<now, facts, account, excused, sessions, kept, told>>

\* Refresh asks the token's user; nothing is asked of the account's status.
GetRefreshToken(p, t) ==
  /\ job[p].at = "idle"
  /\ tokens[t] # None
  /\ Step(p, [Idle EXCEPT !.at = "exchange", !.user = tokens[t], !.key = t])
  /\ UNCHANGED <<now, facts, credentials, stores, told>>

\* The error of the deletion is ignored, and so is that another refresh or a
\* logout has deleted the token since it was read.
DeleteRefreshToken(p) ==
  /\ job[p].at = "exchange"
  /\ tokens' = [tokens EXCEPT ![job[p].key] = None] \/ UNCHANGED tokens
  /\ kept' = kept \cup (IF tokens' = tokens THEN {job[p].key} ELSE {})
  /\ Step(p, [job[p] EXCEPT !.at = "token"])
  /\ UNCHANGED <<now, facts, credentials, sessions, chain, told>>

-------------------------------------------------------------------------------
(* Using a session and logging out. *)

\* SessionPageAuth and RequirePasswordChange let the request through, and its
\* handler relies on a fact of the session.
OpenPage(r, s, k) ==
  /\ Live(s)
  /\ ~sessions[s].force
  /\ told' = [told EXCEPT ![r][<<sessions[s].user, k>>] =
                IF k = "active" THEN Active ELSE sessions[s].grants]
  /\ UNCHANGED <<now, facts, credentials, stores, job>>

\* An error of the deletion is ignored and leaves everything as it was.
LogoutDashboard(s) ==
  /\ Live(s)
  /\ sessions' = [sessions EXCEPT ![s] = None]
  /\ UNCHANGED <<now, facts, credentials, refreshes, job, told>>

\* The API's logout, an eviction, or the end of the token's lifetime.
DropToken(t) ==
  /\ tokens[t] # None
  /\ tokens' = [tokens EXCEPT ![t] = None]
  /\ UNCHANGED <<now, facts, credentials, sessions, chain, kept, job, told>>

-------------------------------------------------------------------------------
(* Changing and resetting a password. *)

\* The dashboard's form, under a session the middleware has loaded ...
SubmitPasswordForm(p, s) ==
  /\ job[p].at = "idle"
  /\ Live(s)
  /\ Step(p, [Idle EXCEPT !.at = "compare", !.user = sessions[s].user,
                !.key = s, !.copy = sessions[s], !.dashboard = TRUE])
  /\ UNCHANGED <<now, facts, credentials, stores, told>>

\* ... and the API's, under an access token of an active account.
PostPassword(p, u) ==
  /\ job[p].at = "idle"
  /\ Step(p, [Idle EXCEPT !.at = "compare", !.user = u])
  /\ UNCHANGED <<now, facts, credentials, stores, told>>

\* The current password was given; the new one may be any, also the same.
CompareHash(p, new) ==
  /\ job[p].at = "compare"
  /\ new \in Chosen \cup {account[job[p].user].password}
  /\ Step(p, [job[p] EXCEPT !.at = "update", !.word = new])
  /\ UNCHANGED <<now, facts, credentials, stores, told>>

UpdateUserPassword(u, word) ==
  account' = [account EXCEPT ![u] = [password |-> word, force |-> FALSE]]

ChangePassword(p) ==
  /\ job[p].at = "update"
  /\ UpdateUserPassword(job[p].user, job[p].word)
  /\ excused' = excused \cup (IF job[p].word \in Temporary THEN {job[p].user} ELSE {})
  /\ Step(p, IF job[p].dashboard THEN [job[p] EXCEPT !.at = "resave"] ELSE Idle)
  /\ UNCHANGED <<now, facts, used, stores, told>>

\* Slip: a saved session starts a new lifetime.
SaveSessionAnew(s, data) == [sessions EXCEPT ![s] = [data EXCEPT !.until = now + TTL]]

\* Slip: a session is saved without its expiry.
SaveSessionUndated(s, data) == [sessions EXCEPT ![s] = [data EXCEPT !.until = None]]

\* A session past its expiry is saved for a second, in which no reader takes it.
SaveSession(s, data) ==
  IF now < data.until THEN [sessions EXCEPT ![s] = data] ELSE sessions

ResaveSession(p) ==
  /\ job[p].at = "resave"
  /\ sessions' = SaveSession(job[p].key, [job[p].copy EXCEPT !.force = FALSE])
  /\ Step(p, Idle)
  /\ UNCHANGED <<now, facts, credentials, refreshes, told>>

\* The administrator's reset updates the password ...
ResetPassword(p, u, word) ==
  /\ job[p].at = "idle"
  /\ word \in Temporary \ used
  /\ UpdateUserPassword(u, word)
  /\ used' = used \cup {word}
  /\ excused' = excused \ {u}
  /\ Step(p, [Idle EXCEPT !.at = "flag", !.user = u])
  /\ UNCHANGED <<now, facts, stores, told>>

\* Slip: the flag is left as the update wrote it.
SetFlagAgain(u) == account' = [account EXCEPT ![u].force = @]

SetFlag(u) == account' = [account EXCEPT ![u].force = TRUE]

\* ... and sets the flag the update has cleared; an error is ignored.
SetForcePasswordChange(p) ==
  /\ job[p].at = "flag"
  /\ \/ SetFlag(job[p].user) /\ UNCHANGED excused
     \/ UNCHANGED account /\ excused' = excused \cup {job[p].user}
  /\ Step(p, Idle)
  /\ UNCHANGED <<now, facts, used, stores, told>>

-------------------------------------------------------------------------------
(* Administration of accounts and roles, Valkey and the clock. *)

Write(s, fact) ==
  /\ Cardinality(past) < MaxWrites
  /\ table' = [table EXCEPT ![s] = fact]
  /\ past' = past \cup {[subject |-> s, fact |-> table[s], at |-> now]}
  /\ UNCHANGED <<now, credentials, stores, job, told>>

SetUserActive(u) == \E f \in {Active, Inactive} : Write(<<u, "active">>, f)
GrantRole(u, g) == Write(<<u, "grants">>, table[<<u, "grants">>] \cup {g})
RevokeRole(u, g) == Write(<<u, "grants">>, table[<<u, "grants">>] \ {g})

Evict(s) ==
  /\ Live(s)
  /\ sessions' = [sessions EXCEPT ![s] = None]
  /\ UNCHANGED <<now, facts, credentials, refreshes, job, told>>

LoggingIn(p) == job[p].at \in {"roles", "save"}

Tick ==
  /\ now < MaxTime
  /\ \A p \in Jobs : LoggingIn(p) => now < job[p].readAt + Span
  /\ now' = now + 1
  /\ sessions' = [s \in Ids |->
       IF Live(s) /\ now + 1 < sessions[s].until THEN sessions[s] ELSE None]
  /\ UNCHANGED <<facts, credentials, refreshes, job, told>>

Login(p) ==
  \/ \E u \in Users, dash \in BOOLEAN : AuthenticateUser(p, u, dash)
  \/ GetActiveRolesForUser(p)
  \/ \E s \in Ids : LoginDashboard(p, s)
  \/ \E t \in Tokens : IssueTokens(p, t)

Refresh(p) == (\E t \in Tokens : GetRefreshToken(p, t)) \/ DeleteRefreshToken(p)

Passwording(p) ==
  \/ \E s \in Ids : SubmitPasswordForm(p, s)
  \/ \E u \in Users : PostPassword(p, u)
  \/ \E word \in Passwords : CompareHash(p, word)
  \/ ChangePassword(p)
  \/ ResaveSession(p)
  \/ \E u \in Users, word \in Temporary : ResetPassword(p, u, word)
  \/ SetForcePasswordChange(p)

Administer(u) == SetUserActive(u) \/ \E g \in Grants : GrantRole(u, g) \/ RevokeRole(u, g)

Next ==
  \/ \E p \in Jobs : Login(p) \/ Refresh(p) \/ Passwording(p) \/ Fail(p)
  \/ \E r \in Readers, s \in Ids, k \in Kinds : OpenPage(r, s, k)
  \/ \E s \in Ids : LogoutDashboard(s) \/ Evict(s)
  \/ \E t \in Tokens : DropToken(t)
  \/ \E u \in Users : Administer(u)
  \/ Tick

Spec == Init /\ [][Next]_vars

-------------------------------------------------------------------------------
(* What a login is worth. *)

Answers ==
  INSTANCE BoundedStaleness WITH Untold <- None, Delay <- TTL + Span

\* A page is served by roles and an account status that hold, or that an
\* administrator replaced less than a session's lifetime and one login ago,
\* however often the session was saved again (SaveSession keeps ExpiresAt).
SessionsAreFresh == Answers!Spec

Resetting(u) == \E p \in Jobs : job[p].at = "flag" /\ job[p].user = u

\* An account with a temporary password demands its change, unless a reset is
\* under way or its flag was lost to an error or to the same password entered
\* again: no order of resets, changes and logins loses it otherwise
\* (ResetPassword, ChangePassword).
TemporaryDemandsChange ==
  \A u \in Users : account[u].password \in Temporary =>
    account[u].force \/ Resetting(u) \/ u \in excused

\* A login stands on one refresh token at a time, however often it is exchanged
\* (AuthService.Refresh reads and deletes it in two calls): a second one works
\* only after a deletion failed, or came after another refresh's or a logout's.
OneTokenPerLogin ==
  \A s, t \in Tokens :
    /\ s # t /\ tokens[s] # None /\ tokens[t] # None
    /\ chain[s] = chain[t]
    => \E k \in kept : chain[k] = chain[t]
===============================================================================
