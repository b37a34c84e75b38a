------------------------------- MODULE AuthCache -------------------------------
(***************************************************************************)
(* The cached authorisation of the JWT middlewares                         *)
(* (internal/middleware/auth.go) and the user administration that changes  *)
(* what they cache (internal/handler/user_management.go).                  *)
(*                                                                         *)
(* A request asks two facts of its user, in order: whether the account is  *)
(* active and which roles it is granted.  Each is looked up in Valkey      *)
(* first; on a miss it is read from PostgreSQL and written to Valkey with  *)
(* a lifetime of TTL.  The three reads and writes are separate calls, and  *)
(* an administrator's change comes between any two of them.  An            *)
(* administrator's change is written to PostgreSQL first and the cached    *)
(* copy is deleted after; an error of that deletion is ignored.            *)
(*                                                                         *)
(* A fact is a set: {} or {"active"} for the account, the granted roles    *)
(* for its roles.  Span bounds the time a request takes from its read to   *)
(* its write; the code states no such bound, and every result here is      *)
(* relative to it.                                                         *)
(***************************************************************************)
EXTENDS Integers, FiniteSets

CONSTANTS
  Users,      \* accounts
  Grants,     \* roles with their scope
  Requests,   \* API requests with a valid token
  Admins,     \* requests of an administrator
  TTL,        \* lifetime of a cached fact (5 minutes)
  Span,       \* longest time between a request's read and its write
  MaxTime,    \* bound: the clock stops here
  MaxWrites,  \* bound: changes of the tables
  None

\* Of the constants; MCAccess assumes it of its own.
LifetimeAssumption == TTL \in Nat \ {0} /\ Span \in Nat

VARIABLES
  now,      \* the clock
  table,    \* PostgreSQL: the fact of every subject
  cache,    \* Valkey: the cached fact of a subject with its expiry, or None
  req,      \* the requests inside the middleware
  admin,    \* the subject an administrator has still to invalidate, or None
  past,     \* history: the facts that were replaced, and when
  told      \* history: the facts each request was told

vars == <<now, table, cache, req, admin, past, told>>

Kinds == {"active", "grants"}
Subjects == Users \X Kinds
Facts == SUBSET (Grants \cup {"active"})
Active == {"active"}
Inactive == {}

Entries == [fact : Facts, until : Nat]
Steps == {"idle", "lookup", "read", "fill"}
Progress == [pc : Steps, user : {None} \cup Users, kind : Kinds,
             fact : {None} \cup Facts, readAt : Nat]
At(pc, u, k) == [pc |-> pc, user |-> u, kind |-> k, fact |-> None, readAt |-> 0]
Idle == At("idle", None, "active")

TypeOK ==
  /\ now \in Nat
  /\ table \in [Subjects -> Facts]
  /\ cache \in [Subjects -> {None} \cup Entries]
  /\ req \in [Requests -> Progress]
  /\ \A r \in Requests : req[r].pc # "idle" => req[r].user \in Users
  /\ \A r \in Requests : req[r].pc = "fill" => req[r].fact \in Facts
  /\ admin \in [Admins -> {None} \cup Subjects]
  /\ past \in SUBSET [subject : Subjects, fact : Facts, at : Nat]
  /\ told \in [Requests -> [Subjects -> {None} \cup Facts]]

Nothing == [s \in Subjects |-> None]

Init ==
  /\ now = 0
  /\ table \in [Subjects -> Facts]
  /\ \A u \in Users : table[<<u, "active">>] = Active /\ table[<<u, "grants">>] \in SUBSET Grants
  /\ cache = Nothing
  /\ req = [r \in Requests |-> Idle]
  /\ admin = [a \in Admins |-> None]
  /\ past = {}
  /\ told = [r \in Requests |-> Nothing]

Subject(r) == <<req[r].user, req[r].kind>>

-------------------------------------------------------------------------------
(* The middleware. *)

\* A token that parses; one that does not is refused before any state is read.
JWTAuth(r, u) ==
  /\ req[r].pc = "idle"
  /\ req' = [req EXCEPT ![r] = At("lookup", u, "active")]
  /\ told' = [told EXCEPT ![r] = Nothing]
  /\ UNCHANGED <<now, table, cache, admin, past>>

\* The same with the token in the query, and where no live session goes first.
JWTQueryAuth(r, u) == JWTAuth(r, u)
SessionOrJWTQueryAuth(r, u) == JWTAuth(r, u)

\* The request uses the fact: an inactive account is refused, an active one
\* goes on to its roles, and with its roles the request reaches its handler.
Use(r, fact) ==
  /\ told' = [told EXCEPT ![r][Subject(r)] = fact]
  /\ req' = [req EXCEPT ![r] =
       IF req[r].kind = "active" /\ fact # Inactive
       THEN At("lookup", req[r].user, "grants")
       ELSE Idle]

Hit(r) ==
  /\ req[r].pc = "lookup"
  /\ cache[Subject(r)] # None
  /\ Use(r, cache[Subject(r)].fact)
  /\ UNCHANGED <<now, table, cache, admin, past>>

\* Also when Valkey answers with an error, which the middleware ignores.
Miss(r) ==
  /\ req[r].pc = "lookup"
  /\ req' = [req EXCEPT ![r].pc = "read"]
  /\ UNCHANGED <<now, table, cache, admin, past, told>>

GetUser(u) == table[<<u, "active">>]
GetActiveRolesForUser(u) == table[<<u, "grants">>]
Lookup(r) == IF req[r].kind = "active" THEN GetUser(req[r].user) ELSE GetActiveRolesForUser(req[r].user)

ReadTable(r) ==
  /\ req[r].pc = "read"
  /\ req' = [req EXCEPT ![r].pc = "fill", ![r].fact = Lookup(r), ![r].readAt = now]
  /\ UNCHANGED <<now, table, cache, admin, past, told>>

\* The error of a query ends the request: 401 for the account, 500 for roles.
ReadFails(r) ==
  /\ req[r].pc = "read"
  /\ req' = [req EXCEPT ![r] = Idle]
  /\ UNCHANGED <<now, table, cache, admin, past, told>>

\* Slip: the lifetime of a copy is five times as long.
SetEntryLong(s, fact) == cache' = [cache EXCEPT ![s] = [fact |-> fact, until |-> now + 5 * TTL]]

SetEntry(s, fact) == cache' = [cache EXCEPT ![s] = [fact |-> fact, until |-> now + TTL]]

\* The error of the write to Valkey is ignored.
Fill(r) ==
  /\ req[r].pc = "fill"
  /\ SetEntry(Subject(r), req[r].fact) \/ UNCHANGED cache
  /\ Use(r, req[r].fact)
  /\ UNCHANGED <<now, table, admin, past>>

-------------------------------------------------------------------------------
(* User administration: the table first, then the cached copy. *)

Write(a, s, fact) ==
  /\ admin[a] = None
  /\ Cardinality(past) < MaxWrites
  /\ table' = [table EXCEPT ![s] = fact]
  /\ past' = past \cup {[subject |-> s, fact |-> table[s], at |-> now]}
  /\ admin' = [admin EXCEPT ![a] = s]
  /\ UNCHANGED <<now, cache, req, told>>

SetUserActive(a, u) == \E f \in {Active, Inactive} : Write(a, <<u, "active">>, f)
DeactivateUser(a, u) == Write(a, <<u, "active">>, Inactive)
GrantRole(a, u, g) == Write(a, <<u, "grants">>, table[<<u, "grants">>] \cup {g})
RevokeRole(a, u, g) == Write(a, <<u, "grants">>, table[<<u, "grants">>] \ {g})

DeleteCached(a) ==
  /\ admin[a] # None
  /\ cache' = [cache EXCEPT ![admin[a]] = None]
  /\ admin' = [admin EXCEPT ![a] = None]
  /\ UNCHANGED <<now, table, req, past, told>>

\* The deletion fails and its error is dropped, or the process dies before it.
DeleteLost(a) ==
  /\ admin[a] # None
  /\ admin' = [admin EXCEPT ![a] = None]
  /\ UNCHANGED <<now, table, cache, req, past, told>>

-------------------------------------------------------------------------------
(* Valkey and the clock. *)

Evict(s) ==
  /\ cache[s] # None
  /\ cache' = [cache EXCEPT ![s] = None]
  /\ UNCHANGED <<now, table, req, admin, past, told>>

Unexpired(e) == e # None /\ now + 1 < e.until

Tick ==
  /\ now < MaxTime
  /\ \A r \in Requests : req[r].pc = "fill" => now < req[r].readAt + Span
  /\ now' = now + 1
  /\ cache' = [s \in Subjects |-> IF Unexpired(cache[s]) THEN cache[s] ELSE None]
  /\ UNCHANGED <<table, req, admin, past, told>>

Middleware(r) == Hit(r) \/ Miss(r) \/ ReadTable(r) \/ ReadFails(r) \/ Fill(r)

Administer(a) ==
  \/ \E u \in Users : SetUserActive(a, u) \/ DeactivateUser(a, u)
  \/ \E u \in Users, g \in Grants : GrantRole(a, u, g) \/ RevokeRole(a, u, g)
  \/ DeleteCached(a)
  \/ DeleteLost(a)

Enter(r, u) == JWTAuth(r, u) \/ JWTQueryAuth(r, u) \/ SessionOrJWTQueryAuth(r, u)

Next ==
  \/ \E r \in Requests, u \in Users : Enter(r, u)
  \/ \E r \in Requests : Middleware(r)
  \/ \E a \in Admins : Administer(a)
  \/ \E s \in Subjects : Evict(s)
  \/ Tick

Spec == Init /\ [][Next]_vars

-------------------------------------------------------------------------------
(* What the middleware owes a request. *)

Answers ==
  INSTANCE BoundedStaleness WITH Readers <- Requests, Untold <- None, Delay <- TTL + Span

\* A request is told a fact that holds, or one an administrator replaced less
\* than a cached copy's lifetime and one fill ago: however reads, writes to
\* the cache, deletions and lost deletions interleave (auth.go, JWTAuth).
AnswersAreFresh == Answers!Spec

Promise ==
  INSTANCE BoundedStaleness WITH Readers <- Requests, Untold <- None, Delay <- TTL

\* SKILL.md says that a revocation takes effect within the lifetime of a
\* cached copy.  A request that read before the revocation and fills the cache
\* after the deletion starts a new lifetime for the revoked grant.
RevocationWithinLifetime == Promise!Spec
===============================================================================
