------------------------------ MODULE AccessProofs ------------------------------
(***************************************************************************)
(* Who may do what, proved for any users, grants, requests, lifetimes and  *)
(* networks.  AuthCache implements BoundedStaleness with the delay         *)
(* TTL + Span: the invariant relates every copy, the one a request has     *)
(* read and not written and the one in the cache, to the change that       *)
(* outdated it.  DashboardPages: a session is a list of grants, its best   *)
(* grant is one of them and has the scope of its role, so that whatever a  *)
(* list shows its page opens.  SessionsProofs has the logins.              *)
(***************************************************************************)
EXTENDS Access, SessionsProofs,
        FiniteSetTheorems, SequenceTheorems, WellFoundedInduction, TLAPS

-------------------------------------------------------------------------------
(* AuthCache.  A copy differs from the table only when a change came after    *)
(* it was read, and its expiry is bounded from the time it was read.          *)

\* The fact was replaced at time t or later.
ReplacedSince(s, f, t) == \E p \in replaced : p.subject = s /\ p.fact = f /\ t <= p.at

Copied(s, f, t) == f = base[s] \/ ReplacedSince(s, f, t)

ReadCopy(r) ==
  req[r].pc = "fill" =>
    /\ req[r].readAt <= clock /\ clock <= req[r].readAt + FillSpan
    /\ Copied(Cache!Subject(r), req[r].fact, req[r].readAt)

CachedCopy(s) ==
  cache[s] # None =>
    /\ clock < cache[s].until /\ cache[s].until <= clock + CacheTTL
    /\ Copied(s, cache[s].fact, cache[s].until - (CacheTTL + FillSpan))

CacheInv ==
  /\ Cache!TypeOK
  /\ \A r \in Requests : ReadCopy(r)
  /\ \A s \in Cache!Subjects : CachedCopy(s)

LEMMA CacheSubjects ==
  ASSUME NEW u \in Users
  PROVE  <<u, "active">> \in Cache!Subjects /\ <<u, "grants">> \in Cache!Subjects
BY DEF Cache!Subjects, Cache!Kinds

LEMMA SubjectOfRequest ==
  ASSUME Cache!TypeOK, NEW r \in Requests, req[r].pc # "idle"
  PROVE  Cache!Subject(r) \in Cache!Subjects
BY DEF Cache!TypeOK, Cache!Subject, Cache!Subjects, Cache!Progress

\* A request reads the row of its subject, whichever fact it asks.
LEMMA LookupReadsTable ==
  ASSUME Cache!TypeOK, NEW r \in Requests, req[r].pc # "idle"
  PROVE  Cache!Lookup(r) = base[Cache!Subject(r)]
BY DEF Cache!TypeOK, Cache!Progress, Cache!Kinds, Cache!Lookup, Cache!GetUser,
   Cache!GetActiveRolesForUser, Cache!Subject

LEMMA CacheInitTyped == Cache!Init => Cache!TypeOK
<1> SUFFICES ASSUME Cache!Init PROVE Cache!TypeOK
  OBVIOUS
<1>1. cache \in [Cache!Subjects -> {None} \cup Cache!Entries]
  BY DEF Cache!Init, Cache!Nothing
<1>2. heard \in [Requests -> [Cache!Subjects -> {None} \cup Cache!Facts]]
  BY DEF Cache!Init, Cache!Nothing
<1>3. req \in [Requests -> Cache!Progress]
  BY DEF Cache!Init, Cache!Idle, Cache!At, Cache!Steps, Cache!Kinds, Cache!Progress
<1>4. \A r \in Requests : req[r].pc = "idle"
  BY DEF Cache!Init, Cache!Idle, Cache!At
<1> QED
  BY <1>1, <1>2, <1>3, <1>4 DEF Cache!Init, Cache!TypeOK

LEMMA CacheStarts == Cache!Init => CacheInv
<1> SUFFICES ASSUME Cache!Init PROVE CacheInv
  OBVIOUS
<1>1. Cache!TypeOK
  BY CacheInitTyped
<1>2. \A r \in Requests : ReadCopy(r)
  BY DEF Cache!Init, Cache!Idle, Cache!At, ReadCopy
<1>3. \A s \in Cache!Subjects : CachedCopy(s)
  BY DEF Cache!Init, Cache!Nothing, CachedCopy
<1> QED
  BY <1>1, <1>2, <1>3 DEF CacheInv

-------------------------------------------------------------------------------
(* Using a fact and writing one. *)

LEMMA CacheUseTyped ==
  ASSUME Cache!TypeOK, NEW r \in Requests, req[r].pc # "idle", NEW f \in Cache!Facts,
         Cache!Use(r, f)
  PROVE  /\ heard' \in [Requests -> [Cache!Subjects -> {None} \cup Cache!Facts]]
         /\ req' \in [Requests -> Cache!Progress]
         /\ \A q \in Requests : req'[q].pc # "idle" => req'[q].user \in Users
         /\ req'[r].pc # "fill"
         /\ \A q \in Requests \ {r} : req'[q] = req[q]
<1>1. Cache!Subject(r) \in Cache!Subjects
  BY SubjectOfRequest
<1>2. heard' \in [Requests -> [Cache!Subjects -> {None} \cup Cache!Facts]]
  BY <1>1 DEF Cache!TypeOK, Cache!Use
<1>3. req'[r] \in {Cache!Idle, Cache!At("lookup", req[r].user, "grants")}
  BY DEF Cache!Use, Cache!TypeOK
<1>4. req[r].user \in Users
  BY DEF Cache!TypeOK
<1>5. /\ req'[r] \in Cache!Progress
      /\ req'[r].pc # "fill"
      /\ req'[r].pc # "idle" => req'[r].user \in Users
  BY <1>3, <1>4 DEF Cache!Idle, Cache!At, Cache!Steps, Cache!Kinds, Cache!Progress
<1>6. \A q \in Requests \ {r} : req'[q] = req[q]
  BY DEF Cache!Use, Cache!TypeOK
<1>7. req' = [q \in Requests |-> req'[q]]
  BY DEF Cache!Use, Cache!TypeOK
<1>8. \A q \in Requests :
        /\ req'[q] \in Cache!Progress
        /\ req'[q].pc # "idle" => req'[q].user \in Users
  BY <1>5, <1>6 DEF Cache!TypeOK
<1> QED
  BY <1>2, <1>5, <1>6, <1>7, <1>8

LEMMA CacheWriteTyped ==
  ASSUME Cache!TypeOK, NEW a \in Admins, NEW s \in Cache!Subjects, NEW f \in Cache!Facts,
         Cache!Write(a, s, f)
  PROVE  Cache!TypeOK'
<1>1. [subject |-> s, fact |-> base[s], at |-> clock]
        \in [subject : Cache!Subjects, fact : Cache!Facts, at : Nat]
  BY DEF Cache!TypeOK
<1>2. base' \in [Cache!Subjects -> Cache!Facts]
        /\ admin' \in [Admins -> {None} \cup Cache!Subjects]
  BY DEF Cache!TypeOK, Cache!Write
<1> QED
  BY <1>1, <1>2 DEF Cache!TypeOK, Cache!Write

\* Every administrative change is a write of one fact.
LEMMA CacheChangesAreWrites ==
  ASSUME Cache!TypeOK, NEW a \in Admins, NEW u \in Users,
         \/ Cache!SetUserActive(a, u) \/ Cache!DeactivateUser(a, u)
         \/ \E g \in Grants : Cache!GrantRole(a, u, g) \/ Cache!RevokeRole(a, u, g)
  PROVE  \E s \in Cache!Subjects, f \in Cache!Facts : Cache!Write(a, s, f)
<1>1. base[<<u, "grants">>] \in Cache!Facts
  BY CacheSubjects DEF Cache!TypeOK
<1>2. \A g \in Grants : base[<<u, "grants">>] \cup {g} \in Cache!Facts
        /\ base[<<u, "grants">>] \ {g} \in Cache!Facts
  BY <1>1 DEF Cache!Facts
<1>3. Cache!Active \in Cache!Facts /\ Cache!Inactive \in Cache!Facts
  BY DEF Cache!Active, Cache!Inactive, Cache!Facts
<1> QED
  BY <1>2, <1>3, CacheSubjects DEF Cache!SetUserActive, Cache!DeactivateUser,
     Cache!GrantRole, Cache!RevokeRole

LEMMA CacheNextTyped ==
  Cache!LifetimeAssumption /\ Cache!TypeOK /\ [Cache!Next]_(Cache!vars) => Cache!TypeOK'
<1> SUFFICES ASSUME Cache!LifetimeAssumption, Cache!TypeOK, [Cache!Next]_(Cache!vars)
             PROVE  Cache!TypeOK'
  OBVIOUS
<1>1. ASSUME NEW r \in Requests, NEW u \in Users, Cache!Enter(r, u) PROVE Cache!TypeOK'
  <2>1. Cache!At("lookup", u, "active") \in Cache!Progress
    BY DEF Cache!At, Cache!Progress, Cache!Steps, Cache!Kinds
  <2>2. Cache!Nothing \in [Cache!Subjects -> {None} \cup Cache!Facts]
    BY DEF Cache!Nothing
  <2>3. Cache!At("lookup", u, "active").pc = "lookup"
          /\ Cache!At("lookup", u, "active").user = u
    BY DEF Cache!At
  <2> QED
    BY <1>1, <2>1, <2>2, <2>3 DEF Cache!Enter, Cache!JWTAuth, Cache!JWTQueryAuth,
       Cache!SessionOrJWTQueryAuth, Cache!TypeOK
<1>2. ASSUME NEW r \in Requests, Cache!Hit(r) PROVE Cache!TypeOK'
  <2>1. Cache!Subject(r) \in Cache!Subjects
    BY <1>2, SubjectOfRequest DEF Cache!Hit
  <2>2. cache[Cache!Subject(r)].fact \in Cache!Facts
    BY <1>2, <2>1 DEF Cache!Hit, Cache!TypeOK, Cache!Entries
  <2>3. /\ heard' \in [Requests -> [Cache!Subjects -> {None} \cup Cache!Facts]]
        /\ req' \in [Requests -> Cache!Progress]
        /\ \A q \in Requests : req'[q].pc # "idle" => req'[q].user \in Users
        /\ req'[r].pc # "fill"
        /\ \A q \in Requests \ {r} : req'[q] = req[q]
    BY <1>2, <2>2, CacheUseTyped DEF Cache!Hit
  <2> QED
    BY <1>2, <2>3 DEF Cache!Hit, Cache!TypeOK
<1>3. ASSUME NEW r \in Requests, Cache!Miss(r) PROVE Cache!TypeOK'
  BY <1>3 DEF Cache!Miss, Cache!TypeOK, Cache!Progress, Cache!Steps
<1>4. ASSUME NEW r \in Requests, Cache!ReadTable(r) PROVE Cache!TypeOK'
  <2>1. base[Cache!Subject(r)] \in Cache!Facts
    BY <1>4, SubjectOfRequest DEF Cache!ReadTable, Cache!TypeOK
  <2>2. Cache!Lookup(r) \in Cache!Facts
    BY <1>4, <2>1, LookupReadsTable DEF Cache!ReadTable
  <2> DEFINE w == [req[r] EXCEPT !.pc = "fill", !.fact = Cache!Lookup(r), !.readAt = clock]
  <2>3. req' = [req EXCEPT ![r] = w] /\ clock \in Nat
    BY <1>4 DEF Cache!ReadTable, Cache!TypeOK
  <2>4. w \in Cache!Progress /\ w.fact \in Cache!Facts /\ w.user \in Users
    <3>1. req[r] \in Cache!Progress /\ req[r].user \in Users
      BY <1>4 DEF Cache!ReadTable, Cache!TypeOK
    <3> QED
      BY <2>2, <2>3, <3>1 DEF Cache!Progress, Cache!Steps
  <2> HIDE DEF w
  <2> QED
    BY <1>4, <2>3, <2>4 DEF Cache!ReadTable, Cache!TypeOK
<1>5. ASSUME NEW r \in Requests, Cache!ReadFails(r) PROVE Cache!TypeOK'
  <2>1. Cache!Idle \in Cache!Progress /\ Cache!Idle.pc = "idle"
    BY DEF Cache!Idle, Cache!At, Cache!Progress, Cache!Steps, Cache!Kinds
  <2> QED
    BY <1>5, <2>1 DEF Cache!ReadFails, Cache!TypeOK
<1>6. ASSUME NEW r \in Requests, Cache!Fill(r) PROVE Cache!TypeOK'
  <2>1. Cache!Subject(r) \in Cache!Subjects
    BY <1>6, SubjectOfRequest DEF Cache!Fill
  <2>2. req[r].fact \in Cache!Facts
    BY <1>6 DEF Cache!Fill, Cache!TypeOK
  <2>3. cache' \in [Cache!Subjects -> {None} \cup Cache!Entries]
    BY <1>6, <2>1, <2>2 DEF Cache!LifetimeAssumption, Cache!Fill, Cache!SetEntry,
       Cache!TypeOK, Cache!Entries
  <2>4. /\ heard' \in [Requests -> [Cache!Subjects -> {None} \cup Cache!Facts]]
        /\ req' \in [Requests -> Cache!Progress]
        /\ \A q \in Requests : req'[q].pc # "idle" => req'[q].user \in Users
        /\ req'[r].pc # "fill"
        /\ \A q \in Requests \ {r} : req'[q] = req[q]
    BY <1>6, <2>2, CacheUseTyped DEF Cache!Fill
  <2> QED
    BY <1>6, <2>3, <2>4 DEF Cache!Fill, Cache!TypeOK
<1>7. ASSUME NEW a \in Admins, Cache!Administer(a) PROVE Cache!TypeOK'
  <2>1. CASE \E s \in Cache!Subjects, f \in Cache!Facts : Cache!Write(a, s, f)
    BY <2>1, CacheWriteTyped
  <2>2. CASE Cache!DeleteCached(a) \/ Cache!DeleteLost(a)
    BY <2>2 DEF Cache!DeleteCached, Cache!DeleteLost, Cache!TypeOK
  <2> QED
    BY <1>7, <2>1, <2>2, CacheChangesAreWrites DEF Cache!Administer
<1>8. ASSUME NEW s \in Cache!Subjects, Cache!Evict(s) PROVE Cache!TypeOK'
  BY <1>8 DEF Cache!Evict, Cache!TypeOK
<1>9. CASE Cache!Tick
  BY <1>9 DEF Cache!Tick, Cache!TypeOK
<1>10. CASE UNCHANGED Cache!vars
  BY <1>10 DEF Cache!vars, Cache!TypeOK
<1> QED
  BY <1>1, <1>2, <1>3, <1>4, <1>5, <1>6, <1>7, <1>8, <1>9, <1>10 DEF Cache!Next,
     Cache!Middleware

-------------------------------------------------------------------------------
(* A step keeps every copy accounted for. *)


\* Changes are never forgotten, and one outdates the copies of its subject now.
LEMMA CopiedStable ==
  ASSUME Cache!TypeOK, NEW s \in Cache!Subjects, NEW f, NEW t \in Int, t <= clock,
         Copied(s, f, t),
         \/ UNCHANGED <<base, replaced>>
         \/ \E a \in Admins, q \in Cache!Subjects, g \in Cache!Facts : Cache!Write(a, q, g)
  PROVE  Copied(s, f, t)'
<1>1. CASE UNCHANGED <<base, replaced>>
  BY <1>1 DEF Copied, ReplacedSince
<1>2. ASSUME NEW a \in Admins, NEW q \in Cache!Subjects, NEW g \in Cache!Facts,
             Cache!Write(a, q, g)
      PROVE  Copied(s, f, t)'
  <2>1. replaced \subseteq replaced'
          /\ [subject |-> q, fact |-> base[q], at |-> clock] \in replaced'
    BY <1>2 DEF Cache!Write
  <2>2. CASE ReplacedSince(s, f, t)
    BY <2>1, <2>2 DEF Copied, ReplacedSince
  <2>3. CASE f = base[s] /\ q = s
    BY <2>1, <2>3 DEF Copied, ReplacedSince
  <2>4. CASE f = base[s] /\ q # s
    BY <1>2, <2>4 DEF Copied, Cache!Write, Cache!TypeOK
  <2> QED
    BY <2>2, <2>3, <2>4 DEF Copied
<1> QED
  BY <1>1, <1>2

\* An older bound is a weaker one.
LEMMA CopiedWeaker ==
  ASSUME Cache!TypeOK, NEW s, NEW f, NEW t \in Int, NEW w \in Int, w <= t, Copied(s, f, t)
  PROVE  Copied(s, f, w)
BY DEF Copied, ReplacedSince, Cache!TypeOK

LEMMA ReadCopyStep ==
  ASSUME CacheInv, NEW r \in Requests, req'[r] = req[r], clock' = clock,
         \/ UNCHANGED <<base, replaced>>
         \/ \E a \in Admins, q \in Cache!Subjects, g \in Cache!Facts : Cache!Write(a, q, g)
  PROVE  ReadCopy(r)'
<1> SUFFICES ASSUME req[r].pc = "fill" PROVE ReadCopy(r)'
  BY DEF ReadCopy
<1>1. Cache!Subject(r) \in Cache!Subjects /\ req[r].readAt \in Nat
  BY SubjectOfRequest DEF CacheInv, Cache!TypeOK, Cache!Progress
<1>2. req[r].readAt <= clock /\ Copied(Cache!Subject(r), req[r].fact, req[r].readAt)
  BY DEF CacheInv, ReadCopy
<1>3. Copied(Cache!Subject(r), req[r].fact, req[r].readAt)'
  <2> DEFINE s == Cache!Subject(r)
  <2> DEFINE f == req[r].fact
  <2> DEFINE t == req[r].readAt
  <2>1. Copied(s, f, t)'
    <3>1. s' = s /\ f' = f /\ t' = t
      BY DEF Cache!Subject
    <3>2. \/ f = base'[s]
          \/ \E p \in replaced' : p.subject = s /\ p.fact = f /\ t <= p.at
      BY <1>1, <1>2, CopiedStable DEF Copied, ReplacedSince, CacheInv
    <3> QED
      BY <3>1, <3>2 DEF Copied, ReplacedSince
  <2> QED
    BY <2>1
<1> QED
  BY <1>2, <1>3 DEF ReadCopy, CacheInv

LEMMA CachedCopyStep ==
  ASSUME Cache!LifetimeAssumption, CacheInv, NEW s \in Cache!Subjects,
         cache'[s] = cache[s], clock' = clock,
         \/ UNCHANGED <<base, replaced>>
         \/ \E a \in Admins, q \in Cache!Subjects, g \in Cache!Facts : Cache!Write(a, q, g)
  PROVE  CachedCopy(s)'
<1> SUFFICES ASSUME cache[s] # None PROVE CachedCopy(s)'
  BY DEF CachedCopy
<1>1. cache[s] \in Cache!Entries /\ clock \in Nat
  BY DEF CacheInv, Cache!TypeOK
<1>2. /\ clock < cache[s].until /\ cache[s].until <= clock + CacheTTL
      /\ Copied(s, cache[s].fact, cache[s].until - (CacheTTL + FillSpan))
  BY DEF CacheInv, CachedCopy
<1> DEFINE t == cache[s].until - (CacheTTL + FillSpan)
<1>3. t \in Int /\ t <= clock
  BY <1>1, <1>2 DEF Cache!LifetimeAssumption, Cache!Entries
<1>4. Copied(s, cache[s].fact, t)
  BY <1>2
<1> HIDE DEF t
<1>5. \/ cache[s].fact = base'[s]
      \/ \E p \in replaced' : p.subject = s /\ p.fact = cache[s].fact /\ t <= p.at
  BY <1>3, <1>4, CopiedStable DEF Copied, ReplacedSince, CacheInv
<1> QED
  BY <1>2, <1>5 DEF CachedCopy, Copied, ReplacedSince, t

-------------------------------------------------------------------------------
(* The invariant. *)

LEMMA FillKeepsCopies ==
  ASSUME Cache!LifetimeAssumption, CacheInv, NEW r \in Requests, Cache!Fill(r),
         NEW s \in Cache!Subjects
  PROVE  CachedCopy(s)'
<1>1. Cache!Subject(r) \in Cache!Subjects /\ req[r].readAt \in Nat /\ clock \in Nat
  BY SubjectOfRequest DEF Cache!Fill, CacheInv, Cache!TypeOK, Cache!Progress
<1>2. CASE cache'[s] = cache[s]
  BY <1>2, CachedCopyStep DEF Cache!Fill
<1>3. CASE cache'[s] # cache[s]
  <2>1. s = Cache!Subject(r)
          /\ cache'[s] = [fact |-> req[r].fact, until |-> clock + CacheTTL]
    BY <1>1, <1>3 DEF Cache!Fill, Cache!SetEntry, CacheInv, Cache!TypeOK
  <2>2. req[r].readAt <= clock /\ clock <= req[r].readAt + FillSpan
          /\ Copied(s, req[r].fact, req[r].readAt)
    BY <2>1 DEF Cache!Fill, CacheInv, ReadCopy
  <2>3. (clock + CacheTTL) - (CacheTTL + FillSpan) \in Int
          /\ (clock + CacheTTL) - (CacheTTL + FillSpan) <= req[r].readAt
    BY <1>1, <2>2 DEF Cache!LifetimeAssumption
  <2>4. Copied(s, req[r].fact, (clock + CacheTTL) - (CacheTTL + FillSpan))
    BY <1>1, <2>2, <2>3, CopiedWeaker DEF CacheInv
  <2>5. base' = base /\ replaced' = replaced /\ clock' = clock
    BY DEF Cache!Fill
  <2> QED
    BY <1>1, <2>1, <2>4, <2>5 DEF Cache!LifetimeAssumption, CachedCopy, Copied,
       ReplacedSince
<1> QED
  BY <1>2, <1>3

LEMMA CacheSteps ==
  Cache!LifetimeAssumption /\ CacheInv /\ [Cache!Next]_(Cache!vars) => CacheInv'
<1> SUFFICES ASSUME Cache!LifetimeAssumption, CacheInv, [Cache!Next]_(Cache!vars)
             PROVE  CacheInv'
  OBVIOUS
<1>1. Cache!TypeOK'
  BY CacheNextTyped DEF CacheInv
<1> SUFFICES (\A q \in Requests : ReadCopy(q)') /\ (\A s \in Cache!Subjects : CachedCopy(s)')
  BY <1>1 DEF CacheInv
<1>2. ASSUME NEW r \in Requests, NEW u \in Users, Cache!Enter(r, u)
      PROVE  (\A q \in Requests : ReadCopy(q)')
               /\ (\A s \in Cache!Subjects : CachedCopy(s)')
  <2>1. req'[r].pc = "lookup" /\ \A q \in Requests \ {r} : req'[q] = req[q]
    BY <1>2 DEF Cache!Enter, Cache!JWTAuth, Cache!JWTQueryAuth,
       Cache!SessionOrJWTQueryAuth, Cache!At, CacheInv, Cache!TypeOK
  <2>2. clock' = clock /\ base' = base /\ replaced' = replaced /\ cache' = cache
    BY <1>2 DEF Cache!Enter, Cache!JWTAuth, Cache!JWTQueryAuth, Cache!SessionOrJWTQueryAuth
  <2>3. ReadCopy(r)'
    BY <2>1 DEF ReadCopy
  <2> QED
    BY <2>1, <2>2, <2>3, ReadCopyStep, CachedCopyStep
<1>3. ASSUME NEW r \in Requests, Cache!Hit(r)
      PROVE  (\A q \in Requests : ReadCopy(q)')
               /\ (\A s \in Cache!Subjects : CachedCopy(s)')
  <2>1. cache[Cache!Subject(r)].fact \in Cache!Facts
    BY <1>3, SubjectOfRequest DEF Cache!Hit, CacheInv, Cache!TypeOK, Cache!Entries
  <2>2. req'[r].pc # "fill" /\ \A q \in Requests \ {r} : req'[q] = req[q]
    BY <1>3, <2>1, CacheUseTyped DEF Cache!Hit, CacheInv
  <2>3. clock' = clock /\ base' = base /\ replaced' = replaced /\ cache' = cache
    BY <1>3 DEF Cache!Hit
  <2>4. ReadCopy(r)'
    BY <2>2 DEF ReadCopy
  <2> QED
    BY <2>2, <2>3, <2>4, ReadCopyStep, CachedCopyStep
<1>4. ASSUME NEW r \in Requests, Cache!Miss(r) \/ Cache!ReadFails(r)
      PROVE  (\A q \in Requests : ReadCopy(q)')
               /\ (\A s \in Cache!Subjects : CachedCopy(s)')
  <2>1. req'[r].pc # "fill" /\ \A q \in Requests \ {r} : req'[q] = req[q]
    BY <1>4 DEF Cache!Miss, Cache!ReadFails, Cache!Idle, Cache!At, CacheInv,
       Cache!TypeOK, Cache!Progress
  <2>2. clock' = clock /\ base' = base /\ replaced' = replaced /\ cache' = cache
    BY <1>4 DEF Cache!Miss, Cache!ReadFails
  <2>3. ReadCopy(r)'
    BY <2>1 DEF ReadCopy
  <2> QED
    BY <2>1, <2>2, <2>3, ReadCopyStep, CachedCopyStep
<1>5. ASSUME NEW r \in Requests, Cache!ReadTable(r)
      PROVE  (\A q \in Requests : ReadCopy(q)')
               /\ (\A s \in Cache!Subjects : CachedCopy(s)')
  <2>1. \A q \in Requests \ {r} : req'[q] = req[q]
    BY <1>5 DEF Cache!ReadTable, CacheInv, Cache!TypeOK
  <2>2. clock' = clock /\ base' = base /\ replaced' = replaced /\ cache' = cache
    BY <1>5 DEF Cache!ReadTable
  <2>3. /\ req'[r].fact = base[Cache!Subject(r)] /\ req'[r].readAt = clock
        /\ Cache!Subject(r)' = Cache!Subject(r) /\ clock \in Nat
    BY <1>5, LookupReadsTable DEF Cache!ReadTable, Cache!Subject, CacheInv, Cache!TypeOK,
       Cache!Progress
  <2>4. ReadCopy(r)'
    BY <2>2, <2>3 DEF Cache!LifetimeAssumption, ReadCopy, Copied
  <2> QED
    BY <2>1, <2>2, <2>4, ReadCopyStep, CachedCopyStep
<1>6. ASSUME NEW r \in Requests, Cache!Fill(r)
      PROVE  (\A q \in Requests : ReadCopy(q)')
               /\ (\A s \in Cache!Subjects : CachedCopy(s)')
  <2>1. req[r].fact \in Cache!Facts
    BY <1>6 DEF Cache!Fill, CacheInv, Cache!TypeOK
  <2>2. req'[r].pc # "fill" /\ \A q \in Requests \ {r} : req'[q] = req[q]
    BY <1>6, <2>1, CacheUseTyped DEF Cache!Fill, CacheInv
  <2>3. clock' = clock /\ base' = base /\ replaced' = replaced
    BY <1>6 DEF Cache!Fill
  <2>4. ReadCopy(r)'
    BY <2>2 DEF ReadCopy
  <2> QED
    BY <1>6, <2>2, <2>3, <2>4, ReadCopyStep, FillKeepsCopies
<1>7. ASSUME NEW a \in Admins, Cache!Administer(a)
      PROVE  (\A q \in Requests : ReadCopy(q)')
               /\ (\A s \in Cache!Subjects : CachedCopy(s)')
  <2>1. CASE \E s \in Cache!Subjects, f \in Cache!Facts : Cache!Write(a, s, f)
    <3>1. clock' = clock /\ cache' = cache /\ req' = req
      BY <2>1 DEF Cache!Write
    <3> QED
      BY <2>1, <3>1, ReadCopyStep, CachedCopyStep
  <2>2. CASE Cache!DeleteCached(a) \/ Cache!DeleteLost(a)
    <3>1. clock' = clock /\ base' = base /\ replaced' = replaced /\ req' = req
      BY <2>2 DEF Cache!DeleteCached, Cache!DeleteLost
    <3>2. \A s \in Cache!Subjects : cache'[s] = cache[s] \/ cache'[s] = None
      BY <2>2 DEF Cache!DeleteCached, Cache!DeleteLost, CacheInv, Cache!TypeOK
    <3>3. \A s \in Cache!Subjects : cache'[s] = None => CachedCopy(s)'
      BY DEF CachedCopy
    <3> QED
      BY <3>1, <3>2, <3>3, ReadCopyStep, CachedCopyStep
  <2> QED
    BY <1>7, <2>1, <2>2, CacheChangesAreWrites DEF Cache!Administer, CacheInv
<1>8. ASSUME NEW z \in Cache!Subjects, Cache!Evict(z)
      PROVE  (\A q \in Requests : ReadCopy(q)')
               /\ (\A s \in Cache!Subjects : CachedCopy(s)')
  <2>1. clock' = clock /\ base' = base /\ replaced' = replaced /\ req' = req
    BY <1>8 DEF Cache!Evict
  <2>2. \A s \in Cache!Subjects : cache'[s] = cache[s] \/ cache'[s] = None
    BY <1>8 DEF Cache!Evict, CacheInv, Cache!TypeOK
  <2>3. \A s \in Cache!Subjects : cache'[s] = None => CachedCopy(s)'
    BY DEF CachedCopy
  <2> QED
    BY <2>1, <2>2, <2>3, ReadCopyStep, CachedCopyStep
<1>9. CASE Cache!Tick
  <2>1. \A q \in Requests : ReadCopy(q)'
    <3> TAKE q \in Requests
    <3> SUFFICES ASSUME req[q].pc = "fill" PROVE ReadCopy(q)'
      BY <1>9 DEF Cache!Tick, ReadCopy
    <3>1. clock < req[q].readAt + FillSpan /\ clock' = clock + 1 /\ req' = req
            /\ base' = base /\ replaced' = replaced
      BY <1>9 DEF Cache!Tick
    <3>2. req[q].readAt <= clock /\ Copied(Cache!Subject(q), req[q].fact, req[q].readAt)
      BY DEF CacheInv, ReadCopy
    <3>3. clock \in Nat /\ req[q].readAt \in Nat
      BY DEF CacheInv, Cache!TypeOK, Cache!Progress
    <3> QED
      BY <3>1, <3>2, <3>3 DEF Cache!LifetimeAssumption, ReadCopy, Copied, ReplacedSince,
         Cache!Subject
  <2>2. \A s \in Cache!Subjects : CachedCopy(s)'
    <3> TAKE s \in Cache!Subjects
    <3> SUFFICES ASSUME cache'[s] # None PROVE CachedCopy(s)'
      BY DEF CachedCopy
    <3>1. cache'[s] = cache[s] /\ cache[s] # None /\ clock + 1 < cache[s].until
      BY <1>9 DEF Cache!Tick, Cache!Unexpired
    <3>2. clock' = clock + 1 /\ base' = base /\ replaced' = replaced
      BY <1>9 DEF Cache!Tick
    <3>3. cache[s].until <= clock + CacheTTL
            /\ Copied(s, cache[s].fact, cache[s].until - (CacheTTL + FillSpan))
      BY <3>1 DEF CacheInv, CachedCopy
    <3>4. clock \in Nat /\ cache[s].until \in Nat
      BY <3>1 DEF CacheInv, Cache!TypeOK, Cache!Entries
    <3> QED
      BY <3>1, <3>2, <3>3, <3>4 DEF Cache!LifetimeAssumption, CachedCopy, Copied,
         ReplacedSince
  <2> QED
    BY <2>1, <2>2
<1>10. CASE UNCHANGED Cache!vars
  BY <1>10, ReadCopyStep, CachedCopyStep DEF Cache!vars
<1> QED
  BY <1>2, <1>3, <1>4, <1>5, <1>6, <1>7, <1>8, <1>9, <1>10 DEF Cache!Next, Cache!Middleware

LEMMA CacheInvariant == Cache!LifetimeAssumption => (Cache!Spec => []CacheInv)
<1> SUFFICES ASSUME Cache!LifetimeAssumption PROVE Cache!Spec => []CacheInv
  OBVIOUS
<1>1. CacheInv /\ [Cache!Next]_(Cache!vars) => CacheInv'
  BY CacheSteps
<1> QED
  BY CacheStarts, <1>1, PTL DEF Cache!Spec

-------------------------------------------------------------------------------
(* Every step is a step of BoundedStaleness, or none of its variables. *)

LEMMA UseIsTell ==
  ASSUME CacheInv, NEW r \in Requests, NEW f \in Cache!Facts,
         Cache!Subject(r) \in Cache!Subjects, Cache!Use(r, f),
         UNCHANGED <<clock, base, replaced>>,
         \/ f = base[Cache!Subject(r)]
         \/ \E p \in replaced : p.subject = Cache!Subject(r) /\ p.fact = f
              /\ clock < p.at + (CacheTTL + FillSpan)
  PROVE  Cache!Answers!Next
<1>1. f \in Cache!Answers!Fresh(Cache!Subject(r))
  BY DEF Cache!Answers!Fresh
<1>2. heard' = [heard EXCEPT ![r][Cache!Subject(r)] = f]
  BY DEF Cache!Use
<1> QED
  BY <1>1, <1>2 DEF Cache!Answers!Next, Cache!Answers!Tell

LEMMA CacheAnswersInit == Cache!Init => Cache!Answers!Init
BY DEF Cache!Init, Cache!Nothing, Cache!Answers!Init

LEMMA CacheAnswers ==
  Cache!LifetimeAssumption /\ CacheInv /\ [Cache!Next]_(Cache!vars)
    => [Cache!Answers!Next]_(Cache!Answers!vars)
<1> SUFFICES ASSUME Cache!LifetimeAssumption, CacheInv, [Cache!Next]_(Cache!vars)
             PROVE  Cache!Answers!Next \/ UNCHANGED <<clock, base, replaced, heard>>
  BY DEF Cache!Answers!vars
<1>1. ASSUME NEW r \in Requests, NEW u \in Users, Cache!Enter(r, u) PROVE Cache!Answers!Next
  BY <1>1 DEF Cache!Enter, Cache!JWTAuth, Cache!JWTQueryAuth,
     Cache!SessionOrJWTQueryAuth, Cache!Nothing, Cache!Answers!Next, Cache!Answers!Ask
<1>2. ASSUME NEW r \in Requests, Cache!Hit(r) PROVE Cache!Answers!Next
  <2> DEFINE s == Cache!Subject(r)
  <2> DEFINE e == cache[s]
  <2>1. s \in Cache!Subjects /\ e \in Cache!Entries
    BY <1>2, SubjectOfRequest DEF Cache!Hit, CacheInv, Cache!TypeOK
  <2>2. clock < e.until /\ Copied(s, e.fact, e.until - (CacheTTL + FillSpan))
    BY <1>2, <2>1 DEF Cache!Hit, CacheInv, CachedCopy
  <2>3. clock \in Nat /\ e.until \in Nat /\ e.fact \in Cache!Facts
          /\ \A p \in replaced : p.at \in Nat
    BY <2>1 DEF CacheInv, Cache!TypeOK, Cache!Entries
  <2>4. \/ e.fact = base[s]
        \/ \E p \in replaced : p.subject = s /\ p.fact = e.fact
             /\ clock < p.at + (CacheTTL + FillSpan)
    <3>1. \A p \in replaced : e.until - (CacheTTL + FillSpan) <= p.at
            => clock < p.at + (CacheTTL + FillSpan)
      BY <2>2, <2>3 DEF Cache!LifetimeAssumption
    <3> QED
      BY <2>2, <3>1 DEF Copied, ReplacedSince
  <2> QED
    BY <1>2, <2>1, <2>3, <2>4, UseIsTell DEF Cache!Hit
<1>3. ASSUME NEW r \in Requests, Cache!Fill(r) PROVE Cache!Answers!Next
  <2> DEFINE s == Cache!Subject(r)
  <2>1. s \in Cache!Subjects /\ req[r].fact \in Cache!Facts
    BY <1>3, SubjectOfRequest DEF Cache!Fill, CacheInv, Cache!TypeOK
  <2>2. clock <= req[r].readAt + FillSpan /\ Copied(s, req[r].fact, req[r].readAt)
    BY <1>3 DEF Cache!Fill, CacheInv, ReadCopy
  <2>3. clock \in Nat /\ req[r].readAt \in Nat /\ \A p \in replaced : p.at \in Nat
    BY DEF CacheInv, Cache!TypeOK, Cache!Progress
  <2>4. \/ req[r].fact = base[s]
        \/ \E p \in replaced : p.subject = s /\ p.fact = req[r].fact
             /\ clock < p.at + (CacheTTL + FillSpan)
    <3>1. \A p \in replaced : req[r].readAt <= p.at => clock < p.at + (CacheTTL + FillSpan)
      BY <2>2, <2>3 DEF Cache!LifetimeAssumption
    <3> QED
      BY <2>2, <3>1 DEF Copied, ReplacedSince
  <2> QED
    BY <1>3, <2>1, <2>4, UseIsTell DEF Cache!Fill
<1>4. ASSUME NEW a \in Admins, Cache!Administer(a)
      PROVE  Cache!Answers!Next \/ UNCHANGED <<clock, base, replaced, heard>>
  <2>1. ASSUME NEW s \in Cache!Subjects, NEW f \in Cache!Facts, Cache!Write(a, s, f)
        PROVE  Cache!Answers!Next
    BY <2>1 DEF Cache!Write, Cache!Answers!Next, Cache!Answers!Change
  <2>2. CASE Cache!DeleteCached(a) \/ Cache!DeleteLost(a)
    BY <2>2 DEF Cache!DeleteCached, Cache!DeleteLost
  <2> QED
    BY <1>4, <2>1, <2>2, CacheChangesAreWrites DEF Cache!Administer, CacheInv
<1>5. CASE Cache!Tick
  BY <1>5 DEF Cache!Tick, Cache!Answers!Next, Cache!Answers!Tick
<1>6. ASSUME NEW r \in Requests, Cache!Miss(r) \/ Cache!ReadTable(r) \/ Cache!ReadFails(r)
      PROVE  UNCHANGED <<clock, base, replaced, heard>>
  BY <1>6 DEF Cache!Miss, Cache!ReadTable, Cache!ReadFails
<1>7. ASSUME NEW s \in Cache!Subjects, Cache!Evict(s)
      PROVE  UNCHANGED <<clock, base, replaced, heard>>
  BY <1>7 DEF Cache!Evict
<1>8. CASE UNCHANGED Cache!vars
  BY <1>8 DEF Cache!vars
<1> QED
  BY <1>1, <1>2, <1>3, <1>4, <1>5, <1>6, <1>7, <1>8 DEF Cache!Next, Cache!Middleware

\* Whatever the interleaving of requests, changes, deletions and evictions, a
\* request of the middlewares is never told a fact that was replaced a cached
\* copy's lifetime and one fill ago.
THEOREM AnswersFresh == Cache!LifetimeAssumption => (Cache!Spec => AnswersAreFresh)
<1> SUFFICES ASSUME Cache!LifetimeAssumption PROVE Cache!Spec => AnswersAreFresh
  OBVIOUS
<1>1. AnswersAreFresh <=>
        Cache!Answers!Init /\ [][Cache!Answers!Next]_(Cache!Answers!vars)
  BY DEF AnswersAreFresh, Cache!AnswersAreFresh, Cache!Answers!Spec
<1>2. CacheInv /\ [Cache!Next]_(Cache!vars) => [Cache!Answers!Next]_(Cache!Answers!vars)
  BY CacheAnswers
<1> QED
  BY <1>1, <1>2, CacheAnswersInit, CacheInvariant, PTL DEF Cache!Spec

-------------------------------------------------------------------------------
(* DashboardPages. *)

\* A session is a sequence of grants.
SessionsAreLists == session = None \/ session \in Seq(Offered)

PagesInv == Pages!TypeOK /\ SessionsAreLists

-------------------------------------------------------------------------------
(* Types. *)

LEMMA HeldIsFinite ==
  ASSUME SessionsAreLists
  PROVE  Pages!Held \in SUBSET Offered /\ IsFiniteSet(Pages!Held)
<1>1. CASE session = None
  BY <1>1, FS_EmptySet DEF Pages!Held
<1>2. CASE session # None
  <2>1. session \in Seq(Offered)
    BY <1>2 DEF SessionsAreLists
  <2>2. IsFiniteSet(1..Len(session))
    BY <2>1, FS_Interval
  <2>3. DOMAIN session = 1..Len(session)
    BY <2>1
  <2>4. Pages!ToSet(session) = {session[i] : i \in 1..Len(session)}
    BY <2>3 DEF Pages!ToSet
  <2>5. IsFiniteSet({session[i] : i \in 1..Len(session)})
    <3> DEFINE f == [i \in 1..Len(session) |-> session[i]]
    <3>1. f \in Surjection(1..Len(session), {session[i] : i \in 1..Len(session)})
      BY DEF Surjection
    <3> QED
      BY <2>2, <3>1, FS_Surjection
  <2>6. Pages!ToSet(session) \in SUBSET Offered
    BY <2>1, <2>3, <2>4, ElementOfSeq
  <2> QED
    BY <1>2, <2>4, <2>5, <2>6 DEF Pages!Held
<1> QED
  BY <1>1, <1>2

LEMMA OrdersAreLists ==
  ASSUME NEW grants \in SUBSET Offered, IsFiniteSet(grants),
         NEW s \in Pages!ActiveRoles(grants)
  PROVE  s \in Seq(Offered) /\ Pages!ToSet(s) \in SUBSET Offered
<1>1. Cardinality(grants) \in Nat
  BY FS_CardinalityType
<1>2. Pages!Cardinality(grants) = Cardinality(grants)
  BY DEF Pages!Cardinality, Cardinality
<1>3. s \in [1..Cardinality(grants) -> grants]
  BY <1>2 DEF Pages!ActiveRoles, Pages!SetToSeqs
<1>4. s \in Seq(Offered)
  BY <1>1, <1>3, SeqDef
<1>5. DOMAIN s = 1..Cardinality(grants)
  BY <1>3
<1> QED
  BY <1>3, <1>4, <1>5 DEF Pages!ToSet

LEMMA PagesStart == Pages!Init => PagesInv
BY DEF Pages!Init, PagesInv, Pages!TypeOK, SessionsAreLists

LEMMA PagesSteps == PagesInv /\ [Pages!Next]_(Pages!vars) => PagesInv'
<1> SUFFICES ASSUME PagesInv, [Pages!Next]_(Pages!vars) PROVE PagesInv'
  OBVIOUS
<1>1. ASSUME NEW grants \in SUBSET Offered, IsFiniteSet(grants),
             Pages!LoginDashboard(grants)
      PROVE  PagesInv'
  <2>1. session' \in Seq(Offered) /\ Pages!ToSet(session') \in SUBSET Offered
    BY <1>1, OrdersAreLists DEF Pages!LoginDashboard
  <2> QED
    BY <1>1, <2>1 DEF Pages!LoginDashboard, Pages!network, PagesInv, Pages!TypeOK,
       SessionsAreLists, Pages!ToSet
<1>2. ASSUME NEW g \in Offered, Pages!GrantRole(g) PROVE PagesInv'
  <2>1. Pages!Held \cup {g} \in SUBSET Offered /\ IsFiniteSet(Pages!Held \cup {g})
    BY HeldIsFinite, FS_AddElement DEF PagesInv
  <2> QED
    BY <1>1, <1>2, <2>1 DEF Pages!GrantRole
<1>3. ASSUME NEW g \in Offered, Pages!RevokeRole(g) PROVE PagesInv'
  <2>1. Pages!Held \ {g} \in SUBSET Offered /\ IsFiniteSet(Pages!Held \ {g})
    BY HeldIsFinite, FS_Subset DEF PagesInv
  <2> QED
    BY <1>1, <1>3, <2>1 DEF Pages!RevokeRole
<1>4. CASE Pages!Logout
  BY <1>4 DEF Pages!Logout, Pages!network, PagesInv, Pages!TypeOK, SessionsAreLists
<1>5. CASE UNCHANGED Pages!vars
  BY <1>5 DEF Pages!vars, Pages!network, PagesInv, Pages!TypeOK, SessionsAreLists,
     Pages!ToSet
<1> QED
  BY <1>2, <1>3, <1>4, <1>5 DEF Pages!Next

LEMMA PagesInvariant == Pages!Spec => []PagesInv
BY PagesStart, PagesSteps, PTL DEF Pages!Spec

-------------------------------------------------------------------------------
(* Grants. *)

\* A set of numbers has a least one: Min finds it.
LEMMA LeastExists ==
  ASSUME NEW S \in SUBSET Nat, S # {}
  PROVE  Pages!Min(S) \in S /\ \A y \in S : Pages!Min(S) <= y
<1> DEFINE R == {ss \in Nat \X Nat : ss[1] < ss[2]}
<1>1. OpToRel(<,Nat) = R
  BY Zenon DEF OpToRel
<1>2. IsWellFoundedOn(R, Nat)
  BY <1>1, NatLessThanWellFounded, Zenon
<1>3. PICK x \in S : \A y \in S : <<y, x>> \notin R
  <2> HIDE DEF R
  <2> QED
    BY <1>2, WFMin
<1>4. ASSUME NEW y \in S, y < x PROVE FALSE
  <2>1. <<y, x>> \in Nat \X Nat /\ <<y, x>>[1] < <<y, x>>[2]
    BY <1>4
  <2>2. <<y, x>> \in R
    BY <2>1
  <2> QED
    BY <1>3, <2>2
<1>5. \A y \in S : x <= y
  BY <1>4
<1> QED
  BY <1>5 DEF Pages!Min

LEMMA FirstFacility ==
  ASSUME NEW s \in Seq(Offered)
  PROVE  \/ /\ Pages!FirstOf(s, Pages!OfFacility) = Pages!Nobody
            /\ \A i \in DOMAIN s : ~Pages!OfFacility(s[i])
         \/ /\ Pages!FirstOf(s, Pages!OfFacility) # Pages!Nobody
            /\ \E i \in DOMAIN s : Pages!OfFacility(s[i])
                 /\ s[i] = Pages!FirstOf(s, Pages!OfFacility)
<1> DEFINE at == {i \in DOMAIN s : Pages!OfFacility(s[i])}
<1>1. at \in SUBSET Nat
  OBVIOUS
<1>2. Pages!FirstOf(s, Pages!OfFacility) =
        IF at = {} THEN Pages!Nobody ELSE s[Pages!Min(at)]
  BY DEF Pages!FirstOf
<1>3. CASE at = {}
  BY <1>2, <1>3
<1>4. CASE at # {}
  <2>1. Pages!Min(at) \in at
    BY <1>1, <1>4, LeastExists
  <2>2. Pages!OfFacility(s[Pages!Min(at)]) /\ Pages!Min(at) \in DOMAIN s
    BY <2>1
  <2>3. s[Pages!Min(at)] # Pages!Nobody
    BY <2>2 DEF Pages!OfFacility, Pages!FacilityRoles, Pages!Nobody, Pages!Grant
  <2> QED
    BY <1>2, <1>4, <2>2, <2>3
<1> QED
  BY <1>3, <1>4

LEMMA FirstStation ==
  ASSUME NEW s \in Seq(Offered)
  PROVE  \/ /\ Pages!FirstOf(s, Pages!OfStation) = Pages!Nobody
            /\ \A i \in DOMAIN s : ~Pages!OfStation(s[i])
         \/ /\ Pages!FirstOf(s, Pages!OfStation) # Pages!Nobody
            /\ \E i \in DOMAIN s : Pages!OfStation(s[i])
                 /\ s[i] = Pages!FirstOf(s, Pages!OfStation)
<1> DEFINE at == {i \in DOMAIN s : Pages!OfStation(s[i])}
<1>1. at \in SUBSET Nat
  OBVIOUS
<1>2. Pages!FirstOf(s, Pages!OfStation) = IF at = {} THEN Pages!Nobody ELSE s[Pages!Min(at)]
  BY DEF Pages!FirstOf
<1>3. CASE at = {}
  BY <1>2, <1>3
<1>4. CASE at # {}
  <2>1. Pages!Min(at) \in at
    BY <1>1, <1>4, LeastExists
  <2>2. Pages!OfStation(s[Pages!Min(at)]) /\ Pages!Min(at) \in DOMAIN s
    BY <2>1
  <2>3. s[Pages!Min(at)] # Pages!Nobody
    BY <2>2 DEF Pages!OfStation, Pages!Nobody, Pages!Grant
  <2> QED
    BY <1>2, <1>4, <2>2, <2>3
<1> QED
  BY <1>3, <1>4

LEMMA RolesAreRanked ==
  ASSUME Pages!PagesAssumption, NEW g \in Offered
  PROVE  Pages!Rank[g.role] \in 0..7
<1>1. PICK i \in DOMAIN Pages!UserRole : g.role = Pages!UserRole[i]
  BY DEF Pages!PagesAssumption
<1> QED
  BY <1>1 DEF Pages!UserRole, Pages!Rank

\* The best grant is one of the session's, and none has a higher rank.
LEMMA BestIsHeld ==
  ASSUME Pages!PagesAssumption, NEW s \in Seq(Offered), s # <<>>
  PROVE  \E i \in DOMAIN s :
           /\ Pages!BestRole(s) = s[i]
           /\ \A j \in DOMAIN s : Pages!Rank[s[i].role] >= Pages!Rank[s[j].role]
<1> DEFINE rank(i) == Pages!Rank[s[i].role]
           at == {i \in DOMAIN s : \A j \in DOMAIN s : rank(i) >= rank(j)}
           short == {7 - rank(i) : i \in DOMAIN s}
<1>1. \A i \in DOMAIN s : i \in Nat /\ rank(i) \in 0..7
  BY RolesAreRanked
<1>2. 1 \in DOMAIN s
  BY EmptySeq
<1>3. short \in SUBSET Nat /\ short # {}
  BY <1>1, <1>2
<1>4. PICK i \in DOMAIN s : \A y \in short : 7 - rank(i) <= y
  <2>1. Pages!Min(short) \in short /\ \A y \in short : Pages!Min(short) <= y
    BY <1>3, LeastExists
  <2>2. PICK i \in DOMAIN s : Pages!Min(short) = 7 - rank(i)
    BY <2>1
  <2> QED
    BY <2>1, <2>2
<1>5. ASSUME NEW j \in DOMAIN s PROVE rank(i) >= rank(j)
  <2>1. 7 - rank(j) \in short
    OBVIOUS
  <2>2. 7 - rank(i) <= 7 - rank(j)
    BY <1>4, <2>1
  <2>3. rank(i) \in 0..7 /\ rank(j) \in 0..7
    BY <1>1
  <2> HIDE DEF rank
  <2> QED
    BY <2>2, <2>3
<1>6. i \in at /\ at \in SUBSET Nat
  BY <1>1, <1>5
<1>7. Pages!Min(at) \in at
  BY <1>6, LeastExists
<1>8. Pages!BestRole(s) = s[Pages!Min(at)]
  BY DEF Pages!BestRole
<1> QED
  BY <1>7, <1>8

\* The best grant of a well scoped session has a page of the dashboard, with the
\* scope its role is meant to have, unless the user only drives or has no grant.
LEMMA BestIsScoped ==
  ASSUME Pages!PagesAssumption, NEW s \in Seq(Offered), Pages!WellScoped(s)
  PROVE  \/ Pages!BestRole(s).role \in {"DRIVER", "NOBODY"}
         \/ \E i \in DOMAIN s :
              /\ Pages!BestRole(s) = s[i] /\ s[i].id # None
              /\ \/ Pages!IsSystem(s[i]) \/ Pages!OfRefinery(s[i]) \/ Pages!OfFacility(s[i])
                 \/ Pages!OfDepot(s[i]) \/ Pages!OfStation(s[i])
<1>1. CASE s = <<>>
  BY <1>1 DEF Pages!BestRole, Pages!Nobody, Pages!Grant
<1>2. CASE s # <<>>
  <2>1. PICK i \in DOMAIN s : Pages!BestRole(s) = s[i]
    BY <1>2, BestIsHeld
  <2>2. s[i] \in Offered
    BY ElementOfSeq
  <2> QED
    BY <2>1, <2>2 DEF Pages!WellScoped, Pages!PagesAssumption
<1> QED
  BY <1>1, <1>2

\* One who does not only drive has a best grant that is not a driver's, and one
\* who serves a depot or more has a best grant of that rank.
LEMMA BestIsNoDriver ==
  ASSUME Pages!PagesAssumption, NEW s \in Seq(Offered), NEW i \in DOMAIN s,
         s[i].role # "DRIVER"
  PROVE  /\ Pages!BestRole(s).role \notin {"DRIVER", "NOBODY"}
         /\ Pages!BestRole(s).role = "STATION_MANAGER" => s[i].role = "STATION_MANAGER"
<1>1. s # <<>>
  OBVIOUS
<1>2. PICK b \in DOMAIN s :
        Pages!BestRole(s) = s[b] /\ Pages!Rank[s[b].role] >= Pages!Rank[s[i].role]
  BY <1>1, BestIsHeld
<1>3. s[i] \in Offered /\ s[b] \in Offered
  BY ElementOfSeq
<1>4. PICK x \in DOMAIN Pages!UserRole : s[i].role = Pages!UserRole[x]
  BY <1>3 DEF Pages!PagesAssumption
<1>5. PICK y \in DOMAIN Pages!UserRole : s[b].role = Pages!UserRole[y]
  BY <1>3 DEF Pages!PagesAssumption
<1>6. DOMAIN Pages!UserRole = 1..7
  BY DEF Pages!UserRole
<1>7. x \in 1..6 /\ y \in 1..7
  BY <1>4, <1>5, <1>6 DEF Pages!UserRole
<1>8. Pages!Rank[s[i].role] \in 2..7
        /\ (Pages!Rank[s[i].role] = 2 => s[i].role = "STATION_MANAGER")
  BY <1>4, <1>7 DEF Pages!UserRole, Pages!Rank
<1>9. Pages!Rank["DRIVER"] = 1 /\ Pages!Rank["STATION_MANAGER"] = 2
  BY DEF Pages!Rank
<1>10. s[b].role # "NOBODY"
  BY <1>5, <1>7 DEF Pages!UserRole
<1> QED
  BY <1>2, <1>8, <1>9, <1>10

-------------------------------------------------------------------------------
(* What a user is shown. *)

LEMMA KindsOfPages ==
  /\ Pages!Home.kind = "home" /\ Pages!StationList.kind = "stations"
       /\ Pages!FleetList.kind = "fleet"
  /\ Pages!TripList.kind = "trips" /\ Pages!OrderQueues.kind = "delivery-orders"
  /\ Pages!UserList.kind = "users"
  /\ \A k, x : Pages!Page(k, x).kind = k /\ Pages!Page(k, x).id = x
BY DEF Pages!Home, Pages!StationList, Pages!FleetList, Pages!TripList, Pages!OrderQueues,
   Pages!UserList, Pages!Page

\* Who is sent home from the landing page is an administrator, or only drives.
LEMMA HomeIsForAdmins ==
  ASSUME NEW s \in Seq(Offered), Pages!WellScoped(s), Pages!LandingPath(s) = Pages!Home
  PROVE  Pages!HasRole(s, Pages!AdminRoles) \/ \A i \in DOMAIN s : s[i].role = "DRIVER"
<1> SUFFICES ASSUME ~Pages!HasRole(s, Pages!AdminRoles), NEW i \in DOMAIN s
             PROVE  s[i].role = "DRIVER"
  OBVIOUS
<1>1. Pages!FirstOf(s, Pages!OfFacility) = Pages!Nobody
  BY KindsOfPages DEF Pages!LandingPath
<1>2. Pages!FirstOf(s, Pages!OfStation) = Pages!Nobody
  BY <1>1, KindsOfPages DEF Pages!LandingPath
<1>3. ~Pages!HasRole(s, {"DEPOT_STAFF"})
  BY <1>1, <1>2, KindsOfPages DEF Pages!LandingPath
<1>4. ~Pages!OfFacility(s[i]) /\ ~Pages!OfStation(s[i])
  BY <1>1, <1>2, FirstFacility, FirstStation
<1> QED
  BY <1>3, <1>4 DEF Pages!WellScoped, Pages!HasRole, Pages!AdminRoles,
     Pages!IsSystem, Pages!OfRefinery, Pages!OfDepot

LEMMA AdminsViewAll ==
  ASSUME NEW s, Pages!HasRole(s, Pages!AdminRoles)
  PROVE  /\ \A f : Pages!CanViewFacility(s, f)
         /\ \A o : Pages!CanViewTripDetail(s, o)
BY DEF Pages!CanViewFacility, Pages!CanViewTripDetail

\* What Opens asks of each page.
LEMMA ItemsOpen ==
  ASSUME NEW s, NEW x
  PROVE  /\ Pages!Opens(s, Pages!Page("trip", x)) <=> Pages!CanViewTripDetail(s, x)
         /\ Pages!Opens(s, Pages!Page("facility", x)) <=> Pages!CanViewFacility(s, x)
         /\ Pages!Opens(s, Pages!Page("queue", x)) <=> Pages!CanViewFacility(s, x)
         /\ Pages!Opens(s, Pages!Page("station", x)) <=> Pages!CanViewStationPage(s, x)
         /\ Pages!Opens(s, Pages!Page("vehicle", x))
              <=> Pages!CanViewFleet(s) /\ Pages!CanViewVehiclePage(s, x)
         /\ Pages!Opens(s, Pages!Page("order", x)) <=> Pages!CanViewFacility(s, origin[x])
         /\ Pages!Opens(s, Pages!Page("weigh", x)) <=> Pages!CanViewTripDetail(s, x)
<1>1. Pages!Opens(s, Pages!Page("trip", x)) <=> Pages!CanViewTripDetail(s, x)
  BY DEF Pages!Opens, Pages!Page
<1>2. Pages!Opens(s, Pages!Page("facility", x)) <=> Pages!CanViewFacility(s, x)
  BY DEF Pages!Opens, Pages!Page
<1>3. Pages!Opens(s, Pages!Page("queue", x)) <=> Pages!CanViewFacility(s, x)
  BY DEF Pages!Opens, Pages!Page
<1>4. Pages!Opens(s, Pages!Page("station", x)) <=> Pages!CanViewStationPage(s, x)
  BY DEF Pages!Opens, Pages!Page
<1>5. Pages!Opens(s, Pages!Page("vehicle", x))
        <=> Pages!CanViewFleet(s) /\ Pages!CanViewVehiclePage(s, x)
  BY DEF Pages!Opens, Pages!Page
<1>6. Pages!Opens(s, Pages!Page("order", x)) <=> Pages!CanViewFacility(s, origin[x])
  BY DEF Pages!Opens, Pages!Page
<1>7. Pages!Opens(s, Pages!Page("weigh", x)) <=> Pages!CanViewTripDetail(s, x)
  BY DEF Pages!Opens, Pages!Page
<1> QED
  BY <1>1, <1>2, <1>3, <1>4, <1>5, <1>6, <1>7

LEMMA ListsOpen ==
  ASSUME NEW s
  PROVE  /\ Pages!Opens(s, Pages!Home) <=> Pages!LandingPath(s) = Pages!Home
         /\ Pages!Opens(s, Pages!StationList)
              <=> Pages!CanViewStationPages(s) /\ Pages!StationRows(s).open
         /\ Pages!Opens(s, Pages!FleetList) <=> Pages!FleetRows(s).open
         /\ Pages!Opens(s, Pages!TripList) <=> Pages!TripRows(s).open
         /\ Pages!Opens(s, Pages!OrderQueues) <=> Pages!CanViewDeliveryOrderPages(s)
         /\ Pages!Opens(s, Pages!UserList) <=> Pages!CanManageUsers(s)
<1>1. Pages!Opens(s, Pages!Home) <=> Pages!LandingPath(s) = Pages!Home
  BY DEF Pages!Opens, Pages!Page, Pages!Home
<1>2. Pages!Opens(s, Pages!StationList)
        <=> Pages!CanViewStationPages(s) /\ Pages!StationRows(s).open
  BY DEF Pages!Opens, Pages!Page, Pages!StationList
<1>3. Pages!Opens(s, Pages!FleetList) <=> Pages!FleetRows(s).open
  BY DEF Pages!Opens, Pages!Page, Pages!FleetList
<1>4. Pages!Opens(s, Pages!TripList) <=> Pages!TripRows(s).open
  BY DEF Pages!Opens, Pages!Page, Pages!TripList
<1>5. Pages!Opens(s, Pages!OrderQueues) <=> Pages!CanViewDeliveryOrderPages(s)
  BY DEF Pages!Opens, Pages!Page, Pages!OrderQueues
<1>6. Pages!Opens(s, Pages!UserList) <=> Pages!CanManageUsers(s)
  BY DEF Pages!Opens, Pages!Page, Pages!UserList
<1> QED
  BY <1>1, <1>2, <1>3, <1>4, <1>5, <1>6

\* Without a scope of its own the best grant gets no list.
LEMMA NoRows ==
  ASSUME NEW s
  PROVE  LET best == Pages!BestRole(s) IN
         /\ ~Pages!IsSystem(best) /\ ~Pages!OfRefinery(best) /\ ~Pages!OfFacility(best)
              /\ ~Pages!OfStation(best) =>
              Pages!StationRows(s) = Pages!Refused /\ Pages!TripRows(s) = Pages!Refused
         /\ ~Pages!IsSystem(best) /\ ~Pages!OfRefinery(best) /\ ~Pages!OfFacility(best)
              /\ ~Pages!OfDepot(best) =>
              Pages!FleetRows(s) = Pages!Refused
BY DEF Pages!StationRows, Pages!TripRows, Pages!FleetRows

\* A driver, or one without grants, gets no list.
LEMMA DriversGetNoRows ==
  ASSUME NEW s, Pages!BestRole(s).role \in {"DRIVER", "NOBODY"}
  PROVE  /\ Pages!StationRows(s) = Pages!Refused /\ Pages!TripRows(s) = Pages!Refused
         /\ Pages!FleetRows(s) = Pages!Refused
BY NoRows DEF Pages!IsSystem, Pages!OfRefinery, Pages!OfFacility, Pages!OfDepot,
   Pages!OfStation, Pages!FacilityRoles

LEMMA StationRowsOpen ==
  ASSUME Pages!PagesAssumption, NEW s \in Seq(Offered), Pages!WellScoped(s),
         NEW t \in Pages!StationRows(s).rows
  PROVE  Pages!CanViewStationPage(s, t)
<1>0. Pages!BestRole(s).role \notin {"DRIVER", "NOBODY"}
  BY DriversGetNoRows DEF Pages!Refused
<1>1. PICK i \in DOMAIN s :
        /\ Pages!BestRole(s) = s[i]
        /\ \/ Pages!IsSystem(s[i]) \/ Pages!OfRefinery(s[i]) \/ Pages!OfFacility(s[i])
           \/ Pages!OfDepot(s[i]) \/ Pages!OfStation(s[i])
  BY <1>0, BestIsScoped
<1> DEFINE best == Pages!BestRole(s)
<1>2. CASE Pages!IsSystem(best)
  BY <1>1, <1>2 DEF Pages!CanViewStationPage
<1>3. CASE Pages!OfRefinery(best)
  <2>1. t \in Pages!ListStationsByRefinery(best.id)
    BY <1>3 DEF Pages!StationRows, Pages!Rows, Pages!OfRefinery, Pages!IsSystem,
       Pages!OfFacility, Pages!OfStation, Pages!FacilityRoles
  <2> QED
    BY <1>1, <1>3, <2>1 DEF Pages!CanViewStationPage, Pages!ListStationsByRefinery
<1>4. CASE Pages!OfFacility(best)
  <2>1. t \in Pages!ListStationsServedByFacility(best.id)
    BY <1>4 DEF Pages!StationRows, Pages!Rows, Pages!OfRefinery, Pages!IsSystem,
       Pages!OfFacility, Pages!OfStation, Pages!FacilityRoles
  <2> QED
    BY <1>1, <1>4, <2>1 DEF Pages!CanViewStationPage
<1>5. CASE Pages!OfStation(best)
  <2>1. t \in Pages!ListStationsByStation(best.id)
    BY <1>5 DEF Pages!StationRows, Pages!Rows, Pages!OfRefinery, Pages!IsSystem,
       Pages!OfFacility, Pages!OfStation, Pages!FacilityRoles
  <2> QED
    BY <1>1, <1>5, <2>1 DEF Pages!CanViewStationPage, Pages!ListStationsByStation
<1>6. CASE Pages!OfDepot(best)
  BY <1>6 DEF Pages!StationRows, Pages!Rows, Pages!Refused, Pages!OfRefinery,
     Pages!IsSystem, Pages!OfFacility, Pages!OfStation,
              Pages!OfDepot, Pages!FacilityRoles
<1> QED
  BY <1>1, <1>2, <1>3, <1>4, <1>5, <1>6

LEMMA FleetRowsOpen ==
  ASSUME Pages!PagesAssumption, NEW s \in Seq(Offered), Pages!WellScoped(s),
         NEW v \in Pages!FleetRows(s).rows
  PROVE  Pages!CanViewFleet(s) /\ Pages!CanViewVehiclePage(s, v)
<1>0. Pages!BestRole(s).role \notin {"DRIVER", "NOBODY"}
  BY DriversGetNoRows DEF Pages!Refused
<1>1. PICK i \in DOMAIN s :
        /\ Pages!BestRole(s) = s[i]
        /\ \/ Pages!IsSystem(s[i]) \/ Pages!OfRefinery(s[i]) \/ Pages!OfFacility(s[i])
           \/ Pages!OfDepot(s[i]) \/ Pages!OfStation(s[i])
  BY <1>0, BestIsScoped
<1> DEFINE best == Pages!BestRole(s)
<1>2. CASE Pages!IsSystem(best)
  BY <1>1, <1>2 DEF Pages!CanViewVehiclePage, Pages!CanViewFleet, Pages!HasRole,
     Pages!AdminRoles, Pages!IsSystem
<1>3. CASE Pages!OfRefinery(best)
  <2>1. v \in Pages!ListVehiclesByRefinery(best.id)
    BY <1>3 DEF Pages!FleetRows, Pages!Rows, Pages!OfRefinery, Pages!IsSystem,
       Pages!OfFacility, Pages!OfDepot, Pages!FacilityRoles
  <2>2. Pages!CanViewFleet(s)
    BY <1>1, <1>3 DEF Pages!CanViewFleet, Pages!HasRole, Pages!AdminRoles, Pages!OfRefinery
  <2> QED
    BY <1>1, <1>3, <2>1, <2>2 DEF Pages!CanViewVehiclePage, Pages!ListVehiclesByRefinery
<1>4. CASE Pages!OfFacility(best)
  <2>1. v \in Pages!ListVehiclesByFacility(best.id)
    BY <1>4 DEF Pages!FleetRows, Pages!Rows, Pages!OfRefinery, Pages!IsSystem,
       Pages!OfFacility, Pages!OfDepot, Pages!FacilityRoles
  <2>2. Pages!CanViewFleet(s)
    BY <1>1, <1>4 DEF Pages!CanViewFleet, Pages!HasRole, Pages!OfFacility
  <2> QED
    BY <1>1, <1>4, <2>1, <2>2 DEF Pages!CanViewVehiclePage, Pages!ListVehiclesByFacility
<1>5. CASE Pages!OfDepot(best)
  <2>1. v \in Pages!ListVehiclesByDepot(best.id)
    BY <1>5 DEF Pages!FleetRows, Pages!Rows, Pages!OfRefinery, Pages!IsSystem,
       Pages!OfFacility, Pages!OfDepot, Pages!FacilityRoles
  <2>2. Pages!CanViewFleet(s) /\ best.id # None
    BY <1>0, <1>1, <1>5, BestIsScoped DEF Pages!CanViewFleet, Pages!HasRole, Pages!OfDepot
  <2> QED
    BY <1>1, <1>5, <2>1, <2>2 DEF Pages!CanViewVehiclePage, Pages!ListVehiclesByDepot
<1>6. CASE Pages!OfStation(best)
  BY <1>6 DEF Pages!FleetRows, Pages!Rows, Pages!Refused, Pages!OfRefinery,
     Pages!IsSystem, Pages!OfFacility, Pages!OfStation,
              Pages!OfDepot, Pages!FacilityRoles
<1> QED
  BY <1>1, <1>2, <1>3, <1>4, <1>5, <1>6

LEMMA TripRowsOpen ==
  ASSUME Pages!PagesAssumption, NEW s \in Seq(Offered), Pages!WellScoped(s),
         NEW o \in Pages!TripRows(s).rows
  PROVE  Pages!CanViewTripDetail(s, o)
<1>0. Pages!BestRole(s).role \notin {"DRIVER", "NOBODY"}
  BY DriversGetNoRows DEF Pages!Refused
<1>1. PICK i \in DOMAIN s :
        /\ Pages!BestRole(s) = s[i] /\ s[i].id # None
        /\ \/ Pages!IsSystem(s[i]) \/ Pages!OfRefinery(s[i]) \/ Pages!OfFacility(s[i])
           \/ Pages!OfDepot(s[i]) \/ Pages!OfStation(s[i])
  BY <1>0, BestIsScoped
<1> DEFINE best == Pages!BestRole(s)
<1>2. CASE Pages!IsSystem(best) \/ Pages!OfRefinery(best)
  <2>1. Pages!HasRole(s, Pages!AdminRoles)
    BY <1>1, <1>2 DEF Pages!HasRole, Pages!AdminRoles, Pages!IsSystem, Pages!OfRefinery
  <2> QED
    BY <2>1, AdminsViewAll
<1>3. CASE Pages!OfFacility(best)
  <2>1. o \in Pages!ListTripsByFacility(best.id)
    BY <1>3 DEF Pages!TripRows, Pages!Rows, Pages!OfRefinery, Pages!IsSystem,
       Pages!OfFacility, Pages!OfStation, Pages!FacilityRoles
  <2> QED
    BY <1>1, <1>3, <2>1 DEF Pages!CanViewTripDetail, Pages!CanViewFacility,
       Pages!ListTripsByFacility
<1>4. CASE Pages!OfStation(best)
  <2>1. o \in Pages!ListTripsByStation(best.id)
    BY <1>4 DEF Pages!TripRows, Pages!Rows, Pages!OfRefinery, Pages!IsSystem,
       Pages!OfFacility, Pages!OfStation, Pages!FacilityRoles
  <2> QED
    BY <1>1, <1>4, <2>1 DEF Pages!CanViewTripDetail, Pages!CanViewStation,
       Pages!ListTripsByStation
<1>5. CASE Pages!OfDepot(best)
  BY <1>5 DEF Pages!TripRows, Pages!Rows, Pages!Refused, Pages!OfRefinery,
     Pages!IsSystem, Pages!OfFacility, Pages!OfStation,
              Pages!OfDepot, Pages!FacilityRoles
<1> QED
  BY <1>1, <1>2, <1>3, <1>4, <1>5

LEMMA RedirectsOf ==
  ASSUME NEW s
  PROVE  /\ Pages!Redirect(s, Pages!Home) = Pages!LandingPath(s)
         /\ Pages!Redirect(s, Pages!OrderQueues) =
              IF Pages!FacilityScope(s) # Pages!Nobody
               THEN Pages!Page("queue", Pages!FacilityScope(s).id)
              ELSE Pages!OrderQueues
         /\ \A p : p.kind \notin {"home", "delivery-orders"} => Pages!Redirect(s, p) = p
<1>1. Pages!Redirect(s, Pages!Home) = Pages!LandingPath(s)
  BY DEF Pages!Redirect, Pages!Home, Pages!OrderQueues, Pages!Page
<1>2. Pages!Redirect(s, Pages!OrderQueues) =
        IF Pages!FacilityScope(s) # Pages!Nobody
        THEN Pages!Page("queue", Pages!FacilityScope(s).id) ELSE Pages!OrderQueues
  BY DEF Pages!Redirect, Pages!Home, Pages!OrderQueues, Pages!Page
<1>3. ASSUME NEW p, p.kind \notin {"home", "delivery-orders"} PROVE Pages!Redirect(s, p) = p
  <2>1. p # Pages!Home /\ p # Pages!OrderQueues
    BY <1>3, KindsOfPages
  <2> QED
    BY <2>1 DEF Pages!Redirect
<1> QED
  BY <1>1, <1>2, <1>3

LEMMA StationsOpenToTheirs ==
  ASSUME NEW s, NEW i \in DOMAIN s, Pages!OfStation(s[i])
  PROVE  Pages!CanViewStationPage(s, s[i].id)
BY DEF Pages!CanViewStationPage

LEMMA FacilitiesOpenToTheirs ==
  ASSUME NEW s, NEW i \in DOMAIN s, Pages!OfFacility(s[i])
  PROVE  Pages!CanViewFacility(s, s[i].id)
BY DEF Pages!CanViewFacility

\* The lists that open by the best grant.
LEMMA BestOpensLists ==
  ASSUME NEW s
  PROVE  LET best == Pages!BestRole(s) IN
         /\ Pages!IsSystem(best) \/ Pages!OfRefinery(best) \/ Pages!OfFacility(best)
              \/ Pages!OfStation(best) =>
              Pages!StationRows(s).open /\ Pages!TripRows(s).open
         /\ Pages!IsSystem(best) \/ Pages!OfRefinery(best) \/ Pages!OfFacility(best)
              \/ Pages!OfDepot(best) =>
              Pages!FleetRows(s).open
BY DEF Pages!StationRows, Pages!TripRows, Pages!FleetRows, Pages!Rows

LEMMA LandingsOpen ==
  ASSUME Pages!PagesAssumption, NEW s \in Seq(Offered), Pages!WellScoped(s)
  PROVE  Pages!Redirect(s, Pages!LandingPath(s)) = Pages!LandingPath(s)
           /\ Pages!Opens(s, Pages!LandingPath(s))
<1> DEFINE facility == Pages!FirstOf(s, Pages!OfFacility)
           station == Pages!FirstOf(s, Pages!OfStation)
<1>1. CASE Pages!LandingPath(s) = Pages!Home
  BY <1>1, RedirectsOf, ListsOpen
<1>2. CASE ~Pages!HasRole(s, Pages!AdminRoles) /\ facility # Pages!Nobody
  <2>1. Pages!LandingPath(s) = Pages!Page("facility", facility.id)
    BY <1>2 DEF Pages!LandingPath
  <2>2. Pages!CanViewFacility(s, facility.id)
    BY <1>2, FirstFacility, FacilitiesOpenToTheirs
  <2> QED
    BY <2>1, <2>2, RedirectsOf, ItemsOpen, KindsOfPages
<1>3. CASE ~Pages!HasRole(s, Pages!AdminRoles) /\ facility = Pages!Nobody
        /\ station # Pages!Nobody
  <2>1. Pages!LandingPath(s) = Pages!Page("station", station.id)
    BY <1>3 DEF Pages!LandingPath
  <2>2. Pages!CanViewStationPage(s, station.id)
    BY <1>3, FirstStation, StationsOpenToTheirs
  <2> QED
    BY <2>1, <2>2, RedirectsOf, ItemsOpen, KindsOfPages
<1>4. CASE ~Pages!HasRole(s, Pages!AdminRoles) /\ facility = Pages!Nobody
        /\ station = Pages!Nobody
           /\ Pages!HasRole(s, {"DEPOT_STAFF"})
  <2>1. Pages!LandingPath(s) = Pages!FleetList
    BY <1>4 DEF Pages!LandingPath
  <2>0. PICK d \in DOMAIN s : s[d].role = "DEPOT_STAFF"
    BY <1>4 DEF Pages!HasRole
  <2>2. PICK i \in DOMAIN s :
          /\ Pages!BestRole(s) = s[i]
          /\ \/ Pages!IsSystem(s[i]) \/ Pages!OfRefinery(s[i]) \/ Pages!OfFacility(s[i])
             \/ Pages!OfDepot(s[i]) \/ Pages!OfStation(s[i])
    BY <2>0, BestIsNoDriver, BestIsScoped
  <2>3. ~Pages!OfStation(s[i])
    BY <1>4, FirstStation
  <2>4. Pages!FleetRows(s).open
    BY <2>2, <2>3, BestOpensLists
  <2> QED
    BY <2>1, <2>4, RedirectsOf, ListsOpen, KindsOfPages
<1> QED
  BY <1>1, <1>2, <1>3, <1>4 DEF Pages!LandingPath

-------------------------------------------------------------------------------
(* Where the links and the navigation lead. *)

\* An item's page sends nobody on.
LEMMA ItemsArrive ==
  ASSUME NEW s, NEW x,
         NEW k \in {"facility", "queue", "station", "vehicle", "order", "trip", "weigh"}
  PROVE  Pages!Arrives(s, Pages!Page(k, x)) <=> Pages!Opens(s, Pages!Page(k, x))
<1>1. Pages!Redirect(s, Pages!Page(k, x)) = Pages!Page(k, x)
  BY RedirectsOf, KindsOfPages
<1> QED
  BY <1>1 DEF Pages!Arrives

LEMMA HomeArrives ==
  ASSUME Pages!PagesAssumption, NEW s \in Seq(Offered), Pages!WellScoped(s)
  PROVE  Pages!Arrives(s, Pages!Home)
BY LandingsOpen, RedirectsOf DEF Pages!Arrives

LEMMA QueuesArrive ==
  ASSUME NEW s \in Seq(Offered), Pages!CanViewDeliveryOrderPages(s)
  PROVE  Pages!Arrives(s, Pages!OrderQueues)
<1>1. CASE Pages!FacilityScope(s) # Pages!Nobody
  <2>1. Pages!CanViewFacility(s, Pages!FacilityScope(s).id)
    BY <1>1, FirstFacility, FacilitiesOpenToTheirs DEF Pages!FacilityScope
  <2> QED
    BY <1>1, <2>1, RedirectsOf, ItemsOpen DEF Pages!Arrives
<1>2. CASE Pages!FacilityScope(s) = Pages!Nobody
  BY <1>2, RedirectsOf, ListsOpen DEF Pages!Arrives
<1> QED
  BY <1>1, <1>2

\* Who sees a facility sees the queues of the orders.
LEMMA FacilitySeesQueues ==
  ASSUME NEW s, NEW f, Pages!CanViewFacility(s, f)
  PROVE  Pages!CanViewDeliveryOrderPages(s)
BY DEF Pages!CanViewFacility, Pages!CanViewDeliveryOrderPages, Pages!HasRole,
   Pages!OfFacility

\* Who opens a station, a trip or a vehicle may go back to its list, depot staff
\* excepted where the list has nothing for them.
LEMMA StationListArrives ==
  ASSUME Pages!PagesAssumption, NEW s \in Seq(Offered), Pages!WellScoped(s),
         NEW t, Pages!CanViewStationPage(s, t), ~Pages!OfDepot(Pages!BestRole(s))
  PROVE  Pages!Arrives(s, Pages!StationList)
<1>1. PICK i \in DOMAIN s :
        Pages!IsSystem(s[i]) \/ Pages!OfRefinery(s[i]) \/ Pages!OfFacility(s[i])
          \/ Pages!OfStation(s[i])
  BY DEF Pages!CanViewStationPage
<1>2. s[i].role # "DRIVER"
  BY <1>1 DEF Pages!IsSystem, Pages!OfRefinery, Pages!OfFacility, Pages!OfStation,
     Pages!FacilityRoles
<1>3. Pages!StationRows(s).open
  BY <1>2, BestIsNoDriver, BestIsScoped, BestOpensLists
<1>4. Pages!CanViewStationPages(s)
  BY <1>1 DEF Pages!CanViewStationPages, Pages!HasRole, Pages!AdminRoles, Pages!IsSystem,
     Pages!OfRefinery, Pages!OfFacility, Pages!OfStation
<1> QED
  BY <1>3, <1>4, RedirectsOf, ListsOpen, KindsOfPages DEF Pages!Arrives

LEMMA TripListArrives ==
  ASSUME Pages!PagesAssumption, NEW s \in Seq(Offered), Pages!WellScoped(s),
         NEW o, Pages!CanViewTripDetail(s, o), ~Pages!OfDepot(Pages!BestRole(s))
  PROVE  Pages!Arrives(s, Pages!TripList)
<1>1. PICK i \in DOMAIN s :
        s[i].role \in Pages!AdminRoles \/ Pages!OfFacility(s[i]) \/ Pages!OfStation(s[i])
  BY DEF Pages!CanViewTripDetail, Pages!CanViewFacility, Pages!CanViewStation, Pages!HasRole
<1>2. s[i].role # "DRIVER"
  BY <1>1 DEF Pages!AdminRoles, Pages!OfFacility, Pages!OfStation, Pages!FacilityRoles
<1>3. Pages!TripRows(s).open
  BY <1>2, BestIsNoDriver, BestIsScoped, BestOpensLists
<1> QED
  BY <1>3, RedirectsOf, ListsOpen, KindsOfPages DEF Pages!Arrives

LEMMA FleetListArrives ==
  ASSUME Pages!PagesAssumption, NEW s \in Seq(Offered), Pages!WellScoped(s),
         NEW v, Pages!CanViewVehiclePage(s, v)
  PROVE  Pages!Arrives(s, Pages!FleetList)
<1>1. PICK i \in DOMAIN s :
        Pages!IsSystem(s[i]) \/ Pages!OfRefinery(s[i]) \/ Pages!OfFacility(s[i])
          \/ Pages!OfDepot(s[i])
  BY DEF Pages!CanViewVehiclePage
<1>2. s[i].role \notin {"DRIVER", "STATION_MANAGER"}
  BY <1>1 DEF Pages!IsSystem, Pages!OfRefinery, Pages!OfFacility, Pages!OfDepot,
     Pages!FacilityRoles
<1>3. ~Pages!OfStation(Pages!BestRole(s))
  BY <1>2, BestIsNoDriver DEF Pages!OfStation
<1>4. Pages!FleetRows(s).open
  BY <1>2, <1>3, BestIsNoDriver, BestIsScoped, BestOpensLists
<1> QED
  BY <1>4, RedirectsOf, ListsOpen, KindsOfPages DEF Pages!Arrives

\* The links of a page that lists items.
LEMMA ListLinksLead ==
  ASSUME Pages!PagesAssumption, NEW s \in Seq(Offered), Pages!WellScoped(s),
         NEW p \in Pages!ListPages,
         Pages!Opens(s, p), Pages!Redirect(s, p) = p, NEW q \in Pages!Links(s, p)
  PROVE  Pages!Arrives(s, q) \/ Pages!KnownRefusal(s, p, q)
<1>1. CASE p = Pages!Home
  <2>1. Pages!HasRole(s, Pages!AdminRoles) \/ \A i \in DOMAIN s : s[i].role = "DRIVER"
    BY <1>1, HomeIsForAdmins, ListsOpen
  <2>2. q \in Pages!HomeLinks
    BY <1>1 DEF Pages!Links, Pages!Home, Pages!Page
  <2>3. PICK f \in Facilities : q = Pages!Page("facility", f)
    BY <2>2 DEF Pages!HomeLinks
  <2>4. CASE Pages!HasRole(s, Pages!AdminRoles)
    BY <2>3, <2>4, AdminsViewAll, ItemsOpen, ItemsArrive
  <2> QED
    BY <1>1, <2>1, <2>4 DEF Pages!KnownRefusal
<1>2. CASE p = Pages!StationList
  <2>1. q \in Pages!StationListLinks(s)
    BY <1>2 DEF Pages!Links, Pages!StationList, Pages!Page
  <2>2. PICK t \in Pages!StationRows(s).rows : q = Pages!Page("station", t)
    BY <2>1 DEF Pages!StationListLinks
  <2> QED
    BY <2>2, StationRowsOpen, ItemsOpen, ItemsArrive
<1>3. CASE p = Pages!FleetList
  <2>1. q \in Pages!FleetLinks(s)
    BY <1>3 DEF Pages!Links, Pages!FleetList, Pages!Page
  <2>2. PICK v \in Pages!FleetRows(s).rows : q = Pages!Page("vehicle", v)
    BY <2>1 DEF Pages!FleetLinks
  <2> QED
    BY <2>2, FleetRowsOpen, ItemsOpen, ItemsArrive
<1>4. CASE p = Pages!TripList
  <2>1. q \in Pages!TripListLinks(s)
    BY <1>4 DEF Pages!Links, Pages!TripList, Pages!Page
  <2>2. PICK o \in Pages!TripRows(s).rows : q = Pages!Page("trip", o)
    BY <2>1 DEF Pages!TripListLinks
  <2> QED
    BY <2>2, TripRowsOpen, ItemsOpen, ItemsArrive
<1>5. CASE p = Pages!OrderQueues
  <2>1. Pages!FacilityScope(s) = Pages!Nobody
    BY <1>5, RedirectsOf, KindsOfPages
  <2>2. \A i \in DOMAIN s : ~Pages!OfFacility(s[i])
    BY <2>1, FirstFacility DEF Pages!FacilityScope
  <2>3. Pages!HasRole(s, Pages!AdminRoles \cup Pages!FacilityRoles)
    BY <1>5, ListsOpen DEF Pages!CanViewDeliveryOrderPages
  <2>4. Pages!HasRole(s, Pages!AdminRoles)
    BY <2>2, <2>3 DEF Pages!HasRole, Pages!WellScoped, Pages!AdminRoles,
       Pages!FacilityRoles, Pages!IsSystem, Pages!OfRefinery, Pages!OfDepot, Pages!OfStation
  <2>5. q \in Pages!QueuesLinks
    BY <1>5 DEF Pages!Links, Pages!OrderQueues, Pages!Page
  <2>6. PICK f \in Facilities : q = Pages!Page("queue", f)
    BY <2>5 DEF Pages!QueuesLinks
  <2> QED
    BY <2>4, <2>6, AdminsViewAll, ItemsOpen, ItemsArrive
<1> QED
  BY <1>1, <1>2, <1>3, <1>4, <1>5 DEF Pages!ListPages

\* The links of the pages of a facility, of its queue and of an order.
LEMMA OrderLinksLead ==
  ASSUME Pages!PagesAssumption, NEW s \in Seq(Offered), Pages!WellScoped(s),
         NEW k \in {"facility", "queue", "order"}, NEW x,
         Pages!Opens(s, Pages!Page(k, x)), NEW q \in Pages!Links(s, Pages!Page(k, x))
  PROVE  Pages!Arrives(s, q)
<1>1. CASE k = "facility"
  <2>1. q \in Pages!FacilityLinks
    BY <1>1, KindsOfPages DEF Pages!Links
  <2> QED
    BY <2>1, HomeArrives DEF Pages!FacilityLinks
<1>2. CASE k = "queue"
  <2>1. q \in Pages!QueueLinks(x)
    BY <1>2, KindsOfPages DEF Pages!Links
  <2>2. Pages!CanViewFacility(s, x)
    BY <1>2, ItemsOpen
  <2>3. CASE q = Pages!OrderQueues
    BY <2>2, <2>3, FacilitySeesQueues, QueuesArrive
  <2>4. ASSUME NEW o \in Pages!ListDOsByOriginFacility(x), q = Pages!Page("order", o)
        PROVE  Pages!Arrives(s, q)
    <3>1. origin[o] = x
      BY <2>4 DEF Pages!ListDOsByOriginFacility
    <3> QED
      BY <2>2, <2>4, <3>1, ItemsOpen, ItemsArrive
  <2> QED
    BY <2>1, <2>3, <2>4 DEF Pages!QueueLinks
<1>3. CASE k = "order"
  <2>1. q \in Pages!OrderLinks(x)
    BY <1>3, KindsOfPages DEF Pages!Links
  <2>2. Pages!CanViewFacility(s, origin[x])
    BY <1>3, ItemsOpen
  <2>3. CASE q = Pages!OrderQueues
    BY <2>2, <2>3, FacilitySeesQueues, QueuesArrive
  <2>4. CASE q = Pages!Page("queue", origin[x])
    BY <2>2, <2>4, ItemsOpen, ItemsArrive
  <2>5. CASE q = Pages!Page("trip", x)
    BY <2>2, <2>5, ItemsOpen, ItemsArrive DEF Pages!CanViewTripDetail
  <2> QED
    BY <2>1, <2>3, <2>4, <2>5 DEF Pages!OrderLinks
<1> QED
  BY <1>1, <1>2, <1>3

\* The links of the pages of a trip, of its weighing, of a vehicle and of a
\* station.
LEMMA TripLinksLead ==
  ASSUME Pages!PagesAssumption, NEW s \in Seq(Offered), Pages!WellScoped(s),
         NEW k \in {"trip", "weigh"}, NEW x,
         Pages!Opens(s, Pages!Page(k, x)), NEW q \in Pages!Links(s, Pages!Page(k, x))
  PROVE  Pages!Arrives(s, q) \/ Pages!KnownRefusal(s, Pages!Page(k, x), q)
<1>1. Pages!CanViewTripDetail(s, x)
  BY ItemsOpen
<1>2. CASE q = Pages!TripList
  BY <1>1, <1>2, TripListArrives DEF Pages!KnownRefusal
<1>3. CASE q = Pages!Page("trip", x) \/ q = Pages!Page("weigh", x)
  BY <1>1, <1>3, ItemsOpen, ItemsArrive
<1>4. CASE k = "trip" /\ q = Pages!Page("order", x)
  <2>1. CASE Pages!CanViewFacility(s, origin[x])
    BY <1>4, <2>1, ItemsOpen, ItemsArrive
  <2>2. CASE ~Pages!CanViewFacility(s, origin[x])
    <3>1. Pages!HasRole(s, {"STATION_MANAGER"})
      BY <1>1, <2>2 DEF Pages!CanViewTripDetail, Pages!CanViewFacility,
         Pages!CanViewStation, Pages!HasRole, Pages!OfStation
    <3> QED
      BY <1>4, <3>1, KindsOfPages DEF Pages!KnownRefusal
  <2> QED
    BY <2>1, <2>2
<1>5. \/ k = "trip" /\ q \in Pages!TripLinks(x)
      \/ k = "weigh" /\ q \in Pages!WeighLinks(x)
  BY KindsOfPages DEF Pages!Links
<1> QED
  BY <1>2, <1>3, <1>4, <1>5 DEF Pages!TripLinks, Pages!WeighLinks

LEMMA PlaceLinksLead ==
  ASSUME Pages!PagesAssumption, NEW s \in Seq(Offered), Pages!WellScoped(s),
         NEW k \in {"vehicle", "station"}, NEW x,
         Pages!Opens(s, Pages!Page(k, x)), NEW q \in Pages!Links(s, Pages!Page(k, x))
  PROVE  Pages!Arrives(s, q) \/ Pages!KnownRefusal(s, Pages!Page(k, x), q)
<1>1. ASSUME NEW o, q = Pages!Page("trip", o)
      PROVE  Pages!Arrives(s, q) \/ Pages!KnownRefusal(s, Pages!Page(k, x), q)
  <2>1. CASE Pages!HasRole(s, Pages!AdminRoles)
    BY <1>1, <2>1, AdminsViewAll, ItemsOpen, ItemsArrive
  <2>2. CASE ~Pages!HasRole(s, Pages!AdminRoles)
    BY <1>1, <2>2, KindsOfPages DEF Pages!KnownRefusal
  <2> QED
    BY <2>1, <2>2
<1>2. CASE k = "vehicle"
  <2>1. q \in Pages!VehicleLinks(x)
    BY <1>2, KindsOfPages DEF Pages!Links
  <2>2. q = Pages!FleetList => Pages!Arrives(s, q)
    BY <1>2, ItemsOpen, FleetListArrives
  <2> QED
    BY <1>1, <2>1, <2>2 DEF Pages!VehicleLinks
<1>3. CASE k = "station"
  <2>1. q \in Pages!StationLinks(x)
    BY <1>3, KindsOfPages DEF Pages!Links
  <2>2. q = Pages!StationList =>
          Pages!Arrives(s, q) \/ Pages!KnownRefusal(s, Pages!Page(k, x), q)
    BY <1>3, ItemsOpen, StationListArrives DEF Pages!KnownRefusal
  <2> QED
    BY <1>1, <2>1, <2>2 DEF Pages!StationLinks
<1> QED
  BY <1>2, <1>3

\* Every link of every page leads to a page that opens, but for those named.
LEMMA LinksLead ==
  ASSUME Pages!PagesAssumption, NEW s \in Seq(Offered), Pages!WellScoped(s),
         NEW p \in Pages!ListPages \cup Pages!ItemPages,
         Pages!Opens(s, p), Pages!Redirect(s, p) = p, NEW q \in Pages!Links(s, p)
  PROVE  Pages!Arrives(s, q) \/ Pages!KnownRefusal(s, p, q)
<1>1. CASE p \in Pages!ListPages
  BY <1>1, ListLinksLead
<1>2. CASE p \in Pages!ItemPages
  <2>1. /\ p = Pages!Page(p.kind, p.id)
        /\ p.kind \in {"facility", "queue", "station", "vehicle", "order", "trip", "weigh"}
    BY <1>2 DEF Pages!ItemPages, Pages!Page
  <2> DEFINE k == p.kind
             x == p.id
  <2>2. p = Pages!Page(k, x)
          /\ k \in {"facility", "queue", "station", "vehicle", "order", "trip", "weigh"}
    BY <2>1
  <2> HIDE DEF k, x
  <2> QED
    BY <2>2, OrderLinksLead, TripLinksLead, PlaceLinksLead
<1> QED
  BY <1>1, <1>2

LEMMA NavigationOpens ==
  ASSUME Pages!PagesAssumption, NEW s \in Seq(Offered), Len(s) = 1, Pages!WellScoped(s),
         NEW p \in Pages!Nav(s)
  PROVE  Pages!Arrives(s, p)
<1>1. DOMAIN s = {1} /\ s # <<>>
  BY EmptySeq
<1> DEFINE g == s[1]
<1>2. Pages!BestRole(s) = g
  BY <1>1, BestIsHeld
<1>3. Pages!IsSystem(g) \/ Pages!OfRefinery(g) \/ Pages!OfFacility(g)
        \/ Pages!OfDepot(g) \/ Pages!OfStation(g) \/ g.role = "DRIVER"
  BY <1>1 DEF Pages!WellScoped
<1>4. CASE p = Pages!LandingPath(s)
  BY <1>1, <1>4, LandingsOpen DEF Pages!Arrives
<1>5. CASE p = Pages!StationList /\ Pages!CanViewStationPages(s)
  <2>1. Pages!IsSystem(g) \/ Pages!OfRefinery(g) \/ Pages!OfFacility(g)
          \/ Pages!OfStation(g)
    BY <1>1, <1>3, <1>5 DEF Pages!CanViewStationPages, Pages!HasRole, Pages!AdminRoles,
       Pages!FacilityRoles, Pages!OfDepot
  <2> QED
    BY <1>2, <1>5, <2>1, BestOpensLists, RedirectsOf, ListsOpen,
       KindsOfPages DEF Pages!Arrives
<1>6. CASE p = Pages!FleetList /\ Pages!CanViewFleet(s)
  <2>1. Pages!IsSystem(g) \/ Pages!OfRefinery(g) \/ Pages!OfFacility(g) \/ Pages!OfDepot(g)
    BY <1>1, <1>3, <1>6 DEF Pages!CanViewFleet, Pages!HasRole, Pages!AdminRoles,
       Pages!FacilityRoles, Pages!OfStation
  <2> QED
    BY <1>2, <1>6, <2>1, BestOpensLists, RedirectsOf, ListsOpen,
       KindsOfPages DEF Pages!Arrives
<1>7. CASE p = Pages!UserList /\ Pages!CanManageUsers(s)
  BY <1>7, RedirectsOf, ListsOpen, KindsOfPages DEF Pages!Arrives
<1>8. CASE p = Pages!OrderQueues /\ Pages!CanViewDeliveryOrderPages(s)
  BY <1>8, QueuesArrive
<1>9. CASE p = Pages!TripList /\ Pages!CanViewTripPages(s)
  <2>1. Pages!IsSystem(g) \/ Pages!OfRefinery(g) \/ Pages!OfFacility(g)
          \/ Pages!OfStation(g)
    BY <1>1, <1>3, <1>9 DEF Pages!CanViewTripPages, Pages!HasRole, Pages!AdminRoles,
       Pages!FacilityRoles, Pages!OfDepot
  <2> QED
    BY <1>2, <1>9, <2>1, BestOpensLists, RedirectsOf, ListsOpen,
       KindsOfPages DEF Pages!Arrives
<1> QED
  BY <1>4, <1>5, <1>6, <1>7, <1>8, <1>9 DEF Pages!Nav

LEMMA ShownOpensWhenListed == Pages!PagesAssumption /\ PagesInv => Pages!ShownOpens
<1> SUFFICES ASSUME Pages!PagesAssumption, PagesInv PROVE Pages!ShownOpens
  OBVIOUS
<1>1. Pages!LoggedIn => session \in Seq(Offered)
  BY DEF PagesInv, SessionsAreLists, Pages!LoggedIn
<1>2. Pages!LinksOpen
  BY <1>1, LinksLead DEF Pages!LinksOpen
<1>3. Pages!LandingOpens
  BY <1>1, LandingsOpen DEF Pages!LandingOpens
<1>4. Pages!OneGrantNavigates
  BY <1>1, NavigationOpens DEF Pages!OneGrantNavigates
<1> QED
  BY <1>2, <1>3, <1>4 DEF Pages!ShownOpens

\* Whatever a user is shown or sent to opens, but for the refusals named, for any
\* grants in any order and any network: the page's rule, any grant's coverage, is
\* never narrower than the list's, the best grant's query.
THEOREM WhatIsShownOpens == Pages!PagesAssumption => (Pages!Spec => []ShownOpens)
<1> SUFFICES ASSUME Pages!PagesAssumption PROVE Pages!Spec => []ShownOpens
  OBVIOUS
<1>1. PagesInv => ShownOpens
  BY ShownOpensWhenListed DEF ShownOpens
<1> QED
  BY <1>1, PagesInvariant, PTL

-------------------------------------------------------------------------------
(* The two copies of the rules. *)

\* The grants by which the API's routes answer, of those that have a scope.
LEMMA RouteGrants ==
  ASSUME NEW s, Pages!WellScoped(s), NEW x
  PROVE  /\ Pages!RequiredRole(s, "FACILITY_OPERATOR", "FACILITY", x) <=>
              \E i \in DOMAIN s :
                \/ Pages!IsSystem(s[i])
                \/ Pages!OfRefinery(s[i]) /\ RefineryOf[x] = s[i].id
                \/ Pages!OfFacility(s[i]) /\ s[i].id = x
         /\ Pages!RequiredRole(s, "STATION_MANAGER", "STATION", x) <=>
              \E i \in DOMAIN s :
                \/ Pages!IsSystem(s[i])
                \/ Pages!OfRefinery(s[i]) /\ RefineryOf[primary[x]] = s[i].id
                \/ Pages!OfFacility(s[i]) /\ primary[x] = s[i].id
                \/ Pages!OfStation(s[i]) /\ s[i].id = x
<1>1. Pages!FacilityOf("STATION", x) = primary[x] /\ Pages!FacilityOf("FACILITY", x) = x
  BY DEF Pages!FacilityOf
<1>2. /\ Pages!Rank["FACILITY_OPERATOR"] = 4 /\ Pages!Rank["FACILITY_MANAGER"] = 5
      /\ Pages!Rank["STATION_MANAGER"] = 2 /\ Pages!Rank["DEPOT_STAFF"] = 3
      /\ Pages!Rank["REFINERY_ADMIN"] = 6 /\ Pages!Rank["DRIVER"] = 1
  BY DEF Pages!Rank
<1>3. ASSUME NEW i \in DOMAIN s
      PROVE  /\ (\/ Pages!IsSystem(s[i])
                 \/ /\ Pages!Rank[s[i].role] >= Pages!Rank["FACILITY_OPERATOR"]
                    /\ \/ s[i].scope = "FACILITY" /\ s[i].id = x
                       \/ Pages!OfRefinery(s[i]) /\ RefineryOf[x] = s[i].id)
                <=> (\/ Pages!IsSystem(s[i])
                     \/ Pages!OfRefinery(s[i]) /\ RefineryOf[x] = s[i].id
                     \/ Pages!OfFacility(s[i]) /\ s[i].id = x)
             /\ (\/ Pages!IsSystem(s[i])
                 \/ /\ Pages!Rank[s[i].role] >= Pages!Rank["STATION_MANAGER"]
                    /\ \/ s[i].scope = "STATION" /\ s[i].id = x
                       \/ Pages!OfRefinery(s[i]) /\ RefineryOf[primary[x]] = s[i].id
                       \/ s[i].scope = "FACILITY" /\ primary[x] = s[i].id)
                <=> (\/ Pages!IsSystem(s[i])
                     \/ Pages!OfRefinery(s[i]) /\ RefineryOf[primary[x]] = s[i].id
                     \/ Pages!OfFacility(s[i]) /\ primary[x] = s[i].id
                     \/ Pages!OfStation(s[i]) /\ s[i].id = x)
  <2>1. \/ Pages!IsSystem(s[i]) \/ Pages!OfRefinery(s[i]) \/ Pages!OfFacility(s[i])
        \/ Pages!OfDepot(s[i]) \/ Pages!OfStation(s[i]) \/ s[i].role = "DRIVER"
    BY DEF Pages!WellScoped
  <2> QED
    BY <1>2, <2>1 DEF Pages!OfRefinery, Pages!OfFacility, Pages!FacilityRoles,
       Pages!OfDepot, Pages!OfStation
<1>4. Pages!RequiredRole(s, "FACILITY_OPERATOR", "FACILITY", x) <=>
        \E i \in DOMAIN s :
          \/ Pages!IsSystem(s[i])
          \/ /\ Pages!Rank[s[i].role] >= Pages!Rank["FACILITY_OPERATOR"]
             /\ \/ s[i].scope = "FACILITY" /\ s[i].id = x
                \/ Pages!OfRefinery(s[i]) /\ RefineryOf[x] = s[i].id
  BY <1>1 DEF Pages!RequiredRole
<1>5. Pages!RequiredRole(s, "STATION_MANAGER", "STATION", x) <=>
        \E i \in DOMAIN s :
          \/ Pages!IsSystem(s[i])
          \/ /\ Pages!Rank[s[i].role] >= Pages!Rank["STATION_MANAGER"]
             /\ \/ s[i].scope = "STATION" /\ s[i].id = x
                \/ Pages!OfRefinery(s[i]) /\ RefineryOf[primary[x]] = s[i].id
                \/ s[i].scope = "FACILITY" /\ primary[x] = s[i].id
  BY <1>1 DEF Pages!RequiredRole
<1> QED
  BY <1>3, <1>4, <1>5

\* One of these grants is more than a driver's.
LEMMA RoutesDisallowNone ==
  ASSUME NEW s, NEW i \in DOMAIN s,
         Pages!IsSystem(s[i]) \/ Pages!OfRefinery(s[i]) \/ Pages!OfFacility(s[i])
           \/ Pages!OfStation(s[i])
  PROVE  Pages!DisallowDriver(s)
<1>1. Pages!Rank[s[i].role] > Pages!Rank.DRIVER
  BY DEF Pages!IsSystem, Pages!OfRefinery, Pages!OfFacility, Pages!OfStation,
     Pages!FacilityRoles, Pages!Rank
<1> QED
  BY <1>1 DEF Pages!DisallowDriver

LEMMA FacilityRoutesAgree ==
  ASSUME NEW s, Pages!WellScoped(s), NEW f
  PROVE  Pages!Opens(s, Pages!Page("facility", f)) <=>
           \/ Pages!ApiOpens(s, "FACILITY_OPERATOR", "FACILITY", f)
           \/ Pages!HasRole(s, {"REFINERY_ADMIN"})
<1>1. ASSUME Pages!CanViewFacility(s, f), ~Pages!HasRole(s, {"REFINERY_ADMIN"})
      PROVE  Pages!ApiOpens(s, "FACILITY_OPERATOR", "FACILITY", f)
  <2>1. PICK i \in DOMAIN s :
          Pages!IsSystem(s[i]) \/ (Pages!OfFacility(s[i]) /\ s[i].id = f)
    BY <1>1 DEF Pages!CanViewFacility, Pages!HasRole, Pages!AdminRoles, Pages!IsSystem
  <2>2. Pages!RequiredRole(s, "FACILITY_OPERATOR", "FACILITY", f)
    BY <2>1, RouteGrants
  <2>3. Pages!DisallowDriver(s)
    BY <2>1, RoutesDisallowNone
  <2> QED
    BY <2>2, <2>3 DEF Pages!ApiOpens
<1>2. ASSUME Pages!ApiOpens(s, "FACILITY_OPERATOR", "FACILITY", f)
      PROVE  Pages!CanViewFacility(s, f)
  <2>1. PICK i \in DOMAIN s :
          \/ Pages!IsSystem(s[i]) \/ Pages!OfRefinery(s[i])
          \/ Pages!OfFacility(s[i]) /\ s[i].id = f
    BY <1>2, RouteGrants DEF Pages!ApiOpens
  <2> QED
    BY <2>1 DEF Pages!CanViewFacility, Pages!HasRole, Pages!AdminRoles, Pages!IsSystem,
       Pages!OfRefinery
<1>3. Pages!HasRole(s, {"REFINERY_ADMIN"}) => Pages!CanViewFacility(s, f)
  BY DEF Pages!CanViewFacility, Pages!HasRole, Pages!AdminRoles
<1> QED
  BY <1>1, <1>2, <1>3, ItemsOpen

LEMMA StationRoutesAgree ==
  ASSUME NEW s, Pages!WellScoped(s), NEW t
  PROVE  Pages!Opens(s, Pages!Page("station", t)) <=>
           \/ Pages!ApiOpens(s, "STATION_MANAGER", "STATION", t)
           \/ \E i \in DOMAIN s :
                Pages!OfFacility(s[i]) /\ t \in Pages!ListStationsServedByFacility(s[i].id)
<1> DEFINE Granted(i) == \/ Pages!IsSystem(s[i])
                         \/ Pages!OfRefinery(s[i]) /\ RefineryOf[primary[t]] = s[i].id
                         \/ Pages!OfFacility(s[i]) /\ primary[t] = s[i].id
                         \/ Pages!OfStation(s[i]) /\ s[i].id = t
           Served(i) ==
             Pages!OfFacility(s[i]) /\ t \in Pages!ListStationsServedByFacility(s[i].id)
<1>1. Pages!CanViewStationPage(s, t) <=> \E i \in DOMAIN s : Granted(i) \/ Served(i)
  BY DEF Pages!CanViewStationPage
<1>2. Pages!ApiOpens(s, "STATION_MANAGER", "STATION", t) <=> \E i \in DOMAIN s : Granted(i)
  <2>1. \A i \in DOMAIN s : Granted(i) => Pages!DisallowDriver(s)
    BY RoutesDisallowNone
  <2>2. Pages!RequiredRole(s, "STATION_MANAGER", "STATION", t) <=>
          \E i \in DOMAIN s : Granted(i)
    BY RouteGrants
  <2> HIDE DEF Granted
  <2> QED
    BY <2>1, <2>2 DEF Pages!ApiOpens
<1> HIDE DEF Granted
<1> QED
  BY <1>1, <1>2, ItemsOpen

\* The lists of both sides, by the best grant's scope.
LEMMA SameRows ==
  ASSUME NEW s
  PROVE  LET depot == Pages!OfDepot(Pages!BestRole(s)) IN
         /\ Pages!FleetRows(s) = Pages!ApiVehicles(s)
         /\ Pages!StationRows(s) = IF depot THEN Pages!Refused ELSE Pages!ApiStations(s)
         /\ Pages!TripRows(s) = IF depot THEN Pages!Refused ELSE Pages!ApiTrips(s)
<1> DEFINE best == Pages!BestRole(s)
<1>1. Pages!FleetRows(s) = Pages!ApiVehicles(s)
  BY DEF Pages!FleetRows, Pages!ApiVehicles
<1>2. CASE Pages!OfDepot(best)
  <2>1. ~Pages!IsSystem(best) /\ ~Pages!OfRefinery(best) /\ ~Pages!OfFacility(best)
          /\ ~Pages!OfStation(best)
    BY <1>2 DEF Pages!IsSystem, Pages!OfRefinery, Pages!OfFacility, Pages!OfDepot,
       Pages!OfStation, Pages!FacilityRoles
  <2> QED
    BY <1>1, <1>2, <2>1, NoRows
<1>3. CASE ~Pages!OfDepot(best)
  <2>1. Pages!StationRows(s) = Pages!ApiStations(s)
    BY <1>3 DEF Pages!StationRows, Pages!ApiStations
  <2>2. Pages!TripRows(s) = Pages!ApiTrips(s)
    BY <1>3 DEF Pages!TripRows, Pages!ApiTrips
  <2> QED
    BY <1>1, <1>3, <2>1, <2>2
<1> QED
  BY <1>2, <1>3

\* The pages and the API open the same facilities and stations for a user, and
\* list the same, in every state and for any network, but for the differences
\* that RoutesAgree and ListsAgree name.
THEOREM RulesAgree == Pages!Spec => []ApiAgrees
<1>1. ApiAgrees
  <2>1. Pages!RoutesAgree
    BY FacilityRoutesAgree, StationRoutesAgree DEF Pages!RoutesAgree
  <2>2. Pages!ListsAgree
    BY SameRows DEF Pages!ListsAgree
  <2> QED
    BY <2>1, <2>2 DEF ApiAgrees, Pages!ApiAgrees
<1> QED
  BY <1>1, PTL

-------------------------------------------------------------------------------
(* One more grant. *)

LEMMA MoreCovers ==
  ASSUME NEW s, NEW more, Pages!ToSet(s) \subseteq Pages!ToSet(more), NEW i \in DOMAIN s
  PROVE  \E j \in DOMAIN more : more[j] = s[i]
<1>1. s[i] \in Pages!ToSet(more)
  BY DEF Pages!ToSet
<1> QED
  BY <1>1 DEF Pages!ToSet

LEMMA MoreOpens ==
  ASSUME NEW s, NEW more, Pages!ToSet(s) \subseteq Pages!ToSet(more), NEW x
  PROVE  /\ \A roles : Pages!HasRole(s, roles) => Pages!HasRole(more, roles)
         /\ Pages!CanViewFacility(s, x) => Pages!CanViewFacility(more, x)
         /\ Pages!CanViewStation(s, x) => Pages!CanViewStation(more, x)
         /\ Pages!CanViewStationPage(s, x) => Pages!CanViewStationPage(more, x)
         /\ Pages!CanViewVehiclePage(s, x) => Pages!CanViewVehiclePage(more, x)
         /\ Pages!CanViewFleet(s) => Pages!CanViewFleet(more)
<1>1. \A roles : Pages!HasRole(s, roles) => Pages!HasRole(more, roles)
  BY MoreCovers DEF Pages!HasRole
<1>2. Pages!CanViewFacility(s, x) => Pages!CanViewFacility(more, x)
  BY <1>1, MoreCovers DEF Pages!CanViewFacility
<1>3. Pages!CanViewStation(s, x) => Pages!CanViewStation(more, x)
  BY <1>1, MoreCovers DEF Pages!CanViewStation
<1>4. Pages!CanViewStationPage(s, x) => Pages!CanViewStationPage(more, x)
  <2> SUFFICES ASSUME Pages!CanViewStationPage(s, x) PROVE Pages!CanViewStationPage(more, x)
    OBVIOUS
  <2>1. PICK i \in DOMAIN s :
          \/ Pages!IsSystem(s[i])
          \/ Pages!OfRefinery(s[i]) /\ RefineryOf[primary[x]] = s[i].id
          \/ /\ Pages!OfFacility(s[i])
             /\ primary[x] = s[i].id \/ x \in Pages!ListStationsServedByFacility(s[i].id)
          \/ Pages!OfStation(s[i]) /\ s[i].id = x
    BY DEF Pages!CanViewStationPage
  <2>2. PICK j \in DOMAIN more : more[j] = s[i]
    BY MoreCovers
  <2> QED
    BY <2>1, <2>2 DEF Pages!CanViewStationPage
<1>5. Pages!CanViewVehiclePage(s, x) => Pages!CanViewVehiclePage(more, x)
  <2> SUFFICES ASSUME Pages!CanViewVehiclePage(s, x) PROVE Pages!CanViewVehiclePage(more, x)
    OBVIOUS
  <2>1. PICK i \in DOMAIN s :
          \/ Pages!IsSystem(s[i])
          \/ /\ parked[x] # None
             /\ \/ Pages!OfDepot(s[i]) /\ parked[x] = s[i].id
                \/ Pages!OfFacility(s[i]) /\ DepotFacility[parked[x]] = s[i].id
                \/ Pages!OfRefinery(s[i]) /\ RefineryOf[DepotFacility[parked[x]]] = s[i].id
    BY DEF Pages!CanViewVehiclePage
  <2>2. PICK j \in DOMAIN more : more[j] = s[i]
    BY MoreCovers
  <2> QED
    BY <2>1, <2>2 DEF Pages!CanViewVehiclePage
<1>6. Pages!CanViewFleet(s) => Pages!CanViewFleet(more)
  BY <1>1 DEF Pages!CanViewFleet
<1> QED
  BY <1>1, <1>2, <1>3, <1>4, <1>5, <1>6

LEMMA MoreItemsOpen ==
  ASSUME NEW s, NEW more, Pages!ToSet(s) \subseteq Pages!ToSet(more),
         NEW p \in Pages!ItemPages, Pages!Opens(s, p)
  PROVE  Pages!Opens(more, p)
<1>1. /\ p = Pages!Page(p.kind, p.id)
      /\ p.kind \in {"facility", "queue", "station", "vehicle", "order", "trip", "weigh"}
  BY DEF Pages!ItemPages, Pages!Page
<1>2. Pages!CanViewTripDetail(s, p.id) => Pages!CanViewTripDetail(more, p.id)
  BY MoreOpens DEF Pages!CanViewTripDetail
<1>3. \A x : Pages!CanViewFacility(s, x) => Pages!CanViewFacility(more, x)
  BY MoreOpens
<1>4. Pages!CanViewStationPage(s, p.id) => Pages!CanViewStationPage(more, p.id)
  BY MoreOpens
<1>5. Pages!CanViewFleet(s) /\ Pages!CanViewVehiclePage(s, p.id) =>
        Pages!CanViewFleet(more) /\ Pages!CanViewVehiclePage(more, p.id)
  BY MoreOpens
<1> DEFINE k == p.kind
           d == p.id
<1>6. p = Pages!Page(k, d)
        /\ k \in {"facility", "queue", "station", "vehicle", "order", "trip", "weigh"}
  BY <1>1
<1>7. CASE k = "facility" \/ k = "queue"
  BY <1>3, <1>6, <1>7, ItemsOpen
<1>8. CASE k = "station"
  BY <1>4, <1>6, <1>8, ItemsOpen
<1>9. CASE k = "vehicle"
  BY <1>5, <1>6, <1>9, ItemsOpen
<1>10. CASE k = "order"
  BY <1>3, <1>6, <1>10, ItemsOpen
<1>11. CASE k = "trip" \/ k = "weigh"
  BY <1>2, <1>6, <1>11, ItemsOpen
<1> QED
  BY <1>6, <1>7, <1>8, <1>9, <1>10, <1>11

\* One more grant never takes an item's page away, whatever the order in which
\* the query returns the grants.
THEOREM MoreGrantsOpenMore == Pages!Spec => GrantsOnlyOpenItems
<1>1. session # None /\ session' # None
        /\ Pages!ToSet(session) \subseteq Pages!ToSet(session') =>
        \A p \in Pages!ItemPages : Pages!Opens(session, p) => Pages!Opens(session', p)
  BY MoreItemsOpen
<1> QED
  BY <1>1, PTL DEF GrantsOnlyOpenItems, Pages!GrantsOnlyOpenItems

-------------------------------------------------------------------------------
\* Sessions, tokens, cached facts, grants and the network keep their types.
THEOREM AccessTypes == AccessAssumption => (AccessSpec => []TypesOK)
<1> SUFFICES ASSUME AccessAssumption PROVE AccessSpec => []TypesOK
  OBVIOUS
<1>1. Spec => []TypeOK
  BY TypeCorrect DEF AccessAssumption
<1>2. Cache!Spec => []CacheInv
  BY CacheInvariant DEF AccessAssumption
<1>3. TypeOK /\ CacheInv /\ PagesInv => TypesOK
  BY DEF CacheInv, PagesInv, TypesOK
<1> QED
  BY <1>1, <1>2, <1>3, PagesInvariant, PTL DEF AccessSpec
===============================================================================
