----------------------------- MODULE SessionsProofs -----------------------------
(***************************************************************************)
(* What Sessions promises, proved for any numbers of accounts, roles,      *)
(* requests, sessions and tokens and any lifetimes: passwords an           *)
(* administrator set demand their change, a login stands on one refresh    *)
(* token at a time, and a page is served by facts no older than            *)
(* TTL + Span, which makes the dashboard an implementation of              *)
(* BoundedStaleness.                                                       *)
(*                                                                         *)
(* The invariant behind the last one follows a copy of an account from the *)
(* login that reads it, through the sessions and the password forms that   *)
(* pass it on: its expiry bounds the time it was read.                     *)
(***************************************************************************)
EXTENDS Sessions, TLAPS

\* A page or a form holds on to a copy of a session.
HoldsSession(w) ==
  w.at = "resave" \/ (w.at \in {"compare", "update"} /\ w.dashboard)

Typed ==
  /\ TypeOK
  /\ \A p \in Jobs : HoldsSession(job[p]) => job[p].copy \in SessionData

\* A fact that was in the table, or was replaced at time t or later.
CopyOf(T, P, s, f, t) ==
  f = T[s] \/ \E q \in P : q.subject = s /\ q.fact = f /\ t <= q.at

\* The facts of a session were read less than a login before its lifetime began.
SessionSound(T, P, n, data) ==
  LET t == data.until - (TTL + Span) IN
  /\ data.until <= n + TTL
  /\ CopyOf(T, P, <<data.user, "active">>, Active, t)
  /\ CopyOf(T, P, <<data.user, "grants">>, data.grants, t)

\* A login saves what it has read, within the time it may take; a password form
\* saves a session that was sound when it was opened, with its expiry.
JobSound(T, P, n, w) ==
  /\ w.at \in {"roles", "save"} =>
       /\ w.copy.user = w.user /\ w.readAt <= n /\ n <= w.readAt + Span
       /\ CopyOf(T, P, <<w.user, "active">>, Active, w.readAt)
  /\ w.at = "save" => CopyOf(T, P, <<w.user, "grants">>, w.copy.grants, w.readAt)
  /\ HoldsSession(w) => SessionSound(T, P, n, w.copy)

CopiesSound ==
  /\ \A p \in Jobs : JobSound(table, past, now, job[p])
  /\ \A s \in Ids : Live(s) =>
       now < sessions[s].until /\ SessionSound(table, past, now, sessions[s])

IInv == Typed /\ CopiesSound

-------------------------------------------------------------------------------
(* Typing. *)

JobTyped(w) ==
  /\ w \in Progress
  /\ w.at # "idle" => w.user \in Users
  /\ w.at \in {"roles", "save", "resave"} \/ HoldsSession(w) => w.copy \in SessionData
  /\ w.at = "update" => w.word \in Passwords
  /\ w.at = "roles" => w.key = None
  /\ w.at = "token" => w.key \in {None} \cup Tokens
  /\ w.at = "exchange" => w.key \in Tokens

FactsTyped ==
  /\ now \in Nat
  /\ table \in [Subjects -> Facts]
  /\ \A u \in Users : table[<<u, "grants">>] \in SUBSET Grants
  /\ past \in SUBSET [subject : Subjects, fact : Facts, at : Nat]

StoresTyped ==
  /\ account \in [Users -> Rows]
  /\ sessions \in [Ids -> {None} \cup SessionData]
  /\ tokens \in [Tokens -> {None} \cup Users]
  /\ chain \in [Tokens -> {None} \cup Tokens]
  /\ kept \in SUBSET Tokens
  /\ used \in SUBSET (Ids \cup Tokens \cup Temporary)
  /\ excused \in SUBSET Users

ToldTyped == told \in [Readers -> [Subjects -> {None} \cup Facts]]

JobsTyped == job \in [Jobs -> Progress] /\ \A p \in Jobs : JobTyped(job[p])

LEMMA TypedParts == Typed <=> FactsTyped /\ StoresTyped /\ ToldTyped /\ JobsTyped
  BY DEF Typed, TypeOK, FactsTyped, StoresTyped, ToldTyped, JobsTyped, JobTyped, HoldsSession

LEMMA SubjectsOfUsers ==
  ASSUME NEW u \in Users
  PROVE  <<u, "active">> \in Subjects /\ <<u, "grants">> \in Subjects
  BY DEF Subjects, Kinds

LEMMA IdleTyped == JobTyped(Idle) /\ Idle.at = "idle"
  BY DEF JobTyped, Idle, Progress, Steps, HoldsSession

\* A request that moves on leaves the others where they are.
LEMMA StepMoves ==
  ASSUME JobsTyped, NEW p \in Jobs, NEW w, Step(p, w), JobTyped(w)
  PROVE  /\ JobsTyped'
         /\ job'[p] = w /\ \A q \in Jobs \ {p} : job'[q] = job[q]
<1>1. job'[p] = w /\ \A q \in Jobs \ {p} : job'[q] = job[q]
  BY DEF Step, JobsTyped
<1>2. job' \in [Jobs -> Progress]
  BY DEF Step, JobsTyped, JobTyped
<1>3. \A q \in Jobs : JobTyped(job'[q])
  BY <1>1 DEF JobsTyped
<1> QED
  BY <1>1, <1>2, <1>3 DEF JobsTyped

-------------------------------------------------------------------------------
(* The calls of a request: what it knows afterwards, and what it has stored. *)

Acts(p, w) ==
  /\ Step(p, w) /\ JobTyped(w) /\ JobSound(table, past, now, w)
  /\ UNCHANGED <<now, table, past, told>> /\ StoresTyped'
  /\ \A s \in Ids :
       \/ sessions'[s] = sessions[s]
       \/ now < sessions'[s].until /\ SessionSound(table, past, now, sessions'[s])

LEMMA IdleSound == \A T, P, n : JobSound(T, P, n, Idle)
  BY DEF JobSound, Idle, HoldsSession

\* What is known of a request, and of the tables, before it acts.
LEMMA Known ==
  ASSUME IInv, NEW p \in Jobs
  PROVE  /\ FactsTyped /\ StoresTyped /\ ToldTyped /\ JobsTyped
         /\ JobTyped(job[p]) /\ JobSound(table, past, now, job[p])
  BY TypedParts DEF IInv, CopiesSound, JobsTyped

\* An older bound is a weaker one.
LEMMA CopyOfWeaker ==
  ASSUME FactsTyped, NEW s, NEW f, NEW t \in Int, NEW w \in Int, w <= t,
         CopyOf(table, past, s, f, t)
  PROVE  CopyOf(table, past, s, f, w)
  BY DEF CopyOf, FactsTyped

LEMMA AuthenticateActs ==
  ASSUME SessionAssumption, IInv, NEW p \in Jobs, NEW u \in Users, NEW dash \in BOOLEAN,
         AuthenticateUser(p, u, dash)
  PROVE  \E w : Acts(p, w)
<1> DEFINE c == [user |-> u, grants |-> {}, force |-> account[u].force, until |-> 0]
           w == [Idle EXCEPT !.at = "roles", !.user = u, !.word = account[u].password,
                   !.dashboard = dash, !.readAt = now, !.copy = c]
<1>1. FactsTyped /\ StoresTyped
  BY Known
<1>2. c \in SessionData /\ account[u].password \in Passwords /\ now \in Nat
  BY <1>1 DEF StoresTyped, FactsTyped, Rows, SessionData
<1>3. /\ w.at = "roles" /\ w.user = u /\ w.key = None /\ w.word = account[u].password
      /\ w.readAt = now /\ w.copy = c /\ c.user = u
  BY DEF Idle
<1>4. w \in Progress
  BY <1>2 DEF Idle, Progress, Steps
<1>5. Step(p, w) /\ table[<<u, "active">>] = Active /\ UNCHANGED <<now, facts, credentials, stores, told>>
  BY DEF AuthenticateUser
<1> HIDE DEF w, c
<1>6. JobTyped(w)
  BY <1>2, <1>3, <1>4 DEF JobTyped, HoldsSession
<1>7. JobSound(table, past, now, w)
  BY <1>2, <1>3, <1>5 DEF JobSound, HoldsSession, CopyOf, SessionAssumption
<1>8. StoresTyped'
  BY <1>1, <1>5 DEF StoresTyped, credentials, stores, refreshes
<1>9. Acts(p, w)
  BY <1>5, <1>6, <1>7, <1>8 DEF Acts, facts, stores, refreshes
<1> QED
  BY <1>9

LEMMA RolesActs ==
  ASSUME IInv, NEW p \in Jobs, GetActiveRolesForUser(p)
  PROVE  \E w : Acts(p, w)
<1> DEFINE u == job[p].user
           g == table[<<u, "grants">>]
           w == [job[p] EXCEPT !.at = IF job[p].dashboard THEN "save" ELSE "token",
                               !.copy.grants = g]
<1>1. FactsTyped /\ StoresTyped /\ JobTyped(job[p]) /\ JobSound(table, past, now, job[p])
  BY Known
<1>2. job[p].at = "roles" /\ Step(p, w) /\ UNCHANGED <<now, facts, credentials, stores, told>>
  BY DEF GetActiveRolesForUser
<1>3. u \in Users /\ job[p].copy \in SessionData /\ job[p] \in Progress /\ g \in SUBSET Grants
  BY <1>1, <1>2 DEF JobTyped, FactsTyped
<1>4. /\ w.at \in {"save", "token"} /\ w.user = u /\ w.readAt = job[p].readAt
      /\ w.key = job[p].key /\ job[p].key = None
      /\ w.copy = [job[p].copy EXCEPT !.grants = g]
  BY <1>1, <1>2, <1>3 DEF Progress, JobTyped
<1>5. w.copy \in SessionData /\ w.copy.user = job[p].copy.user /\ w.copy.grants = g
  BY <1>3, <1>4 DEF SessionData
<1>6. w \in Progress
  BY <1>3, <1>5 DEF Progress, Steps
<1> HIDE DEF w
<1>7. JobTyped(w)
  BY <1>3, <1>4, <1>5, <1>6 DEF JobTyped, HoldsSession
<1>8. JobSound(table, past, now, w)
  BY <1>1, <1>2, <1>4, <1>5 DEF JobSound, HoldsSession, CopyOf
<1>9. StoresTyped'
  BY <1>1, <1>2 DEF StoresTyped, credentials, stores, refreshes
<1>10. Acts(p, w)
  BY <1>2, <1>7, <1>8, <1>9 DEF Acts, facts, stores, refreshes
<1> QED
  BY <1>10

LEMMA LoginDashboardActs ==
  ASSUME SessionAssumption, IInv, NEW p \in Jobs, NEW s \in Ids, LoginDashboard(p, s)
  PROVE  \E w : Acts(p, w)
<1> DEFINE c == job[p].copy
           u == job[p].user
           data == [c EXCEPT !.until = now + TTL]
<1>1. FactsTyped /\ StoresTyped /\ JobTyped(job[p]) /\ JobSound(table, past, now, job[p])
  BY Known
<1>2. /\ job[p].at = "save" /\ Step(p, Idle) /\ sessions' = [sessions EXCEPT ![s] = data]
      /\ used' = used \cup {s} /\ UNCHANGED <<now, facts, account, excused, refreshes, told>>
  BY DEF LoginDashboard
<1>3. /\ c \in SessionData /\ now \in Nat /\ now + TTL \in Nat /\ job[p].readAt \in Nat
      /\ TTL \in Nat \ {0} /\ Span \in Nat
  BY <1>1, <1>2 DEF JobTyped, FactsTyped, SessionAssumption, Progress
<1>4. data \in SessionData /\ data.until = now + TTL /\ data.user = c.user /\ data.grants = c.grants
  BY <1>3 DEF SessionData
<1>5. /\ c.user = u /\ now <= job[p].readAt + Span
      /\ CopyOf(table, past, <<u, "active">>, Active, job[p].readAt)
      /\ CopyOf(table, past, <<u, "grants">>, c.grants, job[p].readAt)
  BY <1>1, <1>2 DEF JobSound
<1>6. now + TTL - (TTL + Span) \in Int /\ now + TTL - (TTL + Span) <= job[p].readAt
  BY <1>3, <1>5
<1>7. /\ CopyOf(table, past, <<u, "active">>, Active, now + TTL - (TTL + Span))
      /\ CopyOf(table, past, <<u, "grants">>, c.grants, now + TTL - (TTL + Span))
  BY <1>1, <1>3, <1>5, <1>6, CopyOfWeaker
<1> HIDE DEF data
<1>8. now < data.until /\ SessionSound(table, past, now, data)
  BY <1>3, <1>4, <1>5, <1>7 DEF SessionSound
<1>9. \A r \in Ids : sessions'[r] = sessions[r] \/ sessions'[r] = data
  BY <1>1, <1>2 DEF StoresTyped
<1>10. StoresTyped'
  BY <1>1, <1>2, <1>4 DEF StoresTyped, refreshes
<1>11. Acts(p, Idle)
  BY <1>2, <1>8, <1>9, <1>10, IdleTyped, IdleSound DEF Acts, facts
<1> QED
  BY <1>11

LEMMA TokensAct ==
  ASSUME IInv, NEW p \in Jobs,
         \/ \E t \in Tokens : IssueTokens(p, t) \/ GetRefreshToken(p, t)
         \/ DeleteRefreshToken(p)
  PROVE  \E w : Acts(p, w)
<1>1. FactsTyped /\ StoresTyped /\ JobTyped(job[p])
  BY Known
<1>2. ASSUME NEW t \in Tokens, IssueTokens(p, t) PROVE Acts(p, Idle)
  <2>1. job[p].at = "token" /\ Step(p, Idle) /\ tokens' = [tokens EXCEPT ![t] = job[p].user]
        /\ used' = used \cup {t}
        /\ chain' = [chain EXCEPT ![t] = IF job[p].key = None THEN t ELSE chain[job[p].key]]
        /\ UNCHANGED <<now, facts, account, excused, sessions, kept, told>>
    BY <1>2 DEF IssueTokens, SaveRefreshToken
  <2>2. job[p].user \in Users /\ job[p].key \in {None} \cup Tokens
    BY <1>1, <2>1 DEF JobTyped
  <2>3. chain' \in [Tokens -> {None} \cup Tokens]
    BY <1>1, <2>1, <2>2 DEF StoresTyped
  <2>4. StoresTyped'
    BY <1>1, <2>1, <2>2, <2>3 DEF StoresTyped
  <2> QED
    BY <2>1, <2>4, IdleTyped, IdleSound DEF Acts, facts
<1>3. ASSUME NEW t \in Tokens, GetRefreshToken(p, t) PROVE \E w : Acts(p, w)
  <2> DEFINE w == [Idle EXCEPT !.at = "exchange", !.user = tokens[t], !.key = t]
  <2>1. tokens[t] # None /\ Step(p, w) /\ UNCHANGED <<now, facts, credentials, stores, told>>
    BY <1>3 DEF GetRefreshToken
  <2>2. tokens[t] \in Users
    BY <1>1, <2>1 DEF StoresTyped
  <2>3. w.at = "exchange" /\ w.user = tokens[t] /\ w.key = t
    BY DEF Idle
  <2>4. w \in Progress
    BY <2>2 DEF Idle, Progress, Steps
  <2> HIDE DEF w
  <2>5. JobTyped(w) /\ JobSound(table, past, now, w)
    BY <2>2, <2>3, <2>4 DEF JobTyped, JobSound, HoldsSession
  <2>6. StoresTyped'
    BY <1>1, <2>1 DEF StoresTyped, credentials, stores, refreshes
  <2>7. Acts(p, w)
    BY <2>1, <2>5, <2>6 DEF Acts, facts, stores, refreshes
  <2> QED
    BY <2>7
<1>4. ASSUME DeleteRefreshToken(p) PROVE \E w : Acts(p, w)
  <2> DEFINE w == [job[p] EXCEPT !.at = "token"]
  <2>1. /\ job[p].at = "exchange" /\ Step(p, w)
        /\ tokens' = [tokens EXCEPT ![job[p].key] = None] \/ UNCHANGED tokens
        /\ kept' = kept \cup (IF tokens' = tokens THEN {job[p].key} ELSE {})
        /\ UNCHANGED <<now, facts, credentials, sessions, chain, told>>
    BY <1>4 DEF DeleteRefreshToken
  <2>2. job[p] \in Progress /\ job[p].user \in Users /\ job[p].key \in Tokens
    BY <1>1, <2>1 DEF JobTyped
  <2>3. w.at = "token" /\ w.user = job[p].user /\ w.key = job[p].key /\ w \in Progress
    BY <2>2 DEF Progress, Steps
  <2> HIDE DEF w
  <2>4. JobTyped(w) /\ JobSound(table, past, now, w)
    BY <2>2, <2>3 DEF JobTyped, JobSound, HoldsSession
  <2>5. StoresTyped'
    BY <1>1, <2>1, <2>2 DEF StoresTyped, credentials
  <2>6. Acts(p, w)
    BY <2>1, <2>4, <2>5 DEF Acts, facts
  <2> QED
    BY <2>6
<1> QED
  BY <1>2, <1>3, <1>4

\* A form under a session keeps the copy the middleware loaded.
LEMMA FormActs ==
  ASSUME IInv, NEW p \in Jobs,
         \/ \E s \in Ids : SubmitPasswordForm(p, s)
         \/ \E u \in Users : PostPassword(p, u)
  PROVE  \E w : Acts(p, w)
<1>1. FactsTyped /\ StoresTyped
  BY Known
<1>2. ASSUME NEW s \in Ids, SubmitPasswordForm(p, s) PROVE \E w : Acts(p, w)
  <2> DEFINE c == sessions[s]
             w == [Idle EXCEPT !.at = "compare", !.user = c.user,
                               !.key = s, !.copy = c, !.dashboard = TRUE]
  <2>1. Live(s) /\ Step(p, w) /\ UNCHANGED <<now, facts, credentials, stores, told>>
    BY <1>2 DEF SubmitPasswordForm
  <2>2. c \in SessionData /\ SessionSound(table, past, now, c)
    BY <1>1, <2>1 DEF Live, StoresTyped, IInv, CopiesSound
  <2>3. c.user \in Users
    BY <2>2 DEF SessionData
  <2>4. w.at = "compare" /\ w.user = c.user /\ w.copy = c /\ w.dashboard = TRUE
    BY DEF Idle
  <2>5. w \in Progress
    BY <2>2, <2>3 DEF Idle, Progress, Steps
  <2> HIDE DEF w
  <2>6. JobTyped(w) /\ JobSound(table, past, now, w)
    BY <2>2, <2>3, <2>4, <2>5 DEF JobTyped, JobSound, HoldsSession
  <2>7. StoresTyped'
    BY <1>1, <2>1 DEF StoresTyped, credentials, stores, refreshes
  <2>8. Acts(p, w)
    BY <2>1, <2>6, <2>7 DEF Acts, facts, stores, refreshes
  <2> QED
    BY <2>8
<1>3. ASSUME NEW u \in Users, PostPassword(p, u) PROVE \E w : Acts(p, w)
  <2> DEFINE w == [Idle EXCEPT !.at = "compare", !.user = u]
  <2>1. Step(p, w) /\ UNCHANGED <<now, facts, credentials, stores, told>>
    BY <1>3 DEF PostPassword
  <2>2. w.at = "compare" /\ w.user = u /\ w.dashboard = FALSE /\ w \in Progress
    BY DEF Idle, Progress, Steps
  <2> HIDE DEF w
  <2>3. JobTyped(w) /\ JobSound(table, past, now, w)
    BY <2>2 DEF JobTyped, JobSound, HoldsSession
  <2>4. StoresTyped'
    BY <1>1, <2>1 DEF StoresTyped, credentials, stores, refreshes
  <2>5. Acts(p, w)
    BY <2>1, <2>3, <2>4 DEF Acts, facts, stores, refreshes
  <2> QED
    BY <2>5
<1> QED
  BY <1>2, <1>3

LEMMA ChangeActs ==
  ASSUME IInv, NEW p \in Jobs,
         (\E word \in Passwords : CompareHash(p, word)) \/ ChangePassword(p)
  PROVE  \E w : Acts(p, w)
<1>1. FactsTyped /\ StoresTyped /\ JobTyped(job[p]) /\ JobSound(table, past, now, job[p])
  BY Known
<1>2. ASSUME NEW word \in Passwords, CompareHash(p, word) PROVE \E w : Acts(p, w)
  <2> DEFINE w == [job[p] EXCEPT !.at = "update", !.word = word]
  <2>1. /\ job[p].at = "compare" /\ Step(p, w)
        /\ UNCHANGED <<now, facts, credentials, stores, told>>
    BY <1>2 DEF CompareHash
  <2>2. job[p] \in Progress /\ job[p].user \in Users
    BY <1>1, <2>1 DEF JobTyped
  <2>3. /\ w.at = "update" /\ w.word = word /\ w.user = job[p].user
        /\ w.copy = job[p].copy /\ w.dashboard = job[p].dashboard
    BY <2>2 DEF Progress
  <2>4. w \in Progress
    BY <2>2 DEF Progress, Steps
  <2> HIDE DEF w
  <2>5. JobTyped(w)
    BY <1>1, <2>1, <2>2, <2>3, <2>4 DEF JobTyped, HoldsSession
  <2>6. JobSound(table, past, now, w)
    BY <1>1, <2>1, <2>3 DEF JobSound, HoldsSession
  <2>7. StoresTyped'
    BY <1>1, <2>1 DEF StoresTyped, credentials, stores, refreshes
  <2>8. Acts(p, w)
    BY <2>1, <2>5, <2>6, <2>7 DEF Acts, facts, stores, refreshes
  <2> QED
    BY <2>8
<1>3. ASSUME ChangePassword(p) PROVE \E w : Acts(p, w)
  <2> DEFINE row == [password |-> job[p].word, force |-> FALSE]
             w == [job[p] EXCEPT !.at = "resave"]
             v == IF job[p].dashboard THEN w ELSE Idle
  <2>1. /\ job[p].at = "update" /\ Step(p, v)
        /\ account' = [account EXCEPT ![job[p].user] = row]
        /\ excused' = excused \cup (IF job[p].word \in Temporary THEN {job[p].user} ELSE {})
        /\ UNCHANGED <<now, facts, used, stores, told>>
    BY <1>3 DEF ChangePassword, UpdateUserPassword
  <2>2. job[p] \in Progress /\ job[p].user \in Users /\ row \in Rows
    BY <1>1, <2>1 DEF JobTyped, Rows
  <2>3. w.at = "resave" /\ w.user = job[p].user /\ w.copy = job[p].copy /\ w \in Progress
    BY <2>2 DEF Progress, Steps
  <2> HIDE DEF w, row
  <2>4. job[p].dashboard => JobTyped(w) /\ JobSound(table, past, now, w)
    BY <1>1, <2>1, <2>2, <2>3 DEF JobTyped, JobSound, HoldsSession
  <2>5. JobTyped(v) /\ JobSound(table, past, now, v)
    BY <2>4, IdleTyped, IdleSound
  <2>6. StoresTyped'
    BY <1>1, <2>1, <2>2 DEF StoresTyped, stores, refreshes
  <2> HIDE DEF v
  <2>7. Acts(p, v)
    BY <2>1, <2>5, <2>6 DEF Acts, facts, stores, refreshes
  <2> QED
    BY <2>7
<1> QED
  BY <1>2, <1>3

\* Saving a session again keeps its expiry.
LEMMA ResaveActs ==
  ASSUME IInv, NEW p \in Jobs, ResaveSession(p)
  PROVE  \E w : Acts(p, w)
<1> DEFINE c == job[p].copy
           data == [c EXCEPT !.force = FALSE]
<1>1. FactsTyped /\ StoresTyped /\ JobTyped(job[p]) /\ JobSound(table, past, now, job[p])
  BY Known
<1>2. /\ job[p].at = "resave" /\ Step(p, Idle)
      /\ sessions' = IF now < data.until THEN [sessions EXCEPT ![job[p].key] = data] ELSE sessions
      /\ UNCHANGED <<now, facts, credentials, refreshes, told>>
  BY DEF ResaveSession, SaveSession
<1>3. c \in SessionData /\ SessionSound(table, past, now, c)
  BY <1>1, <1>2 DEF JobTyped, JobSound, HoldsSession
<1>4. /\ data \in SessionData /\ data.until = c.until /\ data.user = c.user
      /\ data.grants = c.grants
  BY <1>3 DEF SessionData
<1> HIDE DEF data
<1>5. SessionSound(table, past, now, data)
  BY <1>3, <1>4 DEF SessionSound
<1>6. \A r \in Ids : sessions'[r] = sessions[r] \/ (sessions'[r] = data /\ now < data.until)
  BY <1>1, <1>2 DEF StoresTyped
<1>7. StoresTyped'
  BY <1>1, <1>2, <1>4 DEF StoresTyped, credentials, refreshes
<1>8. Acts(p, Idle)
  BY <1>2, <1>5, <1>6, <1>7, IdleTyped, IdleSound DEF Acts, facts
<1> QED
  BY <1>8

LEMMA ResetActs ==
  ASSUME IInv, NEW p \in Jobs,
         \/ \E u \in Users, word \in Temporary : ResetPassword(p, u, word)
         \/ SetForcePasswordChange(p)
  PROVE  \E w : Acts(p, w)
<1>1. FactsTyped /\ StoresTyped /\ JobTyped(job[p])
  BY Known
<1>2. ASSUME NEW u \in Users, NEW word \in Temporary, ResetPassword(p, u, word)
      PROVE  \E w : Acts(p, w)
  <2> DEFINE row == [password |-> word, force |-> FALSE]
             w == [Idle EXCEPT !.at = "flag", !.user = u]
  <2>1. /\ Step(p, w) /\ account' = [account EXCEPT ![u] = row]
        /\ used' = used \cup {word} /\ excused' = excused \ {u}
        /\ UNCHANGED <<now, facts, stores, told>>
    BY <1>2 DEF ResetPassword, UpdateUserPassword
  <2>2. row \in Rows
    BY DEF Rows, Passwords
  <2>3. w.at = "flag" /\ w.user = u /\ w \in Progress
    BY DEF Idle, Progress, Steps
  <2> HIDE DEF w, row
  <2>4. JobTyped(w) /\ JobSound(table, past, now, w)
    BY <2>3 DEF JobTyped, JobSound, HoldsSession
  <2>5. StoresTyped'
    BY <1>1, <2>1, <2>2 DEF StoresTyped, stores, refreshes
  <2>6. Acts(p, w)
    BY <2>1, <2>4, <2>5 DEF Acts, facts, stores, refreshes
  <2> QED
    BY <2>6
<1>3. ASSUME SetForcePasswordChange(p) PROVE Acts(p, Idle)
  <2>1. /\ job[p].at = "flag" /\ Step(p, Idle) /\ UNCHANGED <<now, facts, used, stores, told>>
        /\ \/ account' = [account EXCEPT ![job[p].user].force = TRUE] /\ UNCHANGED excused
           \/ UNCHANGED account /\ excused' = excused \cup {job[p].user}
    BY <1>3 DEF SetForcePasswordChange, SetFlag
  <2>2. job[p].user \in Users
    BY <1>1, <2>1 DEF JobTyped
  <2>3. account' \in [Users -> Rows]
    <3>1. [account[job[p].user] EXCEPT !.force = TRUE] \in Rows
      BY <1>1, <2>2 DEF StoresTyped, Rows
    <3> QED
      BY <1>1, <2>1, <2>2, <3>1 DEF StoresTyped
  <2>4. StoresTyped'
    BY <1>1, <2>1, <2>2, <2>3 DEF StoresTyped, stores, refreshes
  <2> QED
    BY <2>1, <2>4, IdleTyped, IdleSound DEF Acts, facts, stores, refreshes
<1> QED
  BY <1>2, <1>3

LEMMA FailActs ==
  ASSUME IInv, NEW p \in Jobs, Fail(p)
  PROVE  Acts(p, Idle)
<1>1. StoresTyped /\ Step(p, Idle) /\ UNCHANGED <<now, facts, credentials, stores, told>>
  BY Known DEF Fail
<1>2. StoresTyped'
  BY <1>1 DEF StoresTyped, credentials, stores, refreshes
<1> QED
  BY <1>1, <1>2, IdleTyped, IdleSound DEF Acts, facts, stores, refreshes

LEMMA JobActs ==
  ASSUME SessionAssumption, IInv, NEW p \in Jobs,
         Login(p) \/ Refresh(p) \/ Passwording(p) \/ Fail(p)
  PROVE  \E w : Acts(p, w)
<1>1. CASE Login(p)
  BY <1>1, AuthenticateActs, RolesActs, LoginDashboardActs, TokensAct DEF Login
<1>2. CASE Refresh(p)
  BY <1>2, TokensAct DEF Refresh
<1>3. CASE Passwording(p)
  BY <1>3, FormActs, ChangeActs, ResaveActs, ResetActs DEF Passwording
<1>4. CASE Fail(p)
  BY <1>4, FailActs
<1> QED
  BY <1>1, <1>2, <1>3, <1>4

-------------------------------------------------------------------------------
(* Changes, the clock and the invariant. *)

LEMMA ChangesAreWrites ==
  ASSUME FactsTyped, NEW u \in Users, Administer(u)
  PROVE  \E s \in Subjects, f \in Facts :
           Write(s, f) /\ (s[2] = "grants" => f \in SUBSET Grants)
<1>1. table[<<u, "grants">>] \in SUBSET Grants
  BY DEF FactsTyped
<1>2. /\ \A g \in Grants : /\ table[<<u, "grants">>] \cup {g} \in SUBSET Grants
                           /\ table[<<u, "grants">>] \ {g} \in SUBSET Grants
      /\ SUBSET Grants \subseteq Facts /\ Active \in Facts /\ Inactive \in Facts
      /\ <<u, "active">>[2] = "active" /\ <<u, "grants">>[2] = "grants"
  BY <1>1 DEF Facts, Active, Inactive
<1>3. CASE SetUserActive(u)
  BY <1>2, <1>3, SubjectsOfUsers DEF SetUserActive
<1>4. CASE \E g \in Grants : GrantRole(u, g) \/ RevokeRole(u, g)
  BY <1>2, <1>4, SubjectsOfUsers DEF GrantRole, RevokeRole
<1> QED
  BY <1>3, <1>4 DEF Administer

LEMMA WriteTyped ==
  ASSUME FactsTyped, NEW s \in Subjects, NEW f \in Facts, Write(s, f),
         s[2] = "grants" => f \in SUBSET Grants
  PROVE  FactsTyped'
<1>1. [subject |-> s, fact |-> table[s], at |-> now] \in [subject : Subjects, fact : Facts, at : Nat]
  BY DEF FactsTyped
<1>2. table' \in [Subjects -> Facts] /\ now' = now
  BY DEF FactsTyped, Write
<1>3. \A u \in Users : table'[<<u, "grants">>] \in SUBSET Grants
  <2> SUFFICES ASSUME NEW u \in Users PROVE table'[<<u, "grants">>] \in SUBSET Grants
    OBVIOUS
  <2>1. CASE s = <<u, "grants">>
    BY <2>1 DEF FactsTyped, Write
  <2>2. CASE s # <<u, "grants">>
    BY <2>2, SubjectsOfUsers DEF FactsTyped, Write
  <2> QED
    BY <2>1, <2>2
<1> QED
  BY <1>1, <1>2, <1>3 DEF FactsTyped, Write

\* Changes are never forgotten, and one outdates the copies of its subject now.
LEMMA CopyOfStable ==
  ASSUME FactsTyped, NEW s \in Subjects, NEW f, NEW t \in Int, t <= now,
         CopyOf(table, past, s, f, t), NEW q \in Subjects, NEW g \in Facts, Write(q, g)
  PROVE  CopyOf(table', past', s, f, t)
<1>1. past \subseteq past' /\ [subject |-> q, fact |-> table[q], at |-> now] \in past'
  BY DEF Write
<1>2. CASE f # table[s]
  BY <1>1, <1>2 DEF CopyOf
<1>3. CASE f = table[s] /\ q = s
  BY <1>1, <1>3 DEF CopyOf
<1>4. CASE f = table[s] /\ q # s
  BY <1>4 DEF CopyOf, Write, FactsTyped
<1> QED
  BY <1>2, <1>3, <1>4

LEMMA SessionSoundStable ==
  ASSUME SessionAssumption, FactsTyped, NEW c \in SessionData,
         SessionSound(table, past, now, c),
         NEW q \in Subjects, NEW g \in Facts, Write(q, g)
  PROVE  SessionSound(table', past', now', c)
<1> DEFINE t == c.until - (TTL + Span)
<1>1. /\ c.user \in Users /\ c.until \in Nat /\ now' = now /\ now \in Nat
      /\ c.until <= now + TTL
      /\ CopyOf(table, past, <<c.user, "active">>, Active, t)
      /\ CopyOf(table, past, <<c.user, "grants">>, c.grants, t)
  BY DEF SessionData, SessionSound, Write, FactsTyped
<1>2. t \in Int /\ t <= now
  BY <1>1 DEF SessionAssumption
<1>3. <<c.user, "active">> \in Subjects /\ <<c.user, "grants">> \in Subjects
  BY <1>1, SubjectsOfUsers
<1> HIDE DEF t
<1>4. /\ CopyOf(table', past', <<c.user, "active">>, Active, t)
      /\ CopyOf(table', past', <<c.user, "grants">>, c.grants, t)
  BY <1>1, <1>2, <1>3, CopyOfStable
<1> QED
  BY <1>1, <1>4 DEF SessionSound, t

LEMMA JobSoundStable ==
  ASSUME SessionAssumption, FactsTyped, NEW w, JobTyped(w), JobSound(table, past, now, w),
         NEW q \in Subjects, NEW g \in Facts, Write(q, g)
  PROVE  JobSound(table', past', now', w)
<1>1. now' = now
  BY DEF Write
<1>2. CASE w.at \in {"roles", "save"}
  <2>1. /\ w.user \in Users /\ w.readAt \in Nat /\ w.readAt <= now
    BY <1>2 DEF JobTyped, JobSound, Progress
  <2>2. <<w.user, "active">> \in Subjects /\ <<w.user, "grants">> \in Subjects
    BY <2>1, SubjectsOfUsers
  <2>3. CopyOf(table', past', <<w.user, "active">>, Active, w.readAt)
    BY <1>2, <2>1, <2>2, CopyOfStable DEF JobSound
  <2>4. w.at = "save" => CopyOf(table', past', <<w.user, "grants">>, w.copy.grants, w.readAt)
    BY <2>1, <2>2, CopyOfStable DEF JobSound
  <2> QED
    BY <1>1, <1>2, <2>3, <2>4 DEF JobSound, HoldsSession
<1>3. CASE HoldsSession(w)
  <2>1. SessionSound(table', past', now', w.copy)
    BY <1>3, SessionSoundStable DEF JobTyped, JobSound
  <2> QED
    BY <1>3, <2>1 DEF JobSound, HoldsSession
<1>4. CASE w.at \notin {"roles", "save"} /\ ~HoldsSession(w)
  BY <1>4 DEF JobSound
<1> QED
  BY <1>2, <1>3, <1>4

\* The clock waits for the logins, and takes the sessions that expire.
LEMMA TickSound ==
  ASSUME SessionAssumption, FactsTyped, StoresTyped, JobsTyped, CopiesSound, Tick
  PROVE  CopiesSound'
<1>1. /\ now' = now + 1 /\ now \in Nat /\ UNCHANGED <<table, past, job>>
      /\ \A p \in Jobs : LoggingIn(p) => now < job[p].readAt + Span
      /\ sessions' = [s \in Ids |->
            IF Live(s) /\ now + 1 < sessions[s].until THEN sessions[s] ELSE None]
  BY DEF Tick, FactsTyped, facts
<1>2. ASSUME NEW c \in SessionData, SessionSound(table, past, now, c)
      PROVE  SessionSound(table, past, now + 1, c)
  BY <1>1, <1>2 DEF SessionSound, SessionData, SessionAssumption
<1>3. ASSUME NEW p \in Jobs PROVE JobSound(table, past, now + 1, job[p])
  <2>1. JobTyped(job[p]) /\ JobSound(table, past, now, job[p])
    BY DEF JobsTyped, CopiesSound
  <2>2. job[p].at \in {"roles", "save"} =>
          job[p].readAt <= now + 1 /\ now + 1 <= job[p].readAt + Span
    BY <1>1, <2>1 DEF JobTyped, JobSound, LoggingIn, Progress, SessionAssumption
  <2>3. HoldsSession(job[p]) => SessionSound(table, past, now + 1, job[p].copy)
    BY <1>2, <2>1 DEF JobTyped, JobSound
  <2> QED
    BY <2>1, <2>2, <2>3 DEF JobSound
<1>4. ASSUME NEW s \in Ids, sessions'[s] # None
      PROVE  now + 1 < sessions'[s].until /\ SessionSound(table, past, now + 1, sessions'[s])
  <2>1. Live(s) /\ now + 1 < sessions[s].until /\ sessions'[s] = sessions[s]
    BY <1>1, <1>4
  <2>2. sessions[s] \in SessionData /\ SessionSound(table, past, now, sessions[s])
    BY <2>1 DEF Live, StoresTyped, CopiesSound
  <2> QED
    BY <1>2, <2>1, <2>2
<1> QED
  BY <1>1, <1>3, <1>4 DEF CopiesSound, Live

LEMMA StepIInv == SessionAssumption /\ IInv /\ [Next]_vars => IInv'
<1> SUFFICES ASSUME SessionAssumption, IInv, [Next]_vars PROVE IInv'
  OBVIOUS
<1>0. FactsTyped /\ StoresTyped /\ ToldTyped /\ JobsTyped /\ CopiesSound
  BY TypedParts DEF IInv
<1> SUFFICES FactsTyped' /\ StoresTyped' /\ ToldTyped' /\ JobsTyped' /\ CopiesSound'
  BY TypedParts DEF IInv, Typed, TypeOK, FactsTyped, StoresTyped, ToldTyped, JobsTyped, JobTyped
<1>1. ASSUME NEW p \in Jobs, Login(p) \/ Refresh(p) \/ Passwording(p) \/ Fail(p)
      PROVE  FactsTyped' /\ StoresTyped' /\ ToldTyped' /\ JobsTyped' /\ CopiesSound'
  <2> PICK w : Acts(p, w)
    BY <1>1, JobActs
  <2>1. JobsTyped' /\ job'[p] = w /\ \A q \in Jobs \ {p} : job'[q] = job[q]
    BY <1>0, StepMoves DEF Acts
  <2>2. UNCHANGED <<now, table, past, told>> /\ StoresTyped'
    BY DEF Acts
  <2>3. \A q \in Jobs : JobSound(table, past, now, job'[q])
    BY <1>0, <2>1 DEF Acts, CopiesSound
  <2>4. \A s \in Ids : sessions'[s] # None =>
          now < sessions'[s].until /\ SessionSound(table, past, now, sessions'[s])
    BY <1>0 DEF Acts, CopiesSound, Live
  <2>5. CopiesSound'
    BY <2>2, <2>3, <2>4 DEF CopiesSound, Live
  <2>6. FactsTyped' /\ ToldTyped'
    BY <1>0, <2>2 DEF FactsTyped, ToldTyped
  <2> QED
    BY <2>1, <2>2, <2>5, <2>6
<1>2. ASSUME NEW r \in Readers, NEW s \in Ids, NEW k \in Kinds, OpenPage(r, s, k)
      PROVE  FactsTyped' /\ StoresTyped' /\ ToldTyped' /\ JobsTyped' /\ CopiesSound'
  <2> DEFINE f == IF k = "active" THEN Active ELSE sessions[s].grants
             x == <<sessions[s].user, k>>
  <2>1. Live(s) /\ told' = [told EXCEPT ![r][x] = f]
        /\ UNCHANGED <<now, table, past, account, used, excused, sessions, refreshes, job>>
    BY <1>2 DEF OpenPage, facts, credentials, stores, refreshes
  <2>2. sessions[s] \in SessionData
    BY <1>0, <2>1 DEF Live, StoresTyped
  <2>3. f \in Facts
    BY <2>2 DEF SessionData, Facts, Active
  <2> HIDE DEF f, x
  <2>4. ToldTyped'
    BY <1>0, <2>1, <2>3 DEF ToldTyped
  <2>5. FactsTyped' /\ StoresTyped' /\ JobsTyped' /\ CopiesSound'
    BY <1>0, <2>1 DEF refreshes, FactsTyped, StoresTyped, JobsTyped, CopiesSound, Live
  <2> QED
    BY <2>4, <2>5
<1>3. ASSUME NEW s \in Ids, LogoutDashboard(s) \/ Evict(s)
      PROVE  FactsTyped' /\ StoresTyped' /\ ToldTyped' /\ JobsTyped' /\ CopiesSound'
  <2>1. /\ sessions' = [sessions EXCEPT ![s] = None]
        /\ UNCHANGED <<now, table, past, account, used, excused, refreshes, job, told>>
    BY <1>3 DEF LogoutDashboard, Evict, facts, credentials
  <2>2. StoresTyped' /\ \A r \in Ids : sessions'[r] # None => sessions'[r] = sessions[r]
    BY <1>0, <2>1 DEF StoresTyped, refreshes
  <2>3. FactsTyped' /\ ToldTyped' /\ JobsTyped'
    BY <1>0, <2>1 DEF FactsTyped, ToldTyped, JobsTyped
  <2>4. CopiesSound'
    BY <1>0, <2>1, <2>2 DEF CopiesSound, Live
  <2> QED
    BY <2>2, <2>3, <2>4
<1>4. ASSUME NEW t \in Tokens, DropToken(t)
      PROVE  FactsTyped' /\ StoresTyped' /\ ToldTyped' /\ JobsTyped' /\ CopiesSound'
  BY <1>0, <1>4 DEF DropToken, facts, credentials, FactsTyped, StoresTyped, ToldTyped, JobsTyped,
     CopiesSound, Live
<1>5. ASSUME NEW u \in Users, Administer(u)
      PROVE  FactsTyped' /\ StoresTyped' /\ ToldTyped' /\ JobsTyped' /\ CopiesSound'
  <2> PICK s \in Subjects, f \in Facts : Write(s, f) /\ (s[2] = "grants" => f \in SUBSET Grants)
    BY <1>0, <1>5, ChangesAreWrites
  <2>1. FactsTyped'
    BY <1>0, WriteTyped
  <2>2. UNCHANGED <<account, used, excused, sessions, refreshes, job, told>>
    BY DEF Write, credentials, stores, refreshes
  <2>3. StoresTyped' /\ ToldTyped' /\ JobsTyped'
    BY <1>0, <2>2 DEF refreshes, StoresTyped, ToldTyped, JobsTyped
  <2>4. \A p \in Jobs : JobSound(table', past', now', job[p])
    BY <1>0, JobSoundStable DEF JobsTyped, CopiesSound
  <2>5. ASSUME NEW r \in Ids, Live(r)
        PROVE  now' < sessions[r].until /\ SessionSound(table', past', now', sessions[r])
    <3>1. sessions[r] \in SessionData
      BY <1>0, <2>5 DEF Live, StoresTyped
    <3>2. now' = now
      BY DEF Write
    <3> QED
      BY <1>0, <2>5, <3>1, <3>2, SessionSoundStable DEF CopiesSound
  <2>6. CopiesSound'
    BY <2>2, <2>4, <2>5 DEF CopiesSound, Live
  <2> QED
    BY <2>1, <2>3, <2>6
<1>6. ASSUME Tick
      PROVE  FactsTyped' /\ StoresTyped' /\ ToldTyped' /\ JobsTyped' /\ CopiesSound'
  <2>1. FactsTyped' /\ StoresTyped' /\ ToldTyped' /\ JobsTyped'
    BY <1>0, <1>6 DEF Tick, facts, credentials, refreshes, FactsTyped, StoresTyped, ToldTyped, JobsTyped
  <2> QED
    BY <1>0, <1>6, <2>1, TickSound
<1>7. ASSUME UNCHANGED vars
      PROVE  FactsTyped' /\ StoresTyped' /\ ToldTyped' /\ JobsTyped' /\ CopiesSound'
  BY <1>0, <1>7 DEF vars, facts, credentials, stores, refreshes, FactsTyped, StoresTyped, ToldTyped,
     JobsTyped, CopiesSound, Live
<1> QED
  BY <1>1, <1>2, <1>3, <1>4, <1>5, <1>6, <1>7 DEF Next

LEMMA InitIInv == Init => IInv
<1> SUFFICES ASSUME Init PROVE IInv
  OBVIOUS
<1>1. FactsTyped /\ ToldTyped
  BY DEF Init, FactsTyped, ToldTyped, Nothing
<1>2. \A p \in Jobs : job[p] = Idle
  BY DEF Init
<1>3. JobsTyped
  <2>1. job \in [Jobs -> Progress]
    BY IdleTyped DEF Init, JobTyped
  <2> QED
    BY <1>2, <2>1, IdleTyped DEF JobsTyped
<1>4. StoresTyped
  <2>1. account \in [Users -> Rows] /\ \A u \in Users : account[u].password \in Temporary
    BY DEF Init, Rows, Passwords
  <2> QED
    BY <2>1 DEF Init, StoresTyped
<1>5. CopiesSound
  BY <1>2, IdleSound DEF Init, CopiesSound, Live
<1> QED
  BY <1>1, <1>3, <1>4, <1>5, TypedParts DEF IInv

LEMMA Invariant ==
  ASSUME SessionAssumption
  PROVE  Spec => []IInv
<1>1. IInv /\ [Next]_vars => IInv'
  BY StepIInv
<1> QED
  BY <1>1, InitIInv, PTL DEF Spec

\* Accounts, sessions, tokens and requests keep their shape.
THEOREM TypeCorrect == SessionAssumption /\ Spec => []TypeOK
<1> SUFFICES ASSUME SessionAssumption PROVE Spec => []TypeOK
  OBVIOUS
<1>1. IInv => TypeOK
  BY DEF IInv, Typed
<1> QED
  BY <1>1, Invariant, PTL

-------------------------------------------------------------------------------
(* Temporary passwords. *)

\* A reset that is under way ends by setting the flag or excusing its account;
\* what other requests do leaves it under way.
LEMMA ResetsKept ==
  ASSUME JobsTyped, NEW p \in Jobs, NEW w, Step(p, w), job[p].at # "flag", NEW u
  PROVE  Resetting(u) => Resetting(u)'
  BY DEF JobsTyped, Step, Resetting

LEMMA DemandsKept ==
  ASSUME TemporaryDemandsChange, UNCHANGED <<account, excused>>,
         \A u \in Users : Resetting(u) => Resetting(u)'
  PROVE  TemporaryDemandsChange'
  BY DEF TemporaryDemandsChange

LEMMA AccountDemands ==
  ASSUME Typed, TemporaryDemandsChange, NEW p \in Jobs,
         \/ ChangePassword(p)
         \/ \E u \in Users, word \in Temporary : ResetPassword(p, u, word)
         \/ SetForcePasswordChange(p)
  PROVE  TemporaryDemandsChange'
<1>0. StoresTyped /\ JobsTyped /\ JobTyped(job[p])
  BY TypedParts DEF JobsTyped
<1> SUFFICES ASSUME NEW v \in Users, account'[v].password \in Temporary
             PROVE  account'[v].force \/ Resetting(v)' \/ v \in excused'
  BY DEF TemporaryDemandsChange
<1>1. CASE ChangePassword(p)
  <2> DEFINE u == job[p].user
             w == IF job[p].dashboard THEN [job[p] EXCEPT !.at = "resave"] ELSE Idle
  <2>1. /\ job[p].at = "update" /\ Step(p, w)
        /\ account' = [account EXCEPT ![u] = [password |-> job[p].word, force |-> FALSE]]
        /\ excused' = excused \cup (IF job[p].word \in Temporary THEN {u} ELSE {})
    BY <1>1 DEF ChangePassword, UpdateUserPassword
  <2> HIDE DEF w
  <2>2. CASE v = u
    BY <1>0, <2>1, <2>2 DEF StoresTyped
  <2>3. CASE v # u
    <3>1. account'[v] = account[v] /\ (v \in excused => v \in excused')
      BY <1>0, <2>1, <2>3 DEF StoresTyped
    <3>2. Resetting(v) => Resetting(v)'
      BY <1>0, <2>1, ResetsKept
    <3> QED
      BY <3>1, <3>2 DEF TemporaryDemandsChange
  <2> QED
    BY <2>2, <2>3
<1>2. ASSUME NEW u \in Users, NEW word \in Temporary, ResetPassword(p, u, word)
      PROVE  account'[v].force \/ Resetting(v)' \/ v \in excused'
  <2> DEFINE w == [Idle EXCEPT !.at = "flag", !.user = u]
  <2>1. /\ job[p].at = "idle" /\ Step(p, w)
        /\ account' = [account EXCEPT ![u] = [password |-> word, force |-> FALSE]]
        /\ excused' = excused \ {u}
    BY <1>2 DEF ResetPassword, UpdateUserPassword
  <2>2. w.at = "flag" /\ w.user = u
    BY DEF Idle
  <2> HIDE DEF w
  <2>3. CASE v = u
    BY <1>0, <2>1, <2>2, <2>3 DEF JobsTyped, Step, Resetting
  <2>4. CASE v # u
    <3>1. account'[v] = account[v] /\ (v \in excused => v \in excused')
      BY <1>0, <2>1, <2>4 DEF StoresTyped
    <3>2. Resetting(v) => Resetting(v)'
      BY <1>0, <2>1, ResetsKept
    <3> QED
      BY <3>1, <3>2 DEF TemporaryDemandsChange
  <2> QED
    BY <2>3, <2>4
<1>3. CASE SetForcePasswordChange(p)
  <2> DEFINE u == job[p].user
  <2>1. /\ job[p].at = "flag" /\ Step(p, Idle)
        /\ \/ account' = [account EXCEPT ![u].force = TRUE] /\ UNCHANGED excused
           \/ UNCHANGED account /\ excused' = excused \cup {u}
    BY <1>3 DEF SetForcePasswordChange, SetFlag
  <2>2. CASE v = u
    BY <1>0, <2>1, <2>2 DEF StoresTyped, Rows
  <2>3. CASE v # u
    <3>1. account'[v] = account[v] /\ (v \in excused => v \in excused')
      BY <1>0, <2>1, <2>3 DEF StoresTyped
    <3>2. Resetting(v) => Resetting(v)'
      BY <1>0, <2>1, <2>3 DEF JobsTyped, Step, Resetting
    <3> QED
      BY <3>1, <3>2 DEF TemporaryDemandsChange
  <2> QED
    BY <2>2, <2>3
<1> QED
  BY <1>1, <1>2, <1>3

LEMMA StepDemands == Typed /\ TemporaryDemandsChange /\ [Next]_vars => TemporaryDemandsChange'
<1> SUFFICES ASSUME Typed, TemporaryDemandsChange, [Next]_vars PROVE TemporaryDemandsChange'
  OBVIOUS
<1>0. JobsTyped
  BY TypedParts
<1>1. ASSUME NEW p \in Jobs, NEW w, Step(p, w), job[p].at # "flag",
             UNCHANGED <<account, excused>>
      PROVE  TemporaryDemandsChange'
  BY <1>0, <1>1, ResetsKept, DemandsKept
<1>2. ASSUME NEW p \in Jobs, Login(p) PROVE TemporaryDemandsChange'
  <2>1. (\E w : Step(p, w)) /\ job[p].at # "flag" /\ UNCHANGED <<account, excused>>
    BY <1>2 DEF Login, AuthenticateUser, GetActiveRolesForUser, LoginDashboard, IssueTokens,
       credentials
  <2> QED
    BY <1>1, <2>1
<1>3. ASSUME NEW p \in Jobs, Refresh(p) \/ Fail(p) PROVE TemporaryDemandsChange'
  <2>1. (\E w : Step(p, w)) /\ job[p].at # "flag" /\ UNCHANGED <<account, excused>>
    BY <1>3 DEF Refresh, Fail, GetRefreshToken, DeleteRefreshToken, credentials
  <2> QED
    BY <1>1, <2>1
<1>4. ASSUME NEW p \in Jobs, Passwording(p) PROVE TemporaryDemandsChange'
  <2>1. CASE \/ \E s \in Ids : SubmitPasswordForm(p, s)
             \/ \E u \in Users : PostPassword(p, u)
             \/ \E word \in Passwords : CompareHash(p, word)
             \/ ResaveSession(p)
    <3>1. (\E w : Step(p, w)) /\ job[p].at # "flag" /\ UNCHANGED <<account, excused>>
      BY <2>1 DEF SubmitPasswordForm, PostPassword, CompareHash, ResaveSession, credentials
    <3> QED
      BY <1>1, <3>1
  <2> QED
    BY <1>4, <2>1, AccountDemands DEF Passwording
<1>5. ASSUME \/ \E r \in Readers, s \in Ids, k \in Kinds : OpenPage(r, s, k)
             \/ \E s \in Ids : LogoutDashboard(s) \/ Evict(s)
             \/ \E t \in Tokens : DropToken(t)
             \/ \E u \in Users : Administer(u)
             \/ Tick \/ UNCHANGED vars
      PROVE  UNCHANGED <<account, excused, job>>
  BY <1>5 DEF OpenPage, LogoutDashboard, Evict, DropToken, Administer, SetUserActive, GrantRole,
     RevokeRole, Write, Tick, vars, credentials
<1>6. CASE UNCHANGED <<account, excused, job>>
  BY <1>6, DemandsKept DEF Resetting
<1> QED
  BY <1>2, <1>3, <1>4, <1>5, <1>6 DEF Next

\* However resets, changes, logins and their failures interleave, an account
\* whose password an administrator set demands its change, unless its reset is
\* under way or its flag was lost in one of the two ways the code allows.
THEOREM TemporaryPasswordsDemandChange ==
  SessionAssumption /\ Spec => []TemporaryDemandsChange
<1> SUFFICES ASSUME SessionAssumption PROVE Spec => []TemporaryDemandsChange
  OBVIOUS
<1>1. Init => TemporaryDemandsChange
  BY DEF Init, TemporaryDemandsChange
<1>2. IInv => Typed
  BY DEF IInv
<1> QED
  BY <1>1, <1>2, StepDemands, Invariant, PTL DEF Spec

-------------------------------------------------------------------------------
(* Refresh tokens. *)

Replaces(p) == job[p].at = "token" /\ job[p].key # None
Spoiled(K, C, r) == \E k \in K : C[k] = r

\* A token that was drawn, of a login whose first token was.
Drawn(t, C, U) == t \in U /\ C[t] \in Tokens /\ C[t] \in U

\* What works, what is being exchanged and what was kept was drawn.
TokensDrawn ==
  /\ \A t \in Tokens : tokens[t] # None => Drawn(t, chain, used)
  /\ kept \subseteq used
  /\ \A p \in Jobs : job[p].at = "exchange" \/ Replaces(p) => Drawn(job[p].key, chain, used)

\* A login that no failed deletion touched is held by one token, or by one
\* refresh that has deleted the token and not yet saved its successor.
OneHolder ==
  /\ \A s, t \in Tokens :
       s # t /\ tokens[s] # None /\ tokens[t] # None /\ chain[s] = chain[t] => Spoiled(kept, chain, chain[t])
  /\ \A t \in Tokens, p \in Jobs :
       tokens[t] # None /\ Replaces(p) /\ chain[job[p].key] = chain[t] => Spoiled(kept, chain, chain[t])
  /\ \A p, q \in Jobs :
       p # q /\ Replaces(p) /\ Replaces(q) /\ chain[job[p].key] = chain[job[q].key]
         => Spoiled(kept, chain, chain[job[q].key])

TokensInv == TokensDrawn /\ OneHolder

\* The steps that make no token work and put no refresh between its two calls.
Quiet ==
  /\ \A t \in Tokens : tokens'[t] = tokens[t] \/ tokens'[t] = None
  /\ chain' = chain /\ kept' = kept /\ used \subseteq used'
  /\ \A p \in Jobs : /\ Replaces(p)' => job'[p] = job[p]
                     /\ job'[p].at = "exchange" => Drawn(job'[p].key, chain', used')

LEMMA QuietKeeps == TokensInv /\ Quiet => TokensInv'
<1> SUFFICES ASSUME TokensInv, Quiet PROVE TokensInv'
  OBVIOUS
<1>1. \A r : Spoiled(kept', chain', r) <=> Spoiled(kept, chain, r)
  BY DEF Quiet, Spoiled
<1>2. \A p \in Jobs : Replaces(p)' => Replaces(p) /\ job'[p] = job[p]
  BY DEF Quiet, Replaces
<1>3. TokensDrawn'
  <2>0. \A t : Drawn(t, chain, used) => Drawn(t, chain', used')
    BY DEF Quiet, Drawn
  <2>1. /\ \A t \in Tokens : tokens'[t] # None => Drawn(t, chain', used')
        /\ kept' \subseteq used'
    BY <2>0 DEF Quiet, TokensInv, TokensDrawn
  <2>2. \A p \in Jobs : job'[p].at = "exchange" => Drawn(job'[p].key, chain', used')
    BY DEF Quiet
  <2>3. \A p \in Jobs : Replaces(p)' => Drawn(job'[p].key, chain', used')
    BY <1>2, <2>0 DEF Quiet, TokensInv, TokensDrawn
  <2> QED
    BY <2>1, <2>2, <2>3 DEF TokensDrawn, Quiet
<1>4. OneHolder'
  BY <1>1, <1>2 DEF Quiet, TokensInv, OneHolder
<1> QED
  BY <1>3, <1>4 DEF TokensInv

\* A request that moves to a step which holds no token.
LEMMA MovesQuietly ==
  ASSUME Typed, TokensInv, NEW p \in Jobs, NEW w, Step(p, w),
         w.at = "token" => w.key = None,
         w.at = "exchange" => Drawn(w.key, chain, used),
         UNCHANGED refreshes, used \subseteq used'
  PROVE  Quiet
<1>1. job'[p] = w /\ \A q \in Jobs \ {p} : job'[q] = job[q]
  BY TypedParts DEF Step, JobsTyped
<1>2. \A q \in Jobs : Replaces(q)' => job'[q] = job[q]
  BY <1>1 DEF Replaces
<1>3. \A q \in Jobs : job'[q].at = "exchange" => Drawn(job'[q].key, chain', used')
  BY <1>1 DEF TokensInv, TokensDrawn, Drawn, refreshes
<1> QED
  BY <1>2, <1>3 DEF Quiet, refreshes

\* The new token takes the place of the refresh that saves it, or begins a login.
LEMMA IssueKeeps ==
  ASSUME Typed, TokensInv, NEW p \in Jobs, NEW t \in Tokens, IssueTokens(p, t)
  PROVE  TokensInv'
<1>1. /\ job[p].at = "token" /\ t \notin used /\ tokens' = [tokens EXCEPT ![t] = job[p].user]
      /\ used' = used \cup {t} /\ kept' = kept /\ Step(p, Idle)
      /\ chain' = [chain EXCEPT ![t] = IF job[p].key = None THEN t ELSE chain[job[p].key]]
  BY DEF IssueTokens, SaveRefreshToken
<1>2. /\ tokens \in [Tokens -> {None} \cup Users] /\ chain \in [Tokens -> {None} \cup Tokens]
      /\ job[p].key \in {None} \cup Tokens
  BY <1>1, TypedParts DEF StoresTyped, JobsTyped, JobTyped
<1>3. /\ job'[p] = Idle /\ \A q \in Jobs \ {p} : job'[q] = job[q]
  BY <1>1, TypedParts DEF Step, JobsTyped
<1>4. ~Replaces(p)' /\ job'[p].at # "exchange" /\ \A q \in Jobs \ {p} : Replaces(q)' <=> Replaces(q)
  BY <1>3 DEF Replaces, Idle
<1>5. \A k \in used : k \in Tokens => chain'[k] = chain[k] /\ tokens'[k] = tokens[k]
  BY <1>1, <1>2
<1>6. \A k \in Tokens \ {t} : tokens'[k] = tokens[k] /\ chain'[k] = chain[k]
  BY <1>1, <1>2
<1>7. \A k \in Tokens : tokens[k] # None => k \in used /\ chain[k] \in used /\ chain[k] \in Tokens
  BY DEF TokensInv, TokensDrawn, Drawn
<1>8. \A q \in Jobs : Replaces(q) =>
        /\ job[q].key \in used /\ job[q].key \in Tokens
        /\ chain[job[q].key] \in used /\ chain[job[q].key] \in Tokens
  BY TypedParts DEF TokensInv, TokensDrawn, Drawn, Replaces, JobsTyped, JobTyped
<1>9. kept \subseteq used /\ kept \subseteq Tokens
  BY TypedParts DEF TokensInv, TokensDrawn, StoresTyped
<1>10. \A r : Spoiled(kept', chain', r) <=> Spoiled(kept, chain, r)
  BY <1>1, <1>5, <1>9 DEF Spoiled
<1>11. \/ ~Replaces(p) /\ chain'[t] = t
       \/ Replaces(p) /\ chain'[t] = chain[job[p].key]
  BY <1>1, <1>2 DEF Replaces
<1>12. Drawn(t, chain', used')
  BY <1>1, <1>8, <1>11 DEF Drawn
<1>13. TokensDrawn'
  <2>1. \A k \in Tokens : k # t /\ Drawn(k, chain, used) => Drawn(k, chain', used')
    BY <1>1, <1>6 DEF Drawn
  <2>2. \A k \in Tokens : tokens'[k] # None => Drawn(k, chain', used')
    BY <1>6, <1>12, <2>1 DEF TokensInv, TokensDrawn
  <2>3. ASSUME NEW q \in Jobs, job'[q].at = "exchange" \/ Replaces(q)'
        PROVE  Drawn(job'[q].key, chain', used')
    <3>1. q # p /\ job'[q] = job[q] /\ (job[q].at = "exchange" \/ Replaces(q))
      BY <1>3, <1>4, <2>3
    <3>2. Drawn(job[q].key, chain, used)
      BY <3>1 DEF TokensInv, TokensDrawn
    <3>3. job[q].key \in Tokens
      BY <3>1, TypedParts DEF JobsTyped, JobTyped, Replaces
    <3>4. job[q].key # t
      BY <1>1, <3>2 DEF Drawn
    <3> QED
      BY <2>1, <3>1, <3>2, <3>3, <3>4
  <2> QED
    BY <1>1, <1>9, <2>2, <2>3 DEF TokensDrawn
\* A working token of the login that t belongs to shows that it is spoiled.
<1>14. ASSUME NEW k \in Tokens, k # t, tokens[k] # None, chain[k] = chain'[t]
       PROVE  Spoiled(kept, chain, chain'[t])
  <2>1. Replaces(p) /\ chain[job[p].key] = chain[k]
    BY <1>1, <1>7, <1>11, <1>14
  <2> QED
    BY <1>14, <2>1 DEF TokensInv, OneHolder
<1>15. ASSUME NEW q \in Jobs, q # p, Replaces(q), chain[job[q].key] = chain'[t]
       PROVE  Spoiled(kept, chain, chain'[t])
  <2>1. Replaces(p) /\ chain[job[p].key] = chain[job[q].key]
    BY <1>1, <1>8, <1>11, <1>15
  <2> QED
    BY <1>15, <2>1 DEF TokensInv, OneHolder
<1>16. OneHolder'
  <2>1. ASSUME NEW k \in Tokens, NEW m \in Tokens, k # m, tokens'[k] # None, tokens'[m] # None,
               chain'[k] = chain'[m]
        PROVE  Spoiled(kept, chain, chain'[m])
    <3>1. CASE k # t /\ m # t
      BY <1>6, <2>1, <3>1 DEF TokensInv, OneHolder
    <3>2. CASE k = t \/ m = t
      BY <1>6, <1>14, <2>1, <3>2
    <3> QED
      BY <3>1, <3>2
  <2>2. ASSUME NEW k \in Tokens, NEW q \in Jobs, tokens'[k] # None, Replaces(q)',
               chain'[job'[q].key] = chain'[k]
        PROVE  Spoiled(kept, chain, chain'[k])
    <3>1. q # p /\ Replaces(q) /\ job'[q] = job[q] /\ chain'[job[q].key] = chain[job[q].key]
      BY <1>3, <1>4, <1>5, <1>8, <2>2
    <3>2. CASE k # t
      BY <1>6, <2>2, <3>1, <3>2 DEF TokensInv, OneHolder
    <3>3. CASE k = t
      BY <1>15, <2>2, <3>1, <3>3
    <3> QED
      BY <3>2, <3>3
  <2>3. ASSUME NEW q \in Jobs, NEW o \in Jobs, q # o, Replaces(q)', Replaces(o)',
               chain'[job'[q].key] = chain'[job'[o].key]
        PROVE  Spoiled(kept, chain, chain'[job'[o].key])
    <3>1. /\ q # p /\ Replaces(q) /\ job'[q] = job[q] /\ chain'[job[q].key] = chain[job[q].key]
          /\ o # p /\ Replaces(o) /\ job'[o] = job[o] /\ chain'[job[o].key] = chain[job[o].key]
      BY <1>3, <1>4, <1>5, <1>8, <2>3
    <3> QED
      BY <2>3, <3>1 DEF TokensInv, OneHolder
  <2> QED
    BY <1>10, <2>1, <2>2, <2>3 DEF OneHolder
<1> QED
  BY <1>13, <1>16 DEF TokensInv

\* A deletion hands the login from the token to the refresh, or spoils it.
LEMMA DeleteKeeps ==
  ASSUME Typed, TokensInv, NEW p \in Jobs, DeleteRefreshToken(p)
  PROVE  TokensInv'
<1>0. job[p].at = "exchange" /\ job[p].key \in Tokens
  BY TypedParts DEF DeleteRefreshToken, JobsTyped, JobTyped
<1> PICK k \in Tokens : k = job[p].key
  BY <1>0
<1>1. /\ job[p].at = "exchange" /\ Step(p, [job[p] EXCEPT !.at = "token"])
      /\ tokens' = [tokens EXCEPT ![k] = None] \/ UNCHANGED tokens
      /\ kept' = kept \cup (IF tokens' = tokens THEN {k} ELSE {})
      /\ chain' = chain /\ used' = used
  BY DEF DeleteRefreshToken, credentials
<1>2. /\ tokens \in [Tokens -> {None} \cup Users]
      /\ Drawn(k, chain, used) /\ k \in used /\ job[p] \in Progress
  BY <1>1, TypedParts DEF StoresTyped, JobsTyped, JobTyped, TokensInv, TokensDrawn, Drawn
<1>3. job'[p].key = k /\ job'[p].at = "token" /\ \A q \in Jobs \ {p} : job'[q] = job[q]
  BY <1>1, <1>2, TypedParts DEF Step, JobsTyped, Progress
<1>4. \A q \in Jobs \ {p} : Replaces(q)' <=> Replaces(q)
  BY <1>3 DEF Replaces
<1>5. \A r : Spoiled(kept, chain, r) => Spoiled(kept', chain', r)
  BY <1>1 DEF Spoiled
<1>6. \A t \in Tokens : tokens'[t] # None => tokens[t] # None
  BY <1>1, <1>2
<1>7. \/ Spoiled(kept', chain', chain[k])
      \/ tokens[k] # None /\ tokens'[k] = None
  BY <1>1, <1>2 DEF Spoiled
<1>8. TokensDrawn'
  <2>1. \A t \in Tokens : tokens'[t] # None => Drawn(t, chain', used')
    BY <1>1, <1>6 DEF TokensInv, TokensDrawn, Drawn
  <2>2. ASSUME NEW q \in Jobs, job'[q].at = "exchange" \/ Replaces(q)'
        PROVE  Drawn(job'[q].key, chain', used')
    <3>1. CASE q = p
      BY <1>1, <1>2, <1>3, <3>1 DEF Drawn
    <3>2. CASE q # p
      BY <1>1, <1>3, <1>4, <2>2, <3>2 DEF TokensInv, TokensDrawn, Drawn
    <3> QED
      BY <3>1, <3>2
  <2>3. kept' \subseteq used'
    BY <1>1, <1>2 DEF TokensInv, TokensDrawn
  <2> QED
    BY <2>1, <2>2, <2>3 DEF TokensDrawn
<1>9. ASSUME NEW t \in Tokens, tokens'[t] # None, chain[k] = chain[t]
      PROVE  Spoiled(kept', chain', chain[t])
  <2>1. CASE Spoiled(kept', chain', chain[k])
    BY <1>9, <2>1
  <2>2. CASE tokens[k] # None /\ tokens'[k] = None
    BY <1>2, <1>5, <1>6, <1>9, <2>2 DEF TokensInv, OneHolder
  <2> QED
    BY <1>7, <2>1, <2>2
<1>10. ASSUME NEW q \in Jobs, q # p, Replaces(q), chain[job[q].key] = chain[k]
       PROVE  Spoiled(kept', chain', chain[k])
  <2>1. CASE tokens[k] # None
    BY <1>2, <1>5, <1>10, <2>1 DEF TokensInv, OneHolder
  <2> QED
    BY <1>7, <2>1
<1>11. OneHolder'
  <2>1. ASSUME NEW s \in Tokens, NEW t \in Tokens, s # t, tokens'[s] # None, tokens'[t] # None,
               chain[s] = chain[t]
        PROVE  Spoiled(kept', chain', chain[t])
    BY <1>5, <1>6, <2>1 DEF TokensInv, OneHolder
  <2>2. ASSUME NEW t \in Tokens, NEW q \in Jobs, tokens'[t] # None, Replaces(q)',
               chain[job'[q].key] = chain[t]
        PROVE  Spoiled(kept', chain', chain[t])
    <3>1. CASE q = p
      BY <1>3, <1>9, <2>2, <3>1
    <3>2. CASE q # p
      <4>1. Replaces(q) /\ job'[q] = job[q] /\ tokens[t] # None
        BY <1>3, <1>4, <1>6, <2>2, <3>2
      <4> QED
        BY <1>5, <2>2, <4>1 DEF TokensInv, OneHolder
    <3> QED
      BY <3>1, <3>2
  <2>3. ASSUME NEW q \in Jobs, NEW o \in Jobs, q # o, Replaces(q)', Replaces(o)',
               chain[job'[q].key] = chain[job'[o].key]
        PROVE  Spoiled(kept', chain', chain[job'[o].key])
    <3>1. CASE q = p
      BY <1>3, <1>4, <1>10, <2>3, <3>1
    <3>2. CASE o = p
      BY <1>3, <1>4, <1>10, <2>3, <3>2
    <3>3. CASE q # p /\ o # p
      <4>1. Replaces(q) /\ Replaces(o) /\ job'[q] = job[q] /\ job'[o] = job[o]
        BY <1>3, <1>4, <2>3, <3>3
      <4> QED
        BY <1>5, <2>3, <4>1 DEF TokensInv, OneHolder
    <3> QED
      BY <3>1, <3>2, <3>3
  <2> QED
    BY <1>1, <2>1, <2>2, <2>3 DEF OneHolder
<1> QED
  BY <1>8, <1>11 DEF TokensInv

LEMMA StepTokens == Typed /\ TokensInv /\ [Next]_vars => TokensInv'
<1> SUFFICES ASSUME Typed, TokensInv, [Next]_vars PROVE TokensInv'
  OBVIOUS
<1>0. StoresTyped /\ JobsTyped
  BY TypedParts
<1>1. ASSUME NEW p \in Jobs, NEW w, Step(p, w), w.at = "token" => w.key = None,
             w.at = "exchange" => Drawn(w.key, chain, used), UNCHANGED refreshes,
             used \subseteq used'
      PROVE  TokensInv'
  BY <1>1, MovesQuietly, QuietKeeps
<1>2. ASSUME NEW p \in Jobs, Login(p) PROVE TokensInv'
  <2>1. ASSUME NEW u \in Users, NEW dash \in BOOLEAN, AuthenticateUser(p, u, dash)
        PROVE  TokensInv'
    <3> DEFINE w == [Idle EXCEPT !.at = "roles", !.user = u, !.word = account[u].password,
                !.dashboard = dash, !.readAt = now,
                !.copy = [user |-> u, grants |-> {}, force |-> account[u].force, until |-> 0]]
    <3>1. w.at = "roles"
      BY DEF Idle
    <3>2. Step(p, w) /\ UNCHANGED refreshes /\ used' = used
      BY <2>1 DEF AuthenticateUser, stores, credentials
    <3> HIDE DEF w
    <3> QED
      BY <1>1, <3>1, <3>2
  <2>2. CASE GetActiveRolesForUser(p)
    <3> DEFINE w == [job[p] EXCEPT !.at = IF job[p].dashboard THEN "save" ELSE "token",
                !.copy.grants = table[<<job[p].user, "grants">>]]
    <3>1. job[p].at = "roles" /\ job[p] \in Progress /\ job[p].key = None
      BY <1>0, <2>2 DEF GetActiveRolesForUser, JobsTyped, JobTyped
    <3>2. w.key = None /\ w.at # "exchange"
      BY <3>1 DEF Progress
    <3>3. Step(p, w) /\ UNCHANGED refreshes /\ used' = used
      BY <2>2 DEF GetActiveRolesForUser, stores, credentials
    <3> HIDE DEF w
    <3> QED
      BY <1>1, <3>2, <3>3
  <2>3. ASSUME NEW s \in Ids, LoginDashboard(p, s) PROVE TokensInv'
    BY <1>1, <2>3, IdleTyped DEF LoginDashboard
  <2> QED
    BY <1>2, <2>1, <2>2, <2>3, IssueKeeps DEF Login
<1>3. ASSUME NEW p \in Jobs, Refresh(p) PROVE TokensInv'
  <2>1. ASSUME NEW t \in Tokens, GetRefreshToken(p, t) PROVE TokensInv'
    <3> DEFINE w == [Idle EXCEPT !.at = "exchange", !.user = tokens[t], !.key = t]
    <3>1. w.at = "exchange" /\ w.key = t
      BY DEF Idle
    <3>2. Step(p, w) /\ UNCHANGED refreshes /\ used' = used /\ tokens[t] # None
      BY <2>1 DEF GetRefreshToken, stores, credentials
    <3>3. Drawn(t, chain, used)
      BY <3>2 DEF TokensInv, TokensDrawn
    <3> HIDE DEF w
    <3> QED
      BY <1>1, <3>1, <3>2, <3>3
  <2> QED
    BY <1>3, <2>1, DeleteKeeps DEF Refresh
<1>4. ASSUME NEW p \in Jobs, Passwording(p) PROVE TokensInv'
  <2>1. ASSUME NEW s \in Ids, SubmitPasswordForm(p, s) PROVE TokensInv'
    <3> DEFINE w == [Idle EXCEPT !.at = "compare", !.user = sessions[s].user,
                !.key = s, !.copy = sessions[s], !.dashboard = TRUE]
    <3>1. w.at = "compare"
      BY DEF Idle
    <3>2. Step(p, w) /\ UNCHANGED refreshes /\ used' = used
      BY <2>1 DEF SubmitPasswordForm, stores, credentials
    <3> HIDE DEF w
    <3> QED
      BY <1>1, <3>1, <3>2
  <2>2. ASSUME NEW u \in Users, PostPassword(p, u) PROVE TokensInv'
    <3> DEFINE w == [Idle EXCEPT !.at = "compare", !.user = u]
    <3>1. w.at = "compare"
      BY DEF Idle
    <3>2. Step(p, w) /\ UNCHANGED refreshes /\ used' = used
      BY <2>2 DEF PostPassword, stores, credentials
    <3> HIDE DEF w
    <3> QED
      BY <1>1, <3>1, <3>2
  <2>3. ASSUME NEW word \in Passwords, CompareHash(p, word) PROVE TokensInv'
    <3> DEFINE w == [job[p] EXCEPT !.at = "update", !.word = word]
    <3>1. w.at = "update"
      BY <1>0 DEF JobsTyped, Progress
    <3>2. Step(p, w) /\ UNCHANGED refreshes /\ used' = used
      BY <2>3 DEF CompareHash, stores, credentials
    <3> HIDE DEF w
    <3> QED
      BY <1>1, <3>1, <3>2
  <2>4. CASE ChangePassword(p)
    <3> DEFINE r == [job[p] EXCEPT !.at = "resave"]
               w == IF job[p].dashboard THEN r ELSE Idle
    <3>1. r.at = "resave"
      BY <1>0 DEF JobsTyped, Progress
    <3> HIDE DEF r
    <3>2. w.at \notin {"token", "exchange"}
      BY <3>1, IdleTyped
    <3>3. Step(p, w) /\ UNCHANGED refreshes /\ used' = used
      BY <2>4 DEF ChangePassword, stores, r
    <3> HIDE DEF w
    <3> QED
      BY <1>1, <3>2, <3>3
  <2>5. CASE ResaveSession(p) \/ SetForcePasswordChange(p)
    <3>1. Step(p, Idle) /\ UNCHANGED refreshes /\ used' = used
      BY <2>5 DEF ResaveSession, SetForcePasswordChange, stores, credentials
    <3> QED
      BY <1>1, <3>1, IdleTyped
  <2>6. ASSUME NEW u \in Users, NEW word \in Temporary, ResetPassword(p, u, word)
        PROVE  TokensInv'
    <3> DEFINE w == [Idle EXCEPT !.at = "flag", !.user = u]
    <3>1. w.at = "flag"
      BY DEF Idle
    <3>2. Step(p, w) /\ UNCHANGED refreshes /\ used \subseteq used'
      BY <2>6 DEF ResetPassword, stores
    <3> HIDE DEF w
    <3> QED
      BY <1>1, <3>1, <3>2
  <2> QED
    BY <1>4, <2>1, <2>2, <2>3, <2>4, <2>5, <2>6 DEF Passwording
<1>5. ASSUME NEW p \in Jobs, Fail(p) PROVE TokensInv'
  <2>1. Step(p, Idle) /\ UNCHANGED refreshes /\ used' = used
    BY <1>5 DEF Fail, stores, credentials
  <2> QED
    BY <1>1, <2>1, IdleTyped
<1>6. ASSUME NEW t \in Tokens, DropToken(t) PROVE TokensInv'
  <2>1. Quiet
    BY <1>0, <1>6 DEF DropToken, Quiet, StoresTyped, credentials, TokensInv, TokensDrawn
  <2> QED
    BY <2>1, QuietKeeps
<1>7. ASSUME \/ \E r \in Readers, s \in Ids, k \in Kinds : OpenPage(r, s, k)
             \/ \E s \in Ids : LogoutDashboard(s) \/ Evict(s)
             \/ \E u \in Users : Administer(u)
             \/ Tick \/ UNCHANGED vars
      PROVE  TokensInv'
  <2>1. UNCHANGED <<refreshes, used, job>>
    BY <1>7 DEF OpenPage, LogoutDashboard, Evict, Administer, SetUserActive, GrantRole,
       RevokeRole, Write, Tick, vars, stores, credentials
  <2>2. Quiet
    BY <2>1 DEF Quiet, refreshes, TokensInv, TokensDrawn
  <2> QED
    BY <2>2, QuietKeeps
<1> QED
  BY <1>2, <1>3, <1>4, <1>5, <1>6, <1>7 DEF Next

\* However refreshes, logouts and their failures interleave, two refresh tokens of
\* one login work only after a deletion failed or found nothing to delete.
THEOREM LoginsKeepOneToken == SessionAssumption /\ Spec => []OneTokenPerLogin
<1> SUFFICES ASSUME SessionAssumption PROVE Spec => []OneTokenPerLogin
  OBVIOUS
<1>1. Init => TokensInv
  BY DEF Init, Idle, TokensInv, TokensDrawn, OneHolder, Replaces
<1>2. IInv => Typed
  BY DEF IInv
<1>3. TokensInv => OneTokenPerLogin
  BY DEF TokensInv, OneHolder, OneTokenPerLogin, Spoiled
<1> QED
  BY <1>1, <1>2, <1>3, StepTokens, Invariant, PTL DEF Spec

-------------------------------------------------------------------------------
(* What a page is told. *)

LEMMA PageTells ==
  ASSUME SessionAssumption, IInv, NEW r \in Readers, NEW s \in Ids, NEW k \in Kinds,
         OpenPage(r, s, k)
  PROVE  Answers!Next
<1> DEFINE c == sessions[s]
           x == <<c.user, k>>
           f == IF k = "active" THEN Active ELSE c.grants
           t == c.until - (TTL + Span)
<1>1. /\ Live(s) /\ told' = [told EXCEPT ![r][x] = f] /\ UNCHANGED <<now, table, past>>
  BY DEF OpenPage, facts
<1>2. FactsTyped /\ StoresTyped
  BY TypedParts DEF IInv
<1>3. c \in SessionData /\ now < c.until /\ SessionSound(table, past, now, c)
  BY <1>1, <1>2 DEF IInv, CopiesSound, Live, StoresTyped
<1>4. /\ c.user \in Users /\ c.until \in Nat /\ now \in Nat /\ \A q \in past : q.at \in Nat
      /\ TTL \in Nat /\ Span \in Nat
  BY <1>2, <1>3 DEF SessionData, FactsTyped, SessionAssumption
<1>5. CopyOf(table, past, x, f, t)
  BY <1>3 DEF SessionSound, Kinds
<1>6. x \in Subjects
  BY <1>4 DEF Subjects
<1>7. \A q \in past : t <= q.at => now < q.at + (TTL + Span)
  BY <1>3, <1>4
<1> HIDE DEF x, f, t
<1>8. f \in Answers!Fresh(x)
  BY <1>5, <1>7 DEF CopyOf, Answers!Fresh
<1> QED
  BY <1>1, <1>6, <1>8 DEF Answers!Next, Answers!Tell

LEMMA InitRefines == Init => Answers!Init
  BY DEF Init, Nothing, Answers!Init

LEMMA NextRefines ==
  SessionAssumption /\ IInv /\ [Next]_vars => [Answers!Next]_(Answers!vars)
<1> SUFFICES ASSUME SessionAssumption, IInv, [Next]_vars
             PROVE  Answers!Next \/ UNCHANGED <<now, table, past, told>>
  BY DEF Answers!vars
<1>1. ASSUME NEW p \in Jobs, Login(p) \/ Refresh(p) \/ Passwording(p) \/ Fail(p)
      PROVE  UNCHANGED <<now, table, past, told>>
  BY <1>1, JobActs DEF Acts
<1>2. ASSUME NEW r \in Readers, NEW s \in Ids, NEW k \in Kinds, OpenPage(r, s, k)
      PROVE  Answers!Next
  BY <1>2, PageTells
<1>3. ASSUME NEW u \in Users, Administer(u) PROVE Answers!Next
  <2>1. FactsTyped
    BY TypedParts DEF IInv
  <2>2. PICK s \in Subjects, f \in Facts : Write(s, f)
    BY <1>3, <2>1, ChangesAreWrites
  <2> QED
    BY <2>2 DEF Write, Answers!Next, Answers!Change
<1>4. CASE Tick
  BY <1>4 DEF Tick, facts, Answers!Next, Answers!Tick
<1>5. ASSUME \/ \E s \in Ids : LogoutDashboard(s) \/ Evict(s)
             \/ \E t \in Tokens : DropToken(t)
             \/ UNCHANGED vars
      PROVE  UNCHANGED <<now, table, past, told>>
  BY <1>5 DEF LogoutDashboard, Evict, DropToken, vars, facts
<1> QED
  BY <1>1, <1>2, <1>3, <1>4, <1>5 DEF Next

\* A page is served by roles and a status that hold, or that were replaced less
\* than a session's lifetime and one login ago, whatever logins, forms, logouts,
\* evictions and changes come in between and however often a session is saved.
THEOREM SessionsFresh == SessionAssumption /\ Spec => SessionsAreFresh
<1> SUFFICES ASSUME SessionAssumption PROVE Spec => SessionsAreFresh
  OBVIOUS
<1>1. Answers!Spec <=> Answers!Init /\ [][Answers!Next]_(Answers!vars)
  BY DEF Answers!Spec
<1>2. IInv /\ [Next]_vars => [Answers!Next]_(Answers!vars)
  BY NextRefines
<1> QED
  BY <1>1, <1>2, InitRefines, Invariant, PTL DEF Spec, SessionsAreFresh
====
