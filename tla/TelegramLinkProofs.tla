--------------------------- MODULE TelegramLinkProofs ---------------------------
(***************************************************************************)
(* Accounts are not shared and tokens link once, for any users, accounts,  *)
(* tokens, number of pollers, and any faults.                              *)
(*                                                                         *)
(* The reads at the head of LinkByToken contribute nothing to either       *)
(* property: what carries them are the rows a transaction holds.  A poller *)
(* from its second update on holds its token, which is still fresh; at its *)
(* commit it also holds the account, which nobody else has or waits for.   *)
(***************************************************************************)
EXTENDS TelegramLink, TLAPS

\* What the pollers read of Telegram lies within what was sent.
Bounded ==
  /\ Len(updates) <= MaxUpdates
  /\ \A b \in Bots : bot[b].next >= 1

Holding(b) == bot[b].at \in {"link", "commit"}
Committing(b) == bot[b].at = "commit"

\* A token held is fresh, and held by one.
TokenHeld ==
  /\ \A b \in Bots : Holding(b) => token[With(b)].state = "fresh"
  /\ \A b, c \in Bots : (Holding(b) /\ Holding(c) /\ With(b) = With(c)) => b = c

\* An account about to be stored belongs to nobody else and is stored by one.
AccountHeld ==
  /\ \A b \in Bots : Committing(b) => Unique(b, From(b))
  /\ \A b, c \in Bots : (Committing(b) /\ Committing(c) /\ From(b) = From(c)) => b = c

IInv == TypeOK /\ Bounded /\ TokenHeld /\ AccountHeld /\ OneUserPerAccount /\ TokensLinkOnce

-------------------------------------------------------------------------------

LEMMA InitIInv == Init => IInv
<1> SUFFICES ASSUME Init PROVE IInv
  OBVIOUS
<1> USE LinkAssumption DEF Init, Started
<1>1. TypeOK
  BY DEF TypeOK, Bot, Points, TokenStates
<1>2. Bounded /\ TokenHeld /\ AccountHeld
  BY DEF Bounded, TokenHeld, AccountHeld, Holding, Committing
<1>3. OneUserPerAccount /\ TokensLinkOnce
  BY DEF OneUserPerAccount, TokensLinkOnce
<1> QED
  BY <1>1, <1>2, <1>3 DEF IInv

\* The command a poller is at has an account and a token.
LEMMA CommandAt ==
  ASSUME TypeOK, NEW b \in Bots, bot[b].at # "idle"
  PROVE  From(b) \in Accounts /\ With(b) \in Tokens /\ Owner(b) \in Users
<1>1. updates[bot[b].next] \in Command
  BY DEF TypeOK
<1> QED
  BY <1>1, LinkAssumption DEF Command, From, With, Owner

\* The records a poller goes through.
LEMMA Polled ==
  ASSUME NEW n \in Bot, NEW i \in Nat, NEW j \in Nat
  PROVE  /\ [n EXCEPT !.next = i, !.last = j] \in Bot
         /\ [n EXCEPT !.next = i, !.last = j].at = n.at
         /\ [n EXCEPT !.next = i, !.last = j].next = i
         /\ [n EXCEPT !.next = i, !.last = j].last = j
<1> USE DEF Bot, Points
<1>1. [n EXCEPT !.next = i, !.last = j] \in Bot
  OBVIOUS
<1>2. [n EXCEPT !.next = i, !.last = j].at = n.at
  OBVIOUS
<1>3. [n EXCEPT !.next = i, !.last = j].next = i
  OBVIOUS
<1>4. [n EXCEPT !.next = i, !.last = j].last = j
  OBVIOUS
<1> QED
  BY <1>1, <1>2, <1>3, <1>4

LEMMA Begun ==
  ASSUME NEW n \in Bot, NEW i \in Nat
  PROVE  /\ [n EXCEPT !.at = "check", !.offset = i] \in Bot
         /\ [n EXCEPT !.at = "check", !.offset = i].at = "check"
         /\ [n EXCEPT !.at = "check", !.offset = i].next = n.next
         /\ [n EXCEPT !.at = "check", !.offset = i].last = n.last
<1> USE DEF Bot, Points
<1>1. [n EXCEPT !.at = "check", !.offset = i] \in Bot
  OBVIOUS
<1>2. [n EXCEPT !.at = "check", !.offset = i].at = "check"
  OBVIOUS
<1>3. [n EXCEPT !.at = "check", !.offset = i].next = n.next
  OBVIOUS
<1>4. [n EXCEPT !.at = "check", !.offset = i].last = n.last
  OBVIOUS
<1> QED
  BY <1>1, <1>2, <1>3, <1>4

LEMMA Finished ==
  ASSUME NEW n \in Bot, NEW i \in Nat
  PROVE  /\ [n EXCEPT !.at = "idle", !.next = i] \in Bot
         /\ [n EXCEPT !.at = "idle", !.next = i].at = "idle"
         /\ [n EXCEPT !.at = "idle", !.next = i].next = i
         /\ [n EXCEPT !.at = "idle", !.next = i].last = n.last
<1> USE DEF Bot, Points
<1>1. [n EXCEPT !.at = "idle", !.next = i] \in Bot
  OBVIOUS
<1>2. [n EXCEPT !.at = "idle", !.next = i].at = "idle"
  OBVIOUS
<1>3. [n EXCEPT !.at = "idle", !.next = i].next = i
  OBVIOUS
<1>4. [n EXCEPT !.at = "idle", !.next = i].last = n.last
  OBVIOUS
<1> QED
  BY <1>1, <1>2, <1>3, <1>4

\* Steps on tokens alone.
LEMMA TokensKeep ==
  ASSUME IInv, (\E k \in Tokens : CreateLinkToken(k) \/ Expire(k)) \/ DeleteExpiredTelegramLinkTokens
  PROVE  IInv'
<1> USE DEF IInv
<1>1. UNCHANGED <<updates, confirmed, bot, account, links, faults>>
  BY DEF CreateLinkToken, Expire, DeleteExpiredTelegramLinkTokens
<1>2. token' \in [Tokens -> [state : TokenStates, expired : BOOLEAN]]
  <2>1. CASE \E k \in Tokens : CreateLinkToken(k)
    BY <2>1 DEF CreateLinkToken, TypeOK, TokenStates
  <2>2. CASE \E k \in Tokens : Expire(k)
    BY <2>2 DEF Expire, TypeOK, TokenStates
  <2>3. CASE DeleteExpiredTelegramLinkTokens
    <3>1. \A k \in Tokens : [token[k] EXCEPT !.state = "gone"] \in [state : TokenStates, expired : BOOLEAN]
      BY DEF TypeOK, TokenStates
    <3> QED
      BY <2>3, <3>1 DEF DeleteExpiredTelegramLinkTokens, TypeOK
  <2> QED
    BY <2>1, <2>2, <2>3
<1>3. \A k \in Tokens : token[k].state = "fresh" => token'[k].state = "fresh"
  BY DEF CreateLinkToken, Expire, DeleteExpiredTelegramLinkTokens, TypeOK, TokenStates
<1>4. \A k \in Tokens : token'[k].state \in {"used", "gone"} <=> token[k].state \in {"used", "gone"}
  BY DEF CreateLinkToken, Expire, DeleteExpiredTelegramLinkTokens, TypeOK, TokenStates
<1>5. TypeOK' /\ Bounded'
  BY <1>1, <1>2 DEF TypeOK, Bounded
<1>6. TokenHeld'
  BY <1>1, <1>3, CommandAt DEF TokenHeld, Holding, With
<1>7. AccountHeld' /\ OneUserPerAccount'
  BY <1>1 DEF AccountHeld, Committing, From, Unique, Owner, With, OneUserPerAccount
<1>8. TokensLinkOnce'
  BY <1>1, <1>4 DEF TokensLinkOnce
<1> QED
  BY <1>5, <1>6, <1>7, <1>8

\* A new command is behind those that are handled.
LEMMA CommandsKeep ==
  ASSUME IInv, NEW t \in Accounts, NEW k \in Tokens, SendCommand(t, k)
  PROVE  IInv'
<1> USE DEF IInv
<1>1. /\ UNCHANGED <<confirmed, bot, token, account, links, faults>>
      /\ Len(updates) < MaxUpdates
      /\ updates' = Append(updates, [from |-> t, with |-> k])
  BY DEF SendCommand
<1>2. /\ updates' \in Seq(Command)
      /\ Len(updates') = Len(updates) + 1
      /\ \A i \in DOMAIN updates : i \in DOMAIN updates' /\ updates'[i] = updates[i]
  BY <1>1 DEF TypeOK, Command
<1>3. \A b \in Bots : bot[b].at # "idle" => (From(b))' = From(b) /\ (With(b))' = With(b)
  BY <1>1, <1>2 DEF TypeOK, From, With
<1>4. TypeOK' /\ Bounded'
  BY <1>1, <1>2, LinkAssumption DEF TypeOK, Bounded, Bot
<1>5. TokenHeld'
  BY <1>1, <1>3 DEF TokenHeld, Holding
<1>6. AccountHeld'
  BY <1>1, <1>3 DEF AccountHeld, Committing, Unique, Owner
<1> QED
  BY <1>1, <1>4, <1>5, <1>6 DEF OneUserPerAccount, TokensLinkOnce

\* A poller that neither writes nor takes a row.
LEMMA QuietStepKeeps ==
  ASSUME IInv, NEW q \in Bots, bot' \in [Bots -> Bot],
         \A b \in Bots \ {q} : bot'[b] = bot[b],
         bot'[q].next >= 1, bot'[q].last <= Len(updates),
         bot'[q].at # "idle" => bot'[q].next \in DOMAIN updates,
         bot'[q].at \notin {"link", "commit"},
         confirmed' \in 1..(MaxUpdates + 1), faults' \in 0..MaxFaults,
         UNCHANGED <<updates, token, account, links>>
  PROVE  IInv'
<1> USE DEF IInv
<1>1. TypeOK' /\ Bounded'
  BY DEF TypeOK, Bounded
<1>2. \A b \in Bots : (Holding(b))' =>
        b # q /\ Holding(b) /\ (With(b))' = With(b) /\ (From(b))' = From(b)
  BY DEF Holding, With, From
<1>3. \A b \in Bots : (Committing(b))' => (Holding(b))' /\ Committing(b)
  BY DEF Committing, Holding
<1>4. TokenHeld'
  BY <1>2 DEF TokenHeld
<1>5. AccountHeld'
  BY <1>2, <1>3 DEF AccountHeld, Unique, Owner
<1> QED
  BY <1>1, <1>4, <1>5 DEF OneUserPerAccount, TokensLinkOnce

\* Polling, the two reads, and every way to give up.
LEMMA PollingKeeps ==
  ASSUME IInv, NEW q \in Bots, GetUpdates(q) \/ Handle(q)
  PROVE  IInv'
<1> USE DEF IInv
<1>1. CASE GetUpdates(q)
  <2>1. confirmed' \in 1..(MaxUpdates + 1) /\ confirmed' <= Len(updates)
    BY <1>1, LinkAssumption DEF GetUpdates, Later, TypeOK, Bounded, Bot
  <2>2. bot' = [bot EXCEPT ![q].next = confirmed', ![q].last = Len(updates)]
    BY <1>1 DEF GetUpdates
  <2>3. Len(updates) \in Nat /\ bot[q] \in Bot /\ bot[q].at = "idle"
    BY <1>1 DEF GetUpdates, TypeOK
  <2>4. /\ bot' \in [Bots -> Bot] /\ \A b \in Bots \ {q} : bot'[b] = bot[b]
        /\ bot'[q].next = confirmed' /\ bot'[q].last = Len(updates) /\ bot'[q].at = "idle"
    <3>1. confirmed' \in Nat
      BY <2>1, LinkAssumption
    <3>2. bot'[q] = [bot[q] EXCEPT !.next = confirmed', !.last = Len(updates)]
      BY <2>2 DEF TypeOK
    <3>3. /\ bot'[q] \in Bot
          /\ bot'[q].next = confirmed' /\ bot'[q].last = Len(updates) /\ bot'[q].at = "idle"
      <4> DEFINE n == bot[q]
                 m == [n EXCEPT !.next = confirmed', !.last = Len(updates)]
      <4>1. m \in Bot /\ m.next = confirmed' /\ m.last = Len(updates) /\ m.at = n.at
        <5>1. n \in Bot /\ confirmed' \in Nat /\ Len(updates) \in Nat
          BY <2>3, <3>1
        <5> HIDE DEF n
        <5>2. \A i, j \in Nat :
                /\ [n EXCEPT !.next = i, !.last = j] \in Bot
                /\ [n EXCEPT !.next = i, !.last = j].at = n.at
                /\ [n EXCEPT !.next = i, !.last = j].next = i
                /\ [n EXCEPT !.next = i, !.last = j].last = j
          BY <5>1, Polled
        <5> QED
          BY <5>1, <5>2
      <4>2. bot'[q] = m
        BY <3>2
      <4> HIDE DEF m
      <4> QED
        BY <2>3, <4>1, <4>2
    <3> QED
      BY <2>2, <3>3 DEF TypeOK
  <2> QED
    BY <1>1, <2>1, <2>3, <2>4, QuietStepKeeps DEF GetUpdates, TypeOK
<1>2. CASE Handle(q)
  <2>1. /\ bot[q] \in Bot /\ bot[q].at = "idle" /\ bot[q].next \in DOMAIN updates
        /\ bot[q].next >= 1 /\ bot[q].last <= Len(updates)
    BY <1>2 DEF Handle, TypeOK, Bounded, Bot
  <2>2. bot' = [bot EXCEPT ![q].at = "check", ![q].offset = bot[q].next + 1]
    BY <1>2 DEF Handle
  <2>3. /\ bot' \in [Bots -> Bot] /\ \A b \in Bots \ {q} : bot'[b] = bot[b]
        /\ bot'[q].next = bot[q].next /\ bot'[q].last = bot[q].last /\ bot'[q].at = "check"
    <3>1. bot[q].next + 1 \in Nat
      BY <2>1 DEF Bot
    <3>2. bot'[q] = [bot[q] EXCEPT !.at = "check", !.offset = bot[q].next + 1]
      BY <2>2 DEF TypeOK
    <3>3. /\ bot'[q] \in Bot
          /\ bot'[q].next = bot[q].next /\ bot'[q].last = bot[q].last /\ bot'[q].at = "check"
      <4> DEFINE n == bot[q]
                 m == [n EXCEPT !.at = "check", !.offset = bot[q].next + 1]
      <4>1. m \in Bot /\ m.next = n.next /\ m.last = n.last /\ m.at = "check"
        BY <2>1, <3>1, Begun
      <4>2. bot'[q] = m
        BY <3>2
      <4> HIDE DEF m
      <4> QED
        BY <4>1, <4>2
    <3> QED
      BY <2>2, <3>3 DEF TypeOK
  <2> QED
    BY <1>2, <2>1, <2>3, QuietStepKeeps DEF Handle, TypeOK
<1> QED
  BY <1>1, <1>2

LEMMA OverAt ==
  ASSUME IInv, NEW q \in Bots, Over(q)
  PROVE  /\ bot' \in [Bots -> Bot] /\ \A b \in Bots \ {q} : bot'[b] = bot[b]
         /\ bot'[q].next = bot[q].next + 1 /\ bot'[q].next >= 1
         /\ bot'[q].last = bot[q].last /\ bot'[q].last <= Len(updates) /\ bot'[q].at = "idle"
<1>1. bot[q] \in Bot /\ bot[q].next >= 1 /\ bot[q].last <= Len(updates)
  BY DEF IInv, TypeOK, Bounded
<1>2. bot' = [bot EXCEPT ![q].at = "idle", ![q].next = @ + 1]
  BY DEF Over
<1>3. bot[q].next + 1 \in Nat /\ bot[q].next + 1 >= 1
  BY <1>1 DEF Bot
<1>4. bot'[q] = [bot[q] EXCEPT !.at = "idle", !.next = bot[q].next + 1]
  BY <1>2 DEF IInv, TypeOK
<1>5. /\ bot'[q] \in Bot /\ bot'[q].next = bot[q].next + 1
      /\ bot'[q].last = bot[q].last /\ bot'[q].at = "idle"
  <2> DEFINE n == bot[q]
             m == [n EXCEPT !.at = "idle", !.next = bot[q].next + 1]
  <2>1. m \in Bot /\ m.next = n.next + 1 /\ m.last = n.last /\ m.at = "idle"
    BY <1>1, <1>3, Finished
  <2>2. bot'[q] = m
    BY <1>4
  <2> HIDE DEF m
  <2> QED
    BY <2>1, <2>2
<1>6. bot' \in [Bots -> Bot] /\ \A b \in Bots \ {q} : bot'[b] = bot[b]
  BY <1>2, <1>5 DEF IInv, TypeOK
<1> QED
  BY <1>1, <1>3, <1>5, <1>6

LEMMA GivingUpKeeps ==
  ASSUME IInv, NEW q \in Bots, Over(q), faults' \in 0..MaxFaults,
         UNCHANGED <<updates, confirmed, token, account, links>>
  PROVE  IInv'
BY OverAt, QuietStepKeeps DEF IInv, TypeOK

LEMMA RestartKeeps ==
  ASSUME IInv, NEW q \in Bots, Restart(q)
  PROVE  IInv'
<1>1. bot' = [bot EXCEPT ![q] = Started] /\ Len(updates) \in Nat
  BY DEF Restart, IInv, TypeOK
<1>2. /\ bot' \in [Bots -> Bot] /\ \A b \in Bots \ {q} : bot'[b] = bot[b] /\ bot'[q] = Started
  BY <1>1 DEF IInv, TypeOK, Bot, Points, Started
<1>3. faults' \in 0..MaxFaults
  BY LinkAssumption DEF Restart, IInv, TypeOK
<1> QED
  BY <1>1, <1>2, <1>3, QuietStepKeeps DEF Restart, Started, IInv, TypeOK

\* A poller goes on to the next statement.
LEMMA GoOn ==
  ASSUME IInv, NEW q \in Bots, NEW point \in Points \ {"idle"}, Go(q, point), bot[q].at # "idle"
  PROVE  /\ bot' \in [Bots -> Bot] /\ \A b \in Bots \ {q} : bot'[b] = bot[b]
         /\ bot'[q].next = bot[q].next /\ bot'[q].last = bot[q].last /\ bot'[q].at = point
         /\ bot[q].next \in DOMAIN updates /\ bot[q].next >= 1 /\ bot[q].last <= Len(updates)
<1>1. bot[q] \in Bot /\ bot' = [bot EXCEPT ![q].at = point]
  BY DEF Go, IInv, TypeOK
<1>2. /\ bot' \in [Bots -> Bot] /\ \A b \in Bots \ {q} : bot'[b] = bot[b]
      /\ bot'[q].next = bot[q].next /\ bot'[q].last = bot[q].last /\ bot'[q].at = point
  BY <1>1 DEF IInv, TypeOK, Bot
<1> QED
  BY <1>2 DEF IInv, TypeOK, Bounded

LEMMA ReadsKeep ==
  ASSUME IInv, NEW q \in Bots, GetValidTelegramLinkToken(q) \/ GetUserByTelegramID(q)
  PROVE  IInv'
<1>1. /\ UNCHANGED <<updates, confirmed, token, account, links, faults>>
      /\ bot[q].at # "idle"
      /\ Over(q) \/ \E point \in {"account", "use"} : Go(q, point)
  BY DEF GetValidTelegramLinkToken, GetUserByTelegramID
<1>2. confirmed' \in 1..(MaxUpdates + 1) /\ faults' \in 0..MaxFaults
  BY <1>1 DEF IInv, TypeOK
<1>3. CASE Over(q)
  BY <1>1, <1>2, <1>3, GivingUpKeeps
<1>4. CASE \E point \in {"account", "use"} : Go(q, point)
  <2>1. PICK point \in {"account", "use"} : Go(q, point)
    BY <1>4
  <2>2. point \in Points \ {"idle"}
    BY DEF Points
  <2> QED
    BY <1>1, <1>2, <2>1, <2>2, GoOn, QuietStepKeeps
<1> QED
  BY <1>1, <1>3, <1>4

\* The first update takes the token: it is fresh, and nobody holds it.
LEMMA UseKeeps ==
  ASSUME IInv, NEW q \in Bots, UseTelegramLinkToken(q)
  PROVE  IInv'
<1>1. /\ UNCHANGED <<updates, confirmed, token, account, links, faults>>
      /\ bot[q].at = "use"
      /\ Over(q) \/ (Go(q, "link") /\ token[With(q)].state = "fresh")
      /\ \A c \in Bots \ {q} : ~(Holding(c) /\ With(c) = With(q))
  BY DEF UseTelegramLinkToken, HoldsToken, Holding, Unused
<1>2. confirmed' \in 1..(MaxUpdates + 1) /\ faults' \in 0..MaxFaults
  BY <1>1 DEF IInv, TypeOK
<1>3. CASE Over(q)
  BY <1>1, <1>2, <1>3, GivingUpKeeps
<1>4. CASE Go(q, "link") /\ token[With(q)].state = "fresh"
  <2>1. "link" \in Points \ {"idle"}
    BY DEF Points
  <2>2. /\ bot' \in [Bots -> Bot] /\ \A b \in Bots \ {q} : bot'[b] = bot[b]
        /\ bot'[q].next = bot[q].next /\ bot'[q].last = bot[q].last /\ bot'[q].at = "link"
        /\ bot[q].next \in DOMAIN updates /\ bot[q].next >= 1 /\ bot[q].last <= Len(updates)
    BY <1>1, <1>4, <2>1, GoOn
  <2>3. TypeOK' /\ Bounded'
    BY <1>1, <2>2 DEF IInv, TypeOK, Bounded
  <2>4. \A b \in Bots : (With(b))' = With(b) /\ (From(b))' = From(b)
    BY <1>1, <2>2 DEF With, From
  <2>5. \A b \in Bots \ {q} : (Holding(b))' = Holding(b)
    BY <2>2 DEF Holding
  <2>6. \A b \in Bots : (Committing(b))' => Committing(b)
    BY <2>2 DEF Committing
  <2>7. TokenHeld'
    BY <1>1, <1>4, <2>4, <2>5 DEF IInv, TokenHeld
  <2>8. AccountHeld'
    BY <1>1, <2>4, <2>6 DEF IInv, AccountHeld, Unique, Owner
  <2> QED
    BY <1>1, <2>3, <2>7, <2>8 DEF IInv, OneUserPerAccount, TokensLinkOnce
<1> QED
  BY <1>1, <1>3, <1>4

\* The second update takes the account: it is nobody's, and nobody stores it.
LEMMA LinkKeeps ==
  ASSUME IInv, NEW q \in Bots, LinkTelegramAccount(q)
  PROVE  IInv'
<1>1. /\ UNCHANGED <<updates, confirmed, token, account, links, faults>>
      /\ bot[q].at = "link"
      /\ Over(q) \/ (Go(q, "commit") /\ Unique(q, From(q)))
      /\ \A c \in Bots : Committing(c) => From(c) # From(q)
  BY DEF LinkTelegramAccount, Committing
<1>2. confirmed' \in 1..(MaxUpdates + 1) /\ faults' \in 0..MaxFaults
  BY <1>1 DEF IInv, TypeOK
<1>3. CASE Over(q)
  BY <1>1, <1>2, <1>3, GivingUpKeeps
<1>4. CASE Go(q, "commit") /\ Unique(q, From(q))
  <2>1. "commit" \in Points \ {"idle"}
    BY DEF Points
  <2>2. /\ bot' \in [Bots -> Bot] /\ \A b \in Bots \ {q} : bot'[b] = bot[b]
        /\ bot'[q].next = bot[q].next /\ bot'[q].last = bot[q].last /\ bot'[q].at = "commit"
        /\ bot[q].next \in DOMAIN updates /\ bot[q].next >= 1 /\ bot[q].last <= Len(updates)
    BY <1>1, <1>4, <2>1, GoOn
  <2>3. TypeOK' /\ Bounded'
    BY <1>1, <2>2 DEF IInv, TypeOK, Bounded
  <2>4. \A b \in Bots : (With(b))' = With(b) /\ (From(b))' = From(b)
    BY <1>1, <2>2 DEF With, From
  <2>5. \A b \in Bots : (Holding(b))' = Holding(b)
    BY <1>1, <2>2 DEF Holding
  <2>6. \A b \in Bots \ {q} : (Committing(b))' = Committing(b)
    BY <2>2 DEF Committing
  <2>7. TokenHeld'
    BY <1>1, <2>4, <2>5 DEF IInv, TokenHeld
  <2>8. AccountHeld'
    BY <1>1, <1>4, <2>4, <2>6 DEF IInv, AccountHeld, Unique, Owner
  <2> QED
    BY <1>1, <2>3, <2>7, <2>8 DEF IInv, OneUserPerAccount, TokensLinkOnce
<1> QED
  BY <1>1, <1>3, <1>4

\* The commit spends a fresh token and stores an account nobody else has.
LEMMA CommitKeeps ==
  ASSUME IInv, NEW q \in Bots, Commit(q)
  PROVE  IInv'
<1> DEFINE k == With(q)
           t == From(q)
<1>1. k \in Tokens /\ t \in Accounts /\ Owner(q) \in Users
  BY CommandAt DEF Commit, IInv
<1>2. /\ token[k].state = "fresh" /\ Unique(q, t) /\ links[k] = 0
  BY <1>1 DEF Commit, IInv, TokenHeld, AccountHeld, Holding, Committing, TokensLinkOnce, TypeOK
<1>3. /\ token' = [token EXCEPT ![k].state = "used"]
      /\ account' = [account EXCEPT ![Owner(q)] = t]
      /\ links' = [links EXCEPT ![k] = 1]
      /\ UNCHANGED <<updates, confirmed, faults>> /\ Over(q)
  BY <1>1, <1>2 DEF Commit, Spent
<1>5. /\ bot' \in [Bots -> Bot] /\ \A b \in Bots \ {q} : bot'[b] = bot[b]
      /\ bot'[q].next >= 1 /\ bot'[q].last <= Len(updates) /\ bot'[q].at = "idle"
  BY <1>3, OverAt
<1>6. TypeOK' /\ Bounded'
  <2>1. token' \in [Tokens -> [state : TokenStates, expired : BOOLEAN]]
    BY <1>3 DEF IInv, TypeOK, TokenStates
  <2>2. account' \in [Users -> {None} \cup Accounts] /\ links' \in [Tokens -> 0..2]
    BY <1>1, <1>3 DEF IInv, TypeOK
  <2> QED
    BY <1>3, <1>5, <2>1, <2>2 DEF IInv, TypeOK, Bounded
<1>7. \A b \in Bots : (Holding(b))' =>
        b # q /\ Holding(b) /\ (With(b))' = With(b) /\ (From(b))' = From(b)
  BY <1>3, <1>5 DEF Holding, With, From
<1>8. Holding(q) /\ Committing(q)
  BY DEF Commit, Holding, Committing
<1>9. TokenHeld'
  <2>1. \A b \in Bots : (Holding(b))' => With(b) # k /\ With(b) \in Tokens
    BY <1>7, <1>8, CommandAt DEF IInv, TokenHeld, Holding
  <2>2. \A l \in Tokens : l # k => token'[l] = token[l]
    BY <1>3 DEF IInv, TypeOK
  <2> QED
    BY <1>7, <2>1, <2>2 DEF IInv, TokenHeld
<1>10. AccountHeld'
  <2>1. \A b \in Bots : (Committing(b))' => (Holding(b))' /\ Committing(b)
    BY <1>5 DEF Committing, Holding
  <2>2. \A b \in Bots : (Committing(b))' => From(b) # t
    BY <1>7, <1>8, <2>1 DEF IInv, AccountHeld
  <2>3. \A u \in Users : account'[u] = account[u] \/ account'[u] = t
    BY <1>3 DEF IInv, TypeOK
  <2> QED
    BY <1>7, <2>1, <2>2, <2>3 DEF IInv, AccountHeld, Unique, Owner
<1>11. OneUserPerAccount'
  <2>1. \A u \in Users : account'[u] = IF u = Owner(q) THEN t ELSE account[u]
    BY <1>3 DEF IInv, TypeOK
  <2> QED
    BY <1>2, <2>1 DEF IInv, OneUserPerAccount, Unique
<1>12. TokensLinkOnce'
  <2>1. \A l \in Tokens : l # k => token'[l] = token[l] /\ links'[l] = links[l]
    BY <1>3 DEF IInv, TypeOK
  <2>2. token'[k].state = "used" /\ links'[k] = 1
    BY <1>1, <1>3 DEF IInv, TypeOK
  <2> QED
    BY <2>1, <2>2 DEF IInv, TokensLinkOnce
<1> QED
  BY <1>6, <1>9, <1>10, <1>11, <1>12 DEF IInv

LEMMA NextKeeps == IInv /\ [Next]_vars => IInv'
<1> SUFFICES ASSUME IInv, [Next]_vars PROVE IInv'
  OBVIOUS
<1>1. CASE (\E k \in Tokens : CreateLinkToken(k) \/ Expire(k)) \/ DeleteExpiredTelegramLinkTokens
  BY <1>1, TokensKeep
<1>2. CASE \E t \in Accounts, k \in Tokens : SendCommand(t, k)
  BY <1>2, CommandsKeep
<1>3. ASSUME NEW b \in Bots, GetUpdates(b) \/ Handle(b) \/ LinkByToken(b)
      PROVE  IInv'
  BY <1>3, PollingKeeps, ReadsKeep, UseKeeps, LinkKeeps, CommitKeeps DEF LinkByToken
<1>4. ASSUME NEW b \in Bots, Rollback(b)
      PROVE  IInv'
  <2>1. faults' \in 0..MaxFaults
    BY <1>4, LinkAssumption DEF Rollback, IInv, TypeOK
  <2> QED
    BY <1>4, <2>1, GivingUpKeeps DEF Rollback
<1>5. CASE \E b \in Bots : Restart(b)
  BY <1>5, RestartKeeps
<1>6. CASE UNCHANGED vars
  BY <1>6 DEF vars, IInv, TypeOK, Bounded, TokenHeld, AccountHeld, OneUserPerAccount, TokensLinkOnce,
              Holding, Committing, Unique, Owner, With, From
<1> QED
  BY <1>1, <1>2, <1>3, <1>4, <1>5, <1>6 DEF Next

LEMMA Invariance == Spec => []IInv
BY InitIInv, NextKeeps, PTL DEF Spec

\* Updates, pollers, tokens and links keep their shape.
THEOREM TypeCorrect == Spec => []TypeOK
<1>1. IInv => TypeOK
  BY DEF IInv
<1> QED
  BY <1>1, Invariance, PTL

\* Two users never share an account, with any number of pollers.
THEOREM AccountsAreNotShared == Spec => []OneUserPerAccount
<1>1. IInv => OneUserPerAccount
  BY DEF IInv
<1> QED
  BY <1>1, Invariance, PTL

\* A token links once, and is spent exactly when it has linked.
THEOREM TokensAreSpentOnce == Spec => []TokensLinkOnce
<1>1. IInv => TokensLinkOnce
  BY DEF IInv
<1> QED
  BY <1>1, Invariance, PTL
===============================================================================
