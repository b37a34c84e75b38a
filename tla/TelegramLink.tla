----------------------------- MODULE TelegramLink -----------------------------
(***************************************************************************)
(* Linking a Telegram account with /link <token>                           *)
(* (internal/service/telegram_link.go, internal/bot/telegram.go,           *)
(* internal/handler/telegram_link.go).                                     *)
(*                                                                         *)
(* The API and the worker both poll Telegram.  Telegram keeps an update    *)
(* until a poll asks for a later one, so that both may be handed the same  *)
(* update; each handles its batch in order.  A command is one PostgreSQL   *)
(* transaction of four statements at read committed: reads see what is     *)
(* committed, an update waits for the transaction that holds its row.      *)
(***************************************************************************)
EXTENDS Naturals, Sequences

CONSTANTS
  Users, Accounts, Tokens,
  Bots,         \* the pollers: the API's and the worker's
  OwnerOf,      \* the user each token is made for
  MaxUpdates,   \* bound: commands sent
  MaxFaults,    \* bound: database errors and restarts
  None

ASSUME LinkAssumption ==
  /\ OwnerOf \in [Tokens -> Users]
  /\ None \notin Accounts \cup Tokens
  /\ MaxUpdates \in Nat /\ MaxFaults \in Nat

VARIABLES
  updates,     \* Telegram: the commands sent
  confirmed,   \* Telegram: updates before this one are gone
  bot,         \* the pollers: offset, batch, and the transaction under way
  token,       \* telegram_link_tokens
  account,     \* users.telegram_user_id
  links,       \* history: the links made with each token, up to 2
  faults       \* faults so far

vars == <<updates, confirmed, bot, token, account, links, faults>>

Spent == "used"
TokenStates == {"none", "fresh", "used", "gone"}
Points == {"idle", "check", "account", "use", "link", "commit"}
Command == [from : Accounts, with : Tokens]
Bot == [at : Points, offset : Nat, next : Nat, last : Nat]

TypeOK ==
  /\ updates \in Seq(Command)
  /\ confirmed \in 1..(MaxUpdates + 1)
  /\ bot \in [Bots -> Bot]
  /\ \A b \in Bots : bot[b].at # "idle" => bot[b].next \in DOMAIN updates
  /\ \A b \in Bots : bot[b].last <= Len(updates)
  /\ token \in [Tokens -> [state : TokenStates, expired : BOOLEAN]]
  /\ account \in [Users -> {None} \cup Accounts]
  /\ links \in [Tokens -> 0..2]
  /\ faults \in 0..MaxFaults

\* A poller handles the updates next to last of its batch.
Started == [at |-> "idle", offset |-> 1, next |-> 1, last |-> 0]

Init ==
  /\ updates = <<>>
  /\ confirmed = 1
  /\ bot = [b \in Bots |-> Started]
  /\ token = [k \in Tokens |-> [state |-> "none", expired |-> FALSE]]
  /\ account = [u \in Users |-> None]
  /\ links = [k \in Tokens |-> 0]
  /\ faults = 0

-------------------------------------------------------------------------------
(* Tokens and commands. *)

\* Nothing keeps an administrator from making a second token for a user.
CreateLinkToken(k) ==
  /\ token[k].state = "none"
  /\ token' = [token EXCEPT ![k].state = "fresh"]
  /\ UNCHANGED <<updates, confirmed, bot, account, links, faults>>

Expire(k) ==
  /\ token[k].state # "none"
  /\ ~token[k].expired
  /\ token' = [token EXCEPT ![k].expired = TRUE]
  /\ UNCHANGED <<updates, confirmed, bot, account, links, faults>>

\* The nightly cleanup takes the expired tokens that were used.
DeleteExpiredTelegramLinkTokens ==
  /\ token' = [k \in Tokens |-> IF token[k].expired /\ token[k].state = "used"
                                THEN [token[k] EXCEPT !.state = "gone"] ELSE token[k]]
  /\ UNCHANGED <<updates, confirmed, bot, account, links, faults>>

SendCommand(t, k) ==
  /\ token[k].state # "none"
  /\ Len(updates) < MaxUpdates
  /\ updates' = Append(updates, [from |-> t, with |-> k])
  /\ UNCHANGED <<confirmed, bot, token, account, links, faults>>

-------------------------------------------------------------------------------
(* Polling. *)

Later(a, b) == IF a < b THEN b ELSE a

GetUpdates(b) ==
  /\ bot[b].at = "idle"
  /\ bot[b].next > bot[b].last
  /\ Later(confirmed, bot[b].offset) <= Len(updates)
  /\ confirmed' = Later(confirmed, bot[b].offset)
  /\ bot' = [bot EXCEPT ![b].next = confirmed', ![b].last = Len(updates)]
  /\ UNCHANGED <<updates, token, account, links, faults>>

Handle(b) ==
  /\ bot[b].at = "idle"
  /\ bot[b].next <= bot[b].last
  /\ bot' = [bot EXCEPT ![b].at = "check", ![b].offset = bot[b].next + 1]
  /\ UNCHANGED <<updates, confirmed, token, account, links, faults>>

-------------------------------------------------------------------------------
(* LinkByToken. *)

From(b) == updates[bot[b].next].from
With(b) == updates[bot[b].next].with
Owner(b) == OwnerOf[With(b)]
Go(b, point) == bot' = [bot EXCEPT ![b].at = point]
Over(b) == bot' = [bot EXCEPT ![b].at = "idle", ![b].next = @ + 1]

Valid(k) == token[k].state = "fresh" /\ ~token[k].expired

MayUse(b) == Valid(With(b)) /\ account[Owner(b)] = None

GetValidTelegramLinkToken(b) ==
  /\ bot[b].at = "check"
  /\ IF MayUse(b) THEN Go(b, "account") ELSE Over(b)
  /\ UNCHANGED <<updates, confirmed, token, account, links, faults>>

GetUserByTelegramID(b) ==
  /\ bot[b].at = "account"
  /\ IF \E u \in Users : account[u] = From(b) THEN Over(b) ELSE Go(b, "use")
  /\ UNCHANGED <<updates, confirmed, token, account, links, faults>>

\* Slip: the token is locked by its reader already (SELECT ... FOR SHARE).
SharesToken(b, k) == bot[b].at \in {"account", "use", "link", "commit"} /\ With(b) = k
HoldsToken(b, k) == bot[b].at \in {"link", "commit"} /\ With(b) = k
HoldsUser(b, u) == bot[b].at = "commit" /\ Owner(b) = u

\* Slip: the update has no condition on used_at.
TokenExists(k) == token[k].state # "gone"
Unused(k) == token[k].state = "fresh"

UseTelegramLinkToken(b) ==
  /\ bot[b].at = "use"
  /\ \A c \in Bots \ {b} : ~HoldsToken(c, With(b))
  /\ IF Unused(With(b)) THEN Go(b, "link") ELSE Over(b)
  /\ UNCHANGED <<updates, confirmed, token, account, links, faults>>

\* telegram_user_id is UNIQUE: the update fails on an account already stored,
\* and waits for a transaction about to store it.
\* Slip: the column is not unique.
Storable(b, t) == TRUE
Unique(b, t) == \A u \in Users : account[u] = t => u = Owner(b)

LinkTelegramAccount(b) ==
  /\ bot[b].at = "link"
  /\ \A c \in Bots \ {b} : ~HoldsUser(c, Owner(b))
  /\ \A c \in Bots : bot[c].at = "commit" => From(c) # From(b)
  /\ IF Unique(b, From(b)) THEN Go(b, "commit") ELSE Over(b)
  /\ UNCHANGED <<updates, confirmed, token, account, links, faults>>

Commit(b) ==
  /\ bot[b].at = "commit"
  /\ token' = [token EXCEPT ![With(b)].state = Spent]
  /\ account' = [account EXCEPT ![Owner(b)] = From(b)]
  /\ links' = [links EXCEPT ![With(b)] = IF @ < 2 THEN @ + 1 ELSE 2]
  /\ Over(b)
  /\ UNCHANGED <<updates, confirmed, faults>>

\* A statement or the commit fails: the transaction is rolled back, and the
\* poller goes on with the next update.
Rollback(b) ==
  /\ bot[b].at # "idle"
  /\ faults < MaxFaults
  /\ faults' = faults + 1
  /\ Over(b)
  /\ UNCHANGED <<updates, confirmed, token, account, links>>

Restart(b) ==
  /\ faults < MaxFaults
  /\ faults' = faults + 1
  /\ bot' = [bot EXCEPT ![b] = Started]
  /\ UNCHANGED <<updates, confirmed, token, account, links>>

LinkByToken(b) ==
  \/ GetValidTelegramLinkToken(b) \/ GetUserByTelegramID(b)
  \/ UseTelegramLinkToken(b) \/ LinkTelegramAccount(b) \/ Commit(b)

Next ==
  \/ \E k \in Tokens : CreateLinkToken(k) \/ Expire(k)
  \/ DeleteExpiredTelegramLinkTokens
  \/ \E t \in Accounts, k \in Tokens : SendCommand(t, k)
  \/ \E b \in Bots : GetUpdates(b) \/ Handle(b) \/ LinkByToken(b) \/ Rollback(b) \/ Restart(b)

Spec == Init /\ [][Next]_vars

\* Both pollers poll for ever and finish what they handle.
FairSpec == Spec /\ \A b \in Bots : WF_vars(GetUpdates(b) \/ Handle(b) \/ LinkByToken(b))

-------------------------------------------------------------------------------
(* What linking owes its users. *)

\* Two users never share an account: the check that reads before the link is
\* not enough when two pollers are at work (telegram_link.go, LinkByToken).
OneUserPerAccount ==
  \A u, w \in Users : (account[u] = account[w] /\ account[u] # None) => u = w

\* A token makes one link, which is made when the token is spent: although an
\* update is handed to both pollers, and again after a restart.
TokensLinkOnce ==
  \A k \in Tokens :
    /\ links[k] <= 1
    /\ links[k] = 1 <=> token[k].state \in {"used", "gone"}

\* Every command is handled: the pollers do not wait for one another for ever.
CommandsAreHandled ==
  \A i \in 1..MaxUpdates :
    i <= Len(updates) ~> \E b \in Bots : bot[b].offset > i /\ bot[b].at = "idle"
===============================================================================
