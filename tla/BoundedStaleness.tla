--------------------------- MODULE BoundedStaleness ---------------------------
(***************************************************************************)
(* What a cache of facts owes its readers: a fact told to a reader is      *)
(* either the one in the table or one replaced less than Delay ago.  Nothing *)
(* is said of how the answer was found.  AuthCache and Sessions implement  *)
(* this module, each with the Delay its code affords.                      *)
(***************************************************************************)
EXTENDS Integers

CONSTANTS
  Subjects,   \* what facts are about: a user and a kind of fact
  Facts,      \* the values a fact may have
  Readers,    \* the requests that are told facts
  Untold,     \* a reader has not been told this fact yet
  Delay       \* how long a replaced fact may still be told

VARIABLES
  now,        \* the clock
  table,      \* the fact of every subject
  past,       \* the facts that were replaced, and when
  told        \* what each reader was told of each subject

vars == <<now, table, past, told>>

Replaced == [subject : Subjects, fact : Facts, at : Nat]

Fresh(s) ==
  {table[s]} \cup {p.fact : p \in {q \in past : q.subject = s /\ now < q.at + Delay}}

Init ==
  /\ now = 0
  /\ table \in [Subjects -> Facts]
  /\ past = {}
  /\ told = [r \in Readers |-> [s \in Subjects |-> Untold]]

Change(s, f) ==
  /\ table' = [table EXCEPT ![s] = f]
  /\ past' = past \cup {[subject |-> s, fact |-> table[s], at |-> now]}
  /\ UNCHANGED <<now, told>>

Ask(r) ==
  /\ told' = [told EXCEPT ![r] = [s \in Subjects |-> Untold]]
  /\ UNCHANGED <<now, table, past>>

Tell(r, s) ==
  /\ \E f \in Fresh(s) : told' = [told EXCEPT ![r][s] = f]
  /\ UNCHANGED <<now, table, past>>

Tick ==
  /\ now' = now + 1
  /\ UNCHANGED <<table, past, told>>

Next ==
  \/ \E s \in Subjects, f \in Facts : Change(s, f)
  \/ \E r \in Readers : Ask(r)
  \/ \E r \in Readers, s \in Subjects : Tell(r, s)
  \/ Tick

Spec == Init /\ [][Next]_vars
===============================================================================
