-------------------------------- MODULE Worker --------------------------------
(* The worker's jobs: the route deviations (RouteDeviation, the module       *)
(* extended), the expiry notices and the weight bridge escalation.  Of what   *)
(* the others write a job reads the log only, where ExpiryNotices has other   *)
(* notices come in; so the jobs share no variable, and each knows the users   *)
(* it writes to.                                                             *)
EXTENDS RouteDeviation

CONSTANTS
  Recipients,                            \* ExpiryNotices: its Users
  Notices, Other, Work, Window, MaxOthers,
  Admins,                                \* Escalation: its Users
  Roles, Null, Places, Seeds, Readings, Linked,
  Rounds,                                \* Escalation: its Passes
  Sender                                 \* of both

VARIABLES
  linked, log, day, expiryFaults, others, tried,
  grants, active, reading, overdue, assignee, round, notes, roundFaults

expiryVars == <<linked, log, day, expiryFaults, others, tried>>
roundVars == <<grants, active, reading, overdue, assignee, round, notes, roundFaults>>

Expiry == INSTANCE ExpiryNotices WITH
  Users <- Recipients, rows <- log, pass <- day, faults <- expiryFaults

Escalating == INSTANCE Escalation WITH
  Users <- Admins, Passes <- Rounds, pass <- round, rows <- notes, faults <- roundFaults

EscalationHypotheses == Escalating!EscalationAssumption /\ Escalating!GrantsAssumption
WorkerAssumption == DeviationAssumption /\ Expiry!ExpiryAssumption /\ EscalationHypotheses

WorkerSpec == Spec /\ Expiry!Spec /\ Escalating!Spec

-------------------------------------------------------------------------------
\* The type invariants of the jobs.
TypesOK == TypeOK /\ Expiry!TypeOK /\ Escalating!TypeOK

\* alreadySentToUser: two rows of a user's log that hold the same notice have
\* Window others between them, across days, crashes and the two jobs.
RepeatsAreFarApart == Expiry!RepeatsAreFarApart

\* weight_bridge_escalation.go: at most one row for a reading and an
\* administrator, and only for a reading that was escalated.
NoticesAreOfEscalations == Escalating!NoticesAreOfEscalations
===============================================================================
