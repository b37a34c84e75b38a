------------------------------ MODULE Escalation ------------------------------
(***************************************************************************)
(* The weight bridge escalation of the worker                              *)
(* (internal/service/weight_bridge_escalation.go) over the grants it reads *)
(* (RoleGrants) and the notices it sends (Notifier).                       *)
(*                                                                         *)
(* A pass reads the refinery administrators, then the overdue readings;    *)
(* then it escalates one reading after another, each followed by its       *)
(* notices.  Managers approve and reject readings, and administrators      *)
(* change grants, between any two of its steps.  Passes is the set of      *)
(* passes that may run at a time: more than one only when a second worker  *)
(* runs.                                                                   *)
(***************************************************************************)
EXTENDS RoleGrants, Notifier

CONSTANTS
  Readings,     \* manual weight bridge readings
  Passes,       \* passes of the job that may run side by side
  Linked,       \* users with a Telegram account
  Sender,       \* the worker's sender
  MaxFaults,    \* bound: database errors, timeouts and crashes
  None

Admin == "REFINERY_ADMIN"

\* Of the constants; MCWorker assumes it of theirs.
EscalationAssumption ==
  /\ Admin \in Roles
  /\ Sender \in Senders
  /\ None \notin Users \cup Readings
  /\ MaxFaults \in Nat

VARIABLES
  reading,     \* approval_status of every reading
  overdue,     \* readings older than approval_escalation_hours
  assignee,    \* escalated_to
  pass,        \* the passes: what each has read and has still to do
  rows,        \* notification_log: escalation rows per reading and user, up to 2
  faults       \* faults so far

jobVars == <<reading, overdue, assignee, pass, rows, faults>>
vars == <<grantVars, jobVars>>

Escalated == "ESCALATED"
Approvals == {"NONE", "PENDING", "ESCALATED", "APPROVED"}
Points == {"idle", "admins", "readings", "notices"}
PassRecord == [at : Points, admins : SUBSET Users, to : {None} \cup Users,
               todo : SUBSET Readings, current : {None} \cup Readings, tell : SUBSET Users]
Idle == [at |-> "idle", admins |-> {}, to |-> None,
         todo |-> {}, current |-> None, tell |-> {}]

TypeOK ==
  /\ GrantsTypeOK
  /\ reading \in [Readings -> Approvals]
  /\ overdue \in SUBSET Readings
  /\ assignee \in [Readings -> {None} \cup Users]
  /\ pass \in [Passes -> PassRecord]
  /\ rows \in [Readings -> [Users -> 0..2]]
  /\ faults \in 0..MaxFaults

Init ==
  /\ GrantsInit
  /\ reading = [r \in Readings |-> "NONE"]
  /\ overdue = {}
  /\ assignee = [r \in Readings |-> None]
  /\ pass = [p \in Passes |-> Idle]
  /\ rows = [r \in Readings |-> [u \in Users |-> 0]]
  /\ faults = 0

-------------------------------------------------------------------------------
(* Readings, as the trip handlers and the clock change them. *)

CreateWeightBridge(r) ==
  /\ reading[r] = "NONE"
  /\ reading' = [reading EXCEPT ![r] = "PENDING"]
  /\ UNCHANGED <<grantVars, overdue, assignee, pass, rows, faults>>

ApproveWeightBridge(r) ==
  /\ reading[r] \in {"PENDING", "ESCALATED"}
  /\ reading' = [reading EXCEPT ![r] = "APPROVED"]
  /\ UNCHANGED <<grantVars, overdue, assignee, pass, rows, faults>>

Age(r) ==
  /\ reading[r] # "NONE"
  /\ r \notin overdue
  /\ overdue' = overdue \cup {r}
  /\ UNCHANGED <<grantVars, reading, assignee, pass, rows, faults>>

-------------------------------------------------------------------------------
(* A pass. *)

\* Without an administrator the pass ends with an error.  The readings are
\* assigned to the first of them by name; no property depends on which.
ReadAdmins(p) ==
  /\ pass[p].at = "idle"
  /\ LET admins == ListUsersWithCompanyRole(Admin)
     IN \E a \in admins :
          pass' = [pass EXCEPT ![p] = [Idle EXCEPT !.at = "admins", !.admins = admins, !.to = a]]
  /\ UNCHANGED <<grantVars, reading, overdue, assignee, rows, faults>>

\* Slip: the comparison of the times is turned around.
ListRecent == {r \in Readings \ overdue : reading[r] = "PENDING"}
ListOverduePendingManualApprovals == {r \in overdue : reading[r] = "PENDING"}

ReadOverdue(p) ==
  /\ pass[p].at = "admins"
  /\ pass' = [pass EXCEPT ![p].at = "readings", ![p].todo = ListOverduePendingManualApprovals]
  /\ UNCHANGED <<grantVars, reading, overdue, assignee, rows, faults>>

\* Slip: any reading that is not approved is escalated, again if need be.
StillOpen(r) == reading[r] \in {"PENDING", "ESCALATED"}
StillPending(r) == reading[r] = "PENDING"

\* The update has a condition of its own: a reading settled since the list was
\* read is left out, with its notices.
EscalateWeightBridgeReading(p) ==
  /\ pass[p].at = "readings"
  /\ \E r \in pass[p].todo :
       IF StillPending(r)
       THEN /\ reading' = [reading EXCEPT ![r] = Escalated]
            /\ assignee' = [assignee EXCEPT ![r] = pass[p].to]
            /\ pass' = [pass EXCEPT ![p].at = "notices", ![p].todo = @ \ {r},
                                    ![p].current = r, ![p].tell = pass[p].admins \cap Linked]
       ELSE /\ pass' = [pass EXCEPT ![p].todo = @ \ {r}]
            /\ UNCHANGED <<reading, assignee>>
  /\ UNCHANGED <<grantVars, overdue, rows, faults>>

OneMore(n) == IF n < 2 THEN n + 1 ELSE 2

\* Every error but a panic is passed over; a panic ends the pass.
Notify(p) ==
  /\ pass[p].at = "notices"
  /\ \E u \in pass[p].tell, report \in Send(Sender) :
       /\ rows' = IF report.status = "NONE" THEN rows
                  ELSE [rows EXCEPT ![pass[p].current][u] = OneMore(@)]
       /\ pass' = IF report.err = "panic" THEN [pass EXCEPT ![p] = Idle]
                  ELSE [pass EXCEPT ![p].tell = @ \ {u}]
       /\ faults' = IF report.err = "insert" THEN faults + 1 ELSE faults
       /\ faults' <= MaxFaults
  /\ UNCHANGED <<grantVars, reading, overdue, assignee>>

NextReading(p) ==
  /\ pass[p].at = "notices"
  /\ pass[p].tell = {}
  /\ pass' = [pass EXCEPT ![p].at = "readings", ![p].current = None]
  /\ UNCHANGED <<grantVars, reading, overdue, assignee, rows, faults>>

Finish(p) ==
  /\ pass[p].at = "readings"
  /\ pass[p].todo = {}
  /\ pass' = [pass EXCEPT ![p] = Idle]
  /\ UNCHANGED <<grantVars, reading, overdue, assignee, rows, faults>>

\* A query fails, the two minutes are over, or the worker dies.
Break(p) ==
  /\ pass[p].at # "idle"
  /\ faults < MaxFaults
  /\ faults' = faults + 1
  /\ pass' = [pass EXCEPT ![p] = Idle]
  /\ UNCHANGED <<grantVars, reading, overdue, assignee, rows>>

Run(p) ==
  \/ ReadAdmins(p) \/ ReadOverdue(p)
  \/ EscalateWeightBridgeReading(p)
  \/ Notify(p) \/ NextReading(p) \/ Finish(p)

Next ==
  \/ \E r \in Readings : CreateWeightBridge(r) \/ ApproveWeightBridge(r) \/ Age(r)
  \/ \E p \in Passes : Run(p) \/ Break(p)
  \/ Administer /\ UNCHANGED jobVars

Spec == Init /\ [][Next]_vars

\* Cron starts the job every half hour, and a pass that runs goes on.
Fairness == \A p \in Passes : WF_vars(Run(p))
FairSpec == Spec /\ Fairness

-------------------------------------------------------------------------------
(* What the escalation owes the administrators. *)

\* An administrator gets at most one row for a reading, and only for one that
\* was escalated: passes that overlap, break off and start again, and managers
\* who approve meanwhile, make no second notice and no false one.
NoticesAreOfEscalations ==
  \A r \in Readings : \A u \in Users :
    /\ rows[r][u] <= 1
    /\ rows[r][u] > 0 => assignee[r] # None

\* While the job finds an administrator, an overdue reading is escalated or
\* approved, although passes break off (weight_bridge_escalation.go, Run).
OverdueIsEscalated ==
  <>[](ListUsersWithCompanyRole(Admin) # {}) =>
    []<>(\A r \in overdue : reading[r] # "PENDING")
===============================================================================
