----------------------------- MODULE ExpiryNotices -----------------------------
(***************************************************************************)
(* The two daily expiry jobs of the worker (internal/service/worker_jobs.go *)
(* and notification_coordinator.go): licences are announced to their       *)
(* drivers, vehicle inspections (keur) to the staff of the vehicle's depot. *)
(*                                                                         *)
(* Both jobs start at 07:00 and run side by side.  Each goes through its   *)
(* recipients in the order of its query, leaves out those without a        *)
(* Telegram account, and those whose newest Window rows of                 *)
(* notification_log already hold this notice, failed ones included.  Any   *)
(* error but a missing bot ends the pass until the next day.               *)
(*                                                                         *)
(* rows keeps the newest Window + 1 rows of a user: the code reads Window  *)
(* of them (20), one more is kept to say how far apart repeats are.        *)
(***************************************************************************)
EXTENDS Naturals, Sequences, Notifier

CONSTANTS
  Users,
  Notices,      \* the texts: a driver's licence, a vehicle's keur
  Other,        \* a notice of another kind
  Work,         \* the recipients of each job, in the order of its query
  Window,       \* how many rows the duplicate check reads
  Sender,       \* the worker's sender
  MaxFaults,    \* bound: database errors, timeouts and crashes
  MaxOthers     \* bound: notices of other kinds

Jobs == {"licence", "keur"}

\* Of the constants; MCWorker assumes it of theirs.
ExpiryAssumption ==
  /\ Window \in Nat \ {0}
  /\ Other \notin Notices
  /\ Sender \in Senders
  /\ Work \in [Jobs -> Seq([user : Users, notice : Notices])]
  /\ MaxFaults \in Nat /\ MaxOthers \in Nat

VARIABLES
  linked,   \* users with a Telegram account
  rows,     \* notification_log: a user's newest rows, newest first
  pass,     \* the recipient each job is at, 0 when it does not run
  faults,   \* faults so far
  others,   \* notices of other kinds so far
  tried     \* history: notices that have had a row

vars == <<linked, rows, pass, faults, others, tried>>

Slots == 1..(Window + 1)
NoRow == [notice |-> Other, status |-> "NONE"]
Row == [notice : Notices \cup {Other}, status : Statuses]

TypeOK ==
  /\ linked \in SUBSET Users
  /\ rows \in [Users -> [Slots -> Row]]
  /\ pass \in [Jobs -> Nat]
  /\ \A j \in Jobs : pass[j] <= Len(Work[j])
  /\ faults \in 0..MaxFaults
  /\ others \in 0..MaxOthers
  /\ tried \in SUBSET (Users \X Notices)

Init ==
  /\ linked \in SUBSET Users
  /\ rows = [u \in Users |-> [i \in Slots |-> NoRow]]
  /\ pass = [j \in Jobs |-> 0]
  /\ faults = 0
  /\ others = 0
  /\ tried = {}

-------------------------------------------------------------------------------
(* The log. *)

Prepend(old, row) == [i \in Slots |-> IF i = 1 THEN row ELSE old[i - 1]]

\* Slip: the duplicate check reads one row less than it should.
ReadAllButOne(u) == {rows[u][i] : i \in 1..(Window - 1)}
ListNotificationsByRecipient(u) == {rows[u][i] : i \in 1..Window}

\* Slip: a failed row does not count.
sentSuccessfully(u, n) ==
  \E row \in ListNotificationsByRecipient(u) : row.notice = n /\ row.status = "SUCCESS"
alreadySentToUser(u, n) ==
  \E row \in ListNotificationsByRecipient(u) : row.notice = n

-------------------------------------------------------------------------------
(* A pass of a job. *)

Start(j) ==
  /\ pass[j] = 0
  /\ Work[j] # <<>>
  /\ pass' = [pass EXCEPT ![j] = 1]
  /\ UNCHANGED <<linked, rows, faults, others, tried>>

Running(j) == pass[j] # 0
Recipient(j) == Work[j][pass[j]].user
Notice(j) == Work[j][pass[j]].notice

\* Slip: the pass goes on behind the last recipient.
GoPastTheEnd(j) == [pass EXCEPT ![j] = IF @ <= Len(Work[j]) THEN @ + 1 ELSE 0]
GoOn(j) == [pass EXCEPT ![j] = IF @ < Len(Work[j]) THEN @ + 1 ELSE 0]
Stop(j) == [pass EXCEPT ![j] = 0]

Skip(j) ==
  /\ Running(j)
  /\ Recipient(j) \notin linked \/ alreadySentToUser(Recipient(j), Notice(j))
  /\ pass' = GoOn(j)
  /\ UNCHANGED <<linked, rows, faults, others, tried>>

Record(u, n, report) ==
  IF report.status = "NONE"
  THEN UNCHANGED <<rows, tried>>
  ELSE /\ rows' = [rows EXCEPT ![u] = Prepend(@, [notice |-> n, status |-> report.status])]
       /\ tried' = tried \cup {<<u, n>>}

Notify(j) ==
  /\ Running(j)
  /\ Recipient(j) \in linked
  /\ ~alreadySentToUser(Recipient(j), Notice(j))
  /\ \E report \in Send(Sender) :
       /\ Record(Recipient(j), Notice(j), report)
       /\ pass' = IF ignoreNotificationSendError(report.err) THEN GoOn(j) ELSE Stop(j)
       /\ faults' = IF report.err = "insert" THEN faults + 1 ELSE faults
       /\ faults' <= MaxFaults
  /\ UNCHANGED <<linked, others>>

\* A query fails, or the two minutes of the job are over.
QueryFails(j) ==
  /\ Running(j)
  /\ faults < MaxFaults
  /\ pass' = Stop(j)
  /\ faults' = faults + 1
  /\ UNCHANGED <<linked, rows, others, tried>>

\* The worker dies; a message sent without its row is the insert that fails.
Crash ==
  /\ \E j \in Jobs : Running(j)
  /\ faults < MaxFaults
  /\ pass' = [j \in Jobs |-> 0]
  /\ faults' = faults + 1
  /\ UNCHANGED <<linked, rows, others, tried>>

-------------------------------------------------------------------------------
(* The rest of the system. *)

LinkTelegramAccount(u) ==
  /\ u \notin linked
  /\ linked' = linked \cup {u}
  /\ UNCHANGED <<rows, pass, faults, others, tried>>

OtherNotice(u) ==
  /\ u \in linked
  /\ others < MaxOthers
  /\ rows' = [rows EXCEPT ![u] = Prepend(@, [notice |-> Other, status |-> "SUCCESS"])]
  /\ others' = others + 1
  /\ UNCHANGED <<linked, pass, faults, tried>>

Step(j) == Skip(j) \/ Notify(j)

Next ==
  \/ \E j \in Jobs : Start(j) \/ Step(j) \/ QueryFails(j)
  \/ Crash
  \/ \E u \in Users : LinkTelegramAccount(u) \/ OtherNotice(u)

Spec == Init /\ [][Next]_vars

\* Cron starts a job every day, and a pass that runs goes on.
Fairness == \A j \in Jobs : WF_vars(Start(j)) /\ WF_vars(Step(j))
FairSpec == Spec /\ Fairness

-------------------------------------------------------------------------------
(* What the jobs owe their readers. *)

\* The same notice is written to a user's log again only when Window other
\* rows came in between: no two of the rows that are kept hold one notice
\* (alreadySentToUser, across days, crashes and the two jobs).
RepeatsAreFarApart ==
  \A u \in Users : \A i, k \in Slots :
    (i < k /\ rows[u][i].notice \in Notices) => rows[u][i].notice # rows[u][k].notice

\* A recipient with a Telegram account gets every notice of the jobs tried,
\* although one failed send ends the pass of everybody after: the failed row
\* is passed over the next day (worker_jobs.go, NotifyExpiringLicenses).
EveryoneTried ==
  []<>(\A j \in Jobs : \A i \in DOMAIN Work[j] :
         Work[j][i].user \in linked => <<Work[j][i].user, Work[j][i].notice>> \in tried)
===============================================================================
