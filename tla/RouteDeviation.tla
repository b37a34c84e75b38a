----------------------------- MODULE RouteDeviation -----------------------------
(***************************************************************************)
(* The route deviation job of the worker                                   *)
(* (internal/service/route_deviation_monitor.go and worker_jobs.go).       *)
(*                                                                         *)
(* A pass first compares every trip under way with its route and opens or  *)
(* resolves deviations, then alerts the facility managers of those that    *)
(* have lasted.  Cron starts a pass every minute and gives it two, so that *)
(* two passes may overlap: Passes is the set of those running at a time.   *)
(* Each query of a pass is a step of its own.                              *)
(***************************************************************************)
EXTENDS Naturals, Sequences, FiniteSetsExt, Notifier

CONSTANTS
  Trips,
  Users,
  ManagersOf,   \* the managers of each trip's facility, by name
  Passes,       \* passes of the job that may overlap
  MaxDrifts,    \* bound: how often trips leave their routes
  MaxOverlaps,  \* bound: how often a pass begins while another is under way
  MaxFaults,    \* bound: failed sends, database errors, timeouts and crashes
  None

\* Of the constants; MCWorker assumes it of theirs.
DeviationAssumption ==
  /\ IsFiniteSet(Passes)
  /\ ManagersOf \in [Trips -> Seq(Users)]
  /\ MaxDrifts \in Nat /\ MaxOverlaps \in Nat /\ MaxFaults \in Nat

VARIABLES
  running,    \* trips in transit, arrived or unloading
  off,        \* trips whose last position is off the route
  events,     \* route_deviation_events, in the order of their detection
  pass,       \* what each pass has read and has still to do
  rows,       \* notification_log: for each event, the users with a SUCCESS row of it
  drifts,     \* how often a trip has left its route
  overlaps,   \* passes begun while another was under way
  faults      \* faults so far

vars == <<running, off, events, pass, rows, drifts, overlaps, faults>>

Event == [trip : Trips, occurrence : Nat, resolved : BOOLEAN,
          lasted : BOOLEAN, notified : BOOLEAN]
Points == {"idle", "monitor", "found", "counted", "watched", "alerts", "tell"}
PassRecord == [at : Points, todo : SUBSET Trips, off : SUBSET Trips,
               trip : {None} \cup Trips, open : Nat, count : Nat,
               alerts : SUBSET Nat, event : Nat, user : Nat]
Idle == [at |-> "idle", todo |-> {}, off |-> {}, trip |-> None, open |-> 0,
         count |-> 0, alerts |-> {}, event |-> 0, user |-> 0]

TypeOK ==
  /\ running \in SUBSET Trips
  /\ off \in SUBSET Trips
  /\ events \in Seq(Event)
  /\ pass \in [Passes -> PassRecord]
  /\ rows \in Seq(SUBSET Users)
  /\ Len(rows) = Len(events)
  /\ drifts \in 0..MaxDrifts
  /\ overlaps \in 0..MaxOverlaps
  /\ faults \in 0..MaxFaults

Init ==
  /\ running = Trips
  /\ off = {}
  /\ events = <<>>
  /\ pass = [p \in Passes |-> Idle]
  /\ rows = <<>>
  /\ drifts = 0
  /\ overlaps = 0
  /\ faults = 0

-------------------------------------------------------------------------------
(* The trips and the clock. *)

LeaveRoute(t) ==
  /\ t \in running \ off
  /\ drifts < MaxDrifts
  /\ off' = off \cup {t}
  /\ drifts' = drifts + 1
  /\ UNCHANGED <<running, events, pass, rows, overlaps, faults>>

ReturnToRoute(t) ==
  /\ t \in running \cap off
  /\ off' = off \ {t}
  /\ UNCHANGED <<running, events, pass, rows, drifts, overlaps, faults>>

CompleteTrip(t) ==
  /\ t \in running
  /\ running' = running \ {t}
  /\ UNCHANGED <<off, events, pass, rows, drifts, overlaps, faults>>

\* route_deviation_alert_minutes have passed since the detection.
Last(e) ==
  /\ ~events[e].lasted
  /\ events' = [events EXCEPT ![e].lasted = TRUE]
  /\ UNCHANGED <<running, off, pass, rows, drifts, overlaps, faults>>

-------------------------------------------------------------------------------
(* The monitor. *)

OfTrip(t) == {e \in DOMAIN events : events[e].trip = t}
Unresolved(t) == {e \in OfTrip(t) : ~events[e].resolved}

\* Slip: what the managers know of is taken for settled.
GetUntoldDeviationByTrip(t) ==
  LET open == {e \in Unresolved(t) : ~events[e].notified}
  IN  IF open = {} THEN 0 ELSE Max(open)
\* The latest one that is not resolved, 0 when there is none.
GetOpenDeviationByTrip(t) == IF Unresolved(t) = {} THEN 0 ELSE Max(Unresolved(t))

CountTripDeviations(t) == Cardinality(OfTrip(t))

Overlapped(p) == \E q \in Passes \ {p} : pass[q].at # "idle"

Begin(p) ==
  /\ pass[p].at = "idle"
  /\ overlaps' = IF Overlapped(p) THEN overlaps + 1 ELSE overlaps
  /\ overlaps' <= MaxOverlaps
  /\ pass' = [pass EXCEPT ![p].at = "monitor", ![p].todo = running, ![p].off = off]
  /\ UNCHANGED <<running, off, events, rows, drifts, faults>>

FindOpen(p) ==
  /\ pass[p].at = "monitor"
  /\ \E t \in pass[p].todo :
       pass' = [pass EXCEPT ![p].at = "found", ![p].todo = @ \ {t},
                            ![p].trip = t, ![p].open = GetOpenDeviationByTrip(t)]
  /\ UNCHANGED <<running, off, events, rows, drifts, overlaps, faults>>

IsOff(p) == pass[p].trip \in pass[p].off
HasOpen(p) == pass[p].open # 0
NextTrip(p) == [pass EXCEPT ![p].at = "monitor", ![p].trip = None, ![p].open = 0, ![p].count = 0]

NothingNew(p) ==
  /\ pass[p].at = "found"
  /\ IsOff(p) <=> HasOpen(p)
  /\ pass' = NextTrip(p)
  /\ UNCHANGED <<running, off, events, rows, drifts, overlaps, faults>>

CountEarlier(p) ==
  /\ pass[p].at = "found"
  /\ IsOff(p) /\ ~HasOpen(p)
  /\ pass' = [pass EXCEPT ![p].at = "counted", ![p].count = CountTripDeviations(pass[p].trip)]
  /\ UNCHANGED <<running, off, events, rows, drifts, overlaps, faults>>

New(t, n) ==
  [trip |-> t, occurrence |-> n, resolved |-> FALSE, lasted |-> FALSE, notified |-> FALSE]

CreateDeviationEvent(p) ==
  /\ pass[p].at = "counted"
  /\ events' = Append(events, New(pass[p].trip, pass[p].count + 1))
  /\ rows' = Append(rows, {})
  /\ pass' = NextTrip(p)
  /\ UNCHANGED <<running, off, drifts, overlaps, faults>>

UpdateDeviationDuration(p) ==
  /\ pass[p].at = "found"
  /\ ~IsOff(p) /\ HasOpen(p)
  /\ events' = [events EXCEPT ![pass[p].open].resolved = TRUE]
  /\ pass' = NextTrip(p)
  /\ UNCHANGED <<running, off, rows, drifts, overlaps, faults>>

Watched(p) ==
  /\ pass[p].at = "monitor"
  /\ pass[p].todo = {}
  /\ pass' = [pass EXCEPT ![p].at = "watched"]
  /\ UNCHANGED <<running, off, events, rows, drifts, overlaps, faults>>

-------------------------------------------------------------------------------
(* The alerts. *)

\* Slip: a trip's first occurrence is only logged.
ListUnnotifiedRepeats ==
  {e \in DOMAIN events : /\ events[e].lasted /\ ~events[e].resolved /\ ~events[e].notified
                         /\ events[e].occurrence > 1}
ListUnnotifiedDeviationsAboveThreshold ==
  {e \in DOMAIN events : events[e].lasted /\ ~events[e].resolved /\ ~events[e].notified}

ListAlerts(p) ==
  /\ pass[p].at = "watched"
  /\ pass' = [pass EXCEPT ![p].at = "alerts", ![p].alerts = ListUnnotifiedDeviationsAboveThreshold]
  /\ UNCHANGED <<running, off, events, rows, drifts, overlaps, faults>>

\* The oldest first.
NextAlert(p) ==
  /\ pass[p].at = "alerts"
  /\ pass[p].alerts # {}
  /\ pass' = [pass EXCEPT ![p].at = "tell", ![p].event = Min(pass[p].alerts),
                          ![p].alerts = @ \ {Min(@)}, ![p].user = 1]
  /\ UNCHANGED <<running, off, events, rows, drifts, overlaps, faults>>

Managers(p) == ManagersOf[events[pass[p].event].trip]

\* One error leaves the managers and the deviations that follow to a later pass.
TellManager(p) ==
  /\ pass[p].at = "tell"
  /\ pass[p].user <= Len(Managers(p))
  /\ \E report \in Send("bot") :
       /\ rows' = IF report.status # "SUCCESS" THEN rows
                  ELSE [rows EXCEPT ![pass[p].event] = @ \cup {Managers(p)[pass[p].user]}]
       /\ faults' = IF report.err = "none" THEN faults ELSE faults + 1
       /\ faults' <= MaxFaults
       /\ pass' = IF ignoreNotificationSendError(report.err)
                  THEN [pass EXCEPT ![p].user = @ + 1] ELSE [pass EXCEPT ![p] = Idle]
  /\ UNCHANGED <<running, off, events, drifts, overlaps>>

MarkDeviationTelegramNotified(p) ==
  /\ pass[p].at = "tell"
  /\ pass[p].user > Len(Managers(p))
  /\ events' = [events EXCEPT ![pass[p].event].notified = TRUE]
  /\ pass' = [pass EXCEPT ![p].at = "alerts", ![p].event = 0, ![p].user = 0]
  /\ UNCHANGED <<running, off, rows, drifts, overlaps, faults>>

Finish(p) ==
  /\ pass[p].at = "alerts"
  /\ pass[p].alerts = {}
  /\ pass' = [pass EXCEPT ![p] = Idle]
  /\ UNCHANGED <<running, off, events, rows, drifts, overlaps, faults>>

\* A query fails, the two minutes are over, or the worker dies.
Break(p) ==
  /\ pass[p].at # "idle"
  /\ faults < MaxFaults
  /\ faults' = faults + 1
  /\ pass' = [pass EXCEPT ![p] = Idle]
  /\ UNCHANGED <<running, off, events, rows, drifts, overlaps>>

Monitor(p) ==
  \/ Begin(p) \/ FindOpen(p) \/ NothingNew(p) \/ CountEarlier(p)
  \/ CreateDeviationEvent(p) \/ UpdateDeviationDuration(p) \/ Watched(p)

Alert(p) ==
  \/ ListAlerts(p) \/ NextAlert(p) \/ TellManager(p)
  \/ MarkDeviationTelegramNotified(p) \/ Finish(p)

Next ==
  \/ \E t \in Trips : LeaveRoute(t) \/ ReturnToRoute(t) \/ CompleteTrip(t)
  \/ \E e \in DOMAIN events : Last(e)
  \/ \E p \in Passes : Monitor(p) \/ Alert(p) \/ Break(p)

Spec == Init /\ [][Next]_vars

\* Cron starts a pass every minute, and a pass that runs goes on.
Fairness == \A p \in Passes : WF_vars(Monitor(p) \/ Alert(p))
FairSpec == Spec /\ Fairness

-------------------------------------------------------------------------------
(* What the job owes. *)

\* Passes that overlap look for an open deviation, count and create at the same
\* time (route_deviation_monitor.go), yet a trip never has more open deviations
\* than passes that may overlap, one if they do not, and none is given a
\* higher number than its place among the trip's deviations.
DeviationsStayFew ==
  /\ \A t \in Trips : Cardinality(Unresolved(t)) <= Cardinality(Passes)
  /\ \A e \in DOMAIN events :
       events[e].occurrence <= Cardinality({d \in OfTrip(events[e].trip) : d <= e})

\* A deviation that is marked as told (worker_jobs.go) was sent to every manager of
\* the trip's facility, through failed sends and passes that break off or overlap.
AlertedMeansSent ==
  \A e \in DOMAIN events :
    events[e].notified =>
      \A m \in DOMAIN ManagersOf[events[e].trip] : ManagersOf[events[e].trip][m] \in rows[e]

\* A deviation that lasts is told to the facility's managers, unless it is
\* resolved first (SKILL.md, Route Deviation Policy), although an error ends the
\* pass of all that come after.
SustainedIsAlerted ==
  []<>(\A e \in DOMAIN events : events[e].lasted => (events[e].resolved \/ events[e].notified))
===============================================================================
