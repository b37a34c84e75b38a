------------------------------ MODULE MobileSync ------------------------------
(***************************************************************************)
(* What a driver's phone uploads: batches of GPS points                    *)
(* (internal/handler/gps.go) and trip events (internal/handler/trip.go).   *)
(* The phone is not in the repository.  It keeps what it recorded and      *)
(* sends it again, in batches of its choice, until the answer accounts for *)
(* all of a batch, as the sync protocol of SKILL.md has it.                *)
(*                                                                         *)
(* A batch is handled point by point, every query a statement of its own:  *)
(* is the point known?  if not, insert and publish it.  No constraint of   *)
(* gps_events keeps a point from being inserted twice, and a point outside *)
(* the monthly partitions cannot be inserted at all.                       *)
(***************************************************************************)
EXTENDS Naturals, Sequences

CONSTANTS
  Points,
  Routable,     \* the points whose time lies in a partition of gps_events
  Events,       \* trip events
  Batches,      \* the batches the phone may send
  Requests,     \* batches that may be in flight at a time
  MaxFaults     \* bound: database errors, lost answers and broken requests

\* Of the constants; MCPositions assumes it of theirs.
SyncAssumption ==
  /\ Routable \subseteq Points
  /\ Batches \subseteq Seq(Points) \ {<<>>}
  /\ MaxFaults \in Nat

VARIABLES
  outbox,      \* points the phone keeps
  request,     \* the batches in flight
  stored,      \* gps_events: rows of each point, up to 2
  risked,      \* history: points whose check failed or came too early
  unsent,      \* events the phone keeps
  recorded,    \* trip_events
  answer,      \* the last status code for each event
  faults       \* faults so far

pointVars == <<outbox, request, stored, risked>>
eventVars == <<unsent, recorded, answer>>
vars == <<pointVars, eventVars, faults>>

Counts == [Points -> 0..2]
RequestRecord == [at : {"idle", "point", "insert", "publish"}, batch : Batches \cup {<<>>},
                  next : Nat, accepted : Nat, duplicates : Nat]
Idle == [at |-> "idle", batch |-> <<>>, next |-> 1, accepted |-> 0, duplicates |-> 0]

TypeOK ==
  /\ outbox \in SUBSET Points
  /\ request \in [Requests -> RequestRecord]
  /\ \A r \in Requests :
       request[r].accepted + request[r].duplicates <= Len(request[r].batch)
  /\ stored \in Counts
  /\ risked \in SUBSET Points
  /\ unsent \in SUBSET Events /\ recorded \in SUBSET Events
  /\ answer \in [Events -> {0, 201, 500}]
  /\ faults \in 0..MaxFaults

Init ==
  /\ outbox = Points
  /\ request = [r \in Requests |-> Idle]
  /\ stored = [p \in Points |-> 0]
  /\ risked = {}
  /\ unsent = Events
  /\ recorded = {}
  /\ answer = [e \in Events |-> 0]
  /\ faults = 0

OneMore(n) == IF n < 2 THEN n + 1 ELSE 2
Fault == faults < MaxFaults /\ faults' = faults + 1
NoFault == UNCHANGED faults

-------------------------------------------------------------------------------
(* A batch. *)

PointsOf(b) == {b[i] : i \in DOMAIN b}
Point(r) == request[r].batch[request[r].next]
Seen(r) == {request[r].batch[i] : i \in 1..(request[r].next - 1)}
AtPoint(r) == request[r].at = "point" /\ request[r].next <= Len(request[r].batch)

Goto(r, point) == request' = [request EXCEPT ![r].at = point]
NextPoint(r) == request' = [request EXCEPT ![r].at = "point", ![r].next = @ + 1]
\* Slip: the point is counted, and handled all the same.
CountOnly(r) == request' = [request EXCEPT ![r].at = "insert", ![r].duplicates = @ + 1]
Duplicate(r) == request' = [request EXCEPT ![r].at = "point", ![r].next = @ + 1, ![r].duplicates = @ + 1]

SendBatch(r, b) ==
  /\ request[r].at = "idle"
  /\ PointsOf(b) \subseteq outbox
  /\ request' = [request EXCEPT ![r] = [Idle EXCEPT !.at = "point", !.batch = b]]
  /\ UNCHANGED <<outbox, stored, risked, eventVars, faults>>

Repeated(r) ==
  /\ AtPoint(r)
  /\ Point(r) \in Seen(r)
  /\ Duplicate(r)
  /\ UNCHANGED <<outbox, stored, risked, eventVars, faults>>

\* Slip: every point is taken for new.
Unknown(p) == FALSE
\* Slip: any point of the trip is taken for this one.
TripHasPoints(p) == \E other \in Points : stored[other] > 0
CheckGPSEventUUIDExists(p) == stored[p] > 0

\* Another request has found p unknown and has not stored it yet.
BeingInserted(p) == \E r \in Requests : request[r].at = "insert" /\ Point(r) = p
GoInsert(r, risky) ==
  /\ Goto(r, "insert")
  /\ risked' = IF risky THEN risked \cup {Point(r)} ELSE risked

\* An error of the check counts as "not known".
CheckPoint(r) ==
  /\ AtPoint(r)
  /\ Point(r) \notin Seen(r)
  /\ \/ /\ NoFault
        /\ IF CheckGPSEventUUIDExists(Point(r))
           THEN Duplicate(r) /\ UNCHANGED risked
           ELSE GoInsert(r, BeingInserted(Point(r)))
     \/ Fault /\ GoInsert(r, TRUE)
  /\ UNCHANGED <<outbox, stored, eventVars>>

InsertGPSEvent(r) ==
  /\ request[r].at = "insert"
  /\ Point(r) \in Routable
  /\ stored' = [stored EXCEPT ![Point(r)] = OneMore(@)]
  /\ request' = [request EXCEPT ![r].at = "publish", ![r].accepted = @ + 1]
  /\ UNCHANGED <<outbox, risked, eventVars, faults>>

\* Slip: a point that could not be stored is counted with the duplicates.
CountFailed(r) == Duplicate(r)
LeaveOut(r) == NextPoint(r)

InsertFails(r) ==
  /\ request[r].at = "insert"
  /\ IF Point(r) \in Routable THEN Fault ELSE NoFault
  /\ LeaveOut(r)
  /\ UNCHANGED <<outbox, stored, risked, eventVars>>

\* The message on ws:trip:* is the subject of LiveMap; its error is dropped.
Publish(r) ==
  /\ request[r].at = "publish"
  /\ NextPoint(r)
  /\ UNCHANGED <<outbox, stored, risked, eventVars, faults>>

AccountsForAll(r) == request[r].accepted + request[r].duplicates = Len(request[r].batch)

\* 202 with the counts; the answer may be lost.
Respond(r) ==
  /\ request[r].at = "point"
  /\ request[r].next > Len(request[r].batch)
  /\ request' = [request EXCEPT ![r] = Idle]
  /\ \/ /\ NoFault
        /\ outbox' = IF AccountsForAll(r) THEN outbox \ PointsOf(request[r].batch) ELSE outbox
     \/ Fault /\ UNCHANGED outbox
  /\ UNCHANGED <<stored, risked, eventVars>>

\* The connection breaks, or the API restarts: what is stored stays stored.
Abandon(r) ==
  /\ request[r].at # "idle"
  /\ Fault
  /\ request' = [request EXCEPT ![r] = Idle]
  /\ UNCHANGED <<outbox, stored, risked, eventVars>>

Batch(r) ==
  Repeated(r) \/ CheckPoint(r) \/ InsertGPSEvent(r) \/ InsertFails(r) \/ Publish(r) \/ Respond(r)

-------------------------------------------------------------------------------
(* Trip events: the workflow records an event once, see DeliveryWorkflow.  A *)
(* known event_uuid fails in the database like any other error.              *)

CreateEvent(e) ==
  /\ e \in unsent \ recorded
  /\ recorded' = recorded \cup {e}
  /\ \/ NoFault /\ unsent' = unsent \ {e} /\ answer' = [answer EXCEPT ![e] = 201]
     \/ Fault /\ UNCHANGED <<unsent, answer>>
  /\ UNCHANGED pointVars

CreateEventFails(e) ==
  /\ e \in unsent
  /\ IF e \in recorded THEN NoFault ELSE Fault
  /\ answer' = [answer EXCEPT ![e] = 500]
  /\ UNCHANGED <<pointVars, unsent, recorded>>

Next ==
  \/ \E r \in Requests : Batch(r) \/ Abandon(r) \/ \E b \in Batches : SendBatch(r, b)
  \/ \E e \in Events : CreateEvent(e) \/ CreateEventFails(e)

Spec == Init /\ [][Next]_vars

\* A request that is in flight goes on; the phone sends again what it keeps.
Fairness ==
  /\ \A r \in Requests : WF_vars(Batch(r))
  /\ \A b \in Batches : SF_vars(\E r \in Requests : SendBatch(r, b))
  /\ \A e \in Events : WF_vars(CreateEvent(e) \/ CreateEventFails(e))
FairSpec == Spec /\ Fairness

-------------------------------------------------------------------------------
(* What the phone may rely on. *)

\* The phone drops a point or an event only when it is stored: the counts of an
\* answer never cover a point that failed, whatever was repeated, resent or
\* broken off (gps.go, Batch; trip.go, CreateEvent).
KeptUntilStored ==
  /\ \A p \in Points : p \in outbox \/ stored[p] > 0
  /\ Events \subseteq unsent \cup recorded

\* SKILL.md: "Duplicate `event_uuid` values are silently skipped".  A point is
\* stored twice only when its check failed, or was made while another batch
\* stood between its check and its insert of the very point.
StoredOnce == \A p \in Points \ risked : stored[p] <= 1

\* A phone that sends again what it keeps gets every point stored that has a
\* partition, also when it shares its batches with points that have none, and
\* every event recorded.
UploadsArrive ==
  []<>((\A p \in Routable : stored[p] > 0) /\ Events \subseteq recorded)
===============================================================================
