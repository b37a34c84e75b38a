-------------------------- MODULE DeliveryWorkflow --------------------------
(***************************************************************************)
(* Delivery orders, the trips that carry them out and the storage tanks    *)
(* they reserve, empty and fill: WorkflowService (internal/service/        *)
(* workflow.go), the handlers that call it and the SQL it runs.            *)
(*                                                                         *)
(* Every WorkflowService call is one PostgreSQL transaction at the default *)
(* READ COMMITTED level (Store.ExecTx).  It is modelled statement by       *)
(* statement: a plain SELECT sees committed rows only and takes no lock;   *)
(* an UPDATE locks its row until the transaction ends and sees the last    *)
(* committed version.  `tank' is the committed version of the tank rows,   *)
(* `dirty' the version the row's lock holder has written so far.           *)
(*                                                                         *)
(* trips.do_id is UNIQUE, so a trip is named by its delivery order.        *)
(***************************************************************************)
EXTENDS Integers, FiniteSets

CONSTANTS
    DO,            \* delivery orders
    Tank,          \* active facility_storage_tanks and station_tanks rows
    Pool,          \* what a tank row is looked up by: a site and a fuel type
    Line,          \* volumes: order items, a trip's loaded and delivered totals
    Compartment,   \* trip_compartment_deliveries rows
    Reading,       \* weight_bridge_readings rows
    Uuid,          \* event_uuid values the mobile clients generate
    Tx,            \* requests served at the same time
    Null,
    TankPool, Capacity, StartVolume,
    LinePool, LineOrder, LineRole, LineVolume,
    CompartmentTrip, ReadingTrip,
    Destination,   \* where each order's trip unloads
    PhotoBatch     \* sets of photos a client uploads with nothing in between

\* photo_event_t; a COMPARTMENT_SEALED photo is represented by the trip's
\* compartment it names, or by "SEALED" when it names some other one.
PhotoKind == {"TARE", "GROSS", "SEALED", "BEFORE", "PUMP", "AFTER"}
                 \union Compartment

ASSUME ConstantTypes ==
    /\ TankPool \in [Tank -> Pool]
    /\ Capacity \in [Tank -> Nat]
    /\ StartVolume \in [Tank -> Nat]
    /\ LinePool \in [Line -> Pool]
    /\ LineOrder \in [Line -> DO]
    /\ LineRole \in [Line -> {"item", "loaded", "delivered"}]
    /\ LineVolume \in [Line -> Nat \ {0}]
    /\ CompartmentTrip \in [Compartment -> DO]
    /\ ReadingTrip \in [Reading -> DO]
    /\ Destination \in [DO -> {"STATION", "RETURN", "TRANSFER"}]
    /\ PhotoBatch \subseteq SUBSET PhotoKind

ASSUME StartWithinCapacity == \A t \in Tank : StartVolume[t] <= Capacity[t]

ASSUME NullIsNoValue == Null \notin Tx \union DO \union Uuid

VARIABLES
    doStatus,    \* delivery_orders.status
    items,       \* delivery_order_items rows
    tank,        \* committed tank rows
    dirty,       \* tank rows as written by their lock holders
    holder,      \* the transaction that holds a tank row's lock
    tripStatus,  \* trips.status, "NONE" before the trip exists
    photos,      \* trip_photos rows: <<trip, kind>>
    reading,     \* weight_bridge_readings.approval_status
    variance,    \* a compartment's variance_pct against the tolerance
    delivery,    \* trip_compartment_deliveries.delivery_status
    events,      \* trip_events rows
    tx           \* the transactions in flight

orderVars == <<doStatus, items>>
tankVars == <<tank, dirty, holder>>
tripVars == <<tripStatus, photos, reading, variance, delivery, events>>
vars == <<orderVars, tankVars, tripVars, tx>>

-----------------------------------------------------------------------------
(* Types.  RECONCILED and CLOSED orders, and trip statuses other than these, *)
(* are written by no code of the repository.                                *)

OrderStatus == {"NONE", "DRAFT", "PENDING_APPROVAL", "APPROVED", "ASSIGNED",
                "IN_PROGRESS", "DELIVERED", "DISPUTED", "CANCELLED"}
TripStatus == {"NONE", "CREATED", "LOADED", "DELIVERED", "DISPUTED"}
ApprovalStatus == {"NONE", "PENDING", "ESCALATED", "APPROVED"}
DeliveryStatus == {"PENDING", "DELIVERED", "DISPUTED"}
Variance == {"null", "within", "beyond"}
EventType == {"LOADING_COMPLETED", "DELIVERY_COMPLETED", "OTHER"}

Row == [current : Int, reserved : Int]
Event == [uuid : Uuid, trip : DO, type : EventType]

\* A transaction: what it does, how far it got, and what it has read.
Work == [op : {"idle", "approve", "cancel", "load", "deliver"},
         stage : {"reading", "filling", "writing"},
         order : DO \union {Null},
         seen : OrderStatus,
         uuid : Uuid \union {Null},
         todo : SUBSET Line,
         within : SUBSET Compartment,
         beyond : SUBSET Compartment]

Idle == [op |-> "idle", stage |-> "reading", order |-> Null, seen |-> "NONE",
         uuid |-> Null, todo |-> {}, within |-> {}, beyond |-> {}]

TypeOK ==
    /\ doStatus \in [DO -> OrderStatus]
    /\ items \in SUBSET Line
    /\ tank \in [Tank -> Row]
    /\ dirty \in [Tank -> Row]
    /\ holder \in [Tank -> Tx \union {Null}]
    /\ tripStatus \in [DO -> TripStatus]
    /\ photos \in SUBSET (DO \X PhotoKind)
    /\ reading \in [Reading -> ApprovalStatus]
    /\ variance \in [Compartment -> Variance]
    /\ delivery \in [Compartment -> DeliveryStatus]
    /\ events \in SUBSET Event
    /\ tx \in [Tx -> Work]

Init ==
    /\ doStatus = [d \in DO |-> "NONE"]
    /\ items = {}
    /\ tank = [t \in Tank |-> [current |-> StartVolume[t], reserved |-> 0]]
    /\ dirty = tank
    /\ holder = [t \in Tank |-> Null]
    /\ tripStatus = [d \in DO |-> "NONE"]
    /\ photos = {}
    /\ reading = [r \in Reading |-> "NONE"]
    /\ variance = [c \in Compartment |-> "null"]
    /\ delivery = [c \in Compartment |-> "PENDING"]
    /\ events = {}
    /\ tx = [x \in Tx |-> Idle]

-----------------------------------------------------------------------------
(* Reads and row locks. *)

Active(x) == tx[x].op # "idle"
Writing(x) == Active(x) /\ tx[x].stage = "writing"

ItemsOf(d) == {l \in items : LineOrder[l] = d}
LoadedOf(d) == {l \in Line : LineRole[l] = "loaded" /\ LineOrder[l] = d}
DeliveredOf(d) == {l \in Line : LineRole[l] = "delivered" /\ LineOrder[l] = d}
CompartmentsOf(d) == {c \in Compartment : CompartmentTrip[c] = d}

\* GetStorageTankByFacilityAndFuel and GetStationTankByFuel are :one queries
\* without ORDER BY: any matching row may come first.
Candidates(l) == {t \in Tank : TankPool[t] = LinePool[l]}

\* The delivery_orders row (and with it the trips row) is locked by the
\* transaction that has updated it.
OrderFree(d) == \A x \in Tx : Writing(x) => tx[x].order # d

TankFree(x, t) == holder[t] \in {Null, x}

Clamp(n) == IF n < 0 THEN 0 ELSE n

-----------------------------------------------------------------------------
(* Delivery orders outside a WorkflowService transaction: one statement     *)
(* each.                                                                    *)

CreateDeliveryOrder(d) ==
    /\ doStatus[d] = "NONE"
    /\ doStatus' = [doStatus EXCEPT ![d] = "DRAFT"]
    /\ UNCHANGED <<items, tankVars, tripVars, tx>>

\* The order is named in the request body and its status is not looked at.
CreateItem(l) ==
    /\ LineRole[l] = "item" /\ l \notin items
    /\ doStatus[LineOrder[l]] # "NONE"
    /\ items' = items \union {l}
    /\ UNCHANGED <<doStatus, tankVars, tripVars, tx>>

\* No code of the repository submits an order or creates its trip; the rows
\* the other operations read are written from outside.
SubmitForApproval(d) ==
    /\ doStatus[d] = "DRAFT" /\ OrderFree(d)
    /\ doStatus' = [doStatus EXCEPT ![d] = "PENDING_APPROVAL"]
    /\ UNCHANGED <<items, tankVars, tripVars, tx>>

AssignVehicleAndDriver(d) ==
    /\ doStatus[d] = "APPROVED" /\ OrderFree(d)
    /\ doStatus' = [doStatus EXCEPT ![d] = "ASSIGNED"]
    /\ UNCHANGED <<items, tankVars, tripVars, tx>>

\* trips.vehicle_id and driver_id are NOT NULL: the order has been assigned.
\* The reference to the order does not wait for an update of its status.
CreateTrip(d) ==
    /\ doStatus[d] = "ASSIGNED"
    /\ tripStatus[d] = "NONE"
    /\ tripStatus' = [tripStatus EXCEPT ![d] = "CREATED"]
    /\ UNCHANGED <<orderVars, tankVars, photos, reading, variance, delivery,
                   events, tx>>

-----------------------------------------------------------------------------
(* What the gates of RecordTripEvent read: photos, weight bridge readings    *)
(* and measured volumes.                                                     *)

UploadTripPhoto(d, batch) ==
    /\ tripStatus[d] # "NONE"
    /\ photos' = photos \union {<<d, k>> : k \in batch}
    /\ UNCHANGED <<orderVars, tankVars, tripStatus, reading, variance,
                   delivery, events, tx>>

\* approval_status defaults to PENDING, whatever the measurement method.
CreateWeightBridge(r) ==
    /\ reading[r] = "NONE" /\ tripStatus[ReadingTrip[r]] # "NONE"
    /\ reading' = [reading EXCEPT ![r] = "PENDING"]
    /\ UNCHANGED <<orderVars, tankVars, tripStatus, photos, variance,
                   delivery, events, tx>>

ApproveWeightBridge(r) ==
    /\ reading[r] \in {"PENDING", "ESCALATED"}
    /\ reading' = [reading EXCEPT ![r] = "APPROVED"]
    /\ UNCHANGED <<orderVars, tankVars, tripStatus, photos, variance,
                   delivery, events, tx>>

EscalateWeightBridgeReading(r) ==
    /\ reading[r] = "PENDING"
    /\ reading' = [reading EXCEPT ![r] = "ESCALATED"]
    /\ UNCHANGED <<orderVars, tankVars, tripStatus, photos, variance,
                   delivery, events, tx>>

\* Loaded and delivered volumes are recorded, and corrected, from outside.
MeasureCompartment(c, v) ==
    /\ tripStatus[CompartmentTrip[c]] # "NONE"
    /\ variance' = [variance EXCEPT ![c] = v]
    /\ UNCHANGED <<orderVars, tankVars, tripStatus, photos, reading,
                   delivery, events, tx>>

\* GetMandatoryPhotoCheckByTrip and the sealed photo of each compartment.
HasPhotos(d, kinds) == \A k \in kinds : <<d, k>> \in photos

LoadingPhotosPresent(d) ==
    /\ HasPhotos(d, {"TARE", "GROSS"} \union CompartmentsOf(d))
    /\ \E k \in CompartmentsOf(d) \union {"SEALED"} : <<d, k>> \in photos

DeliveryPhotosPresent(d) == HasPhotos(d, {"BEFORE", "PUMP", "AFTER"})

ReadingsCleared(d) ==
    \A r \in Reading : ReadingTrip[r] = d => reading[r] \notin {"PENDING", "ESCALATED"}

-----------------------------------------------------------------------------
(* The transactions, up to the point where the order row is locked.          *)

Begin(x, work) ==
    /\ ~Active(x)
    /\ tx' = [tx EXCEPT ![x] = work]
    /\ UNCHANGED <<orderVars, tankVars, tripVars>>

\* ApproveDeliveryOrder reads only immutable columns before its UPDATE, whose
\* WHERE clause checks the status; a failed check changes nothing.
ApproveDeliveryOrder(x, d) ==
    /\ doStatus[d] = "PENDING_APPROVAL" /\ OrderFree(d)
    /\ Begin(x, [Idle EXCEPT !.op = "approve", !.stage = "writing",
                             !.order = d, !.todo = ItemsOf(d)])

\* CancelDeliveryOrder decides what to release by the status it reads first...
CancelDeliveryOrder(x, d) ==
    /\ doStatus[d] # "NONE"
    /\ Begin(x, [Idle EXCEPT !.op = "cancel", !.order = d, !.seen = doStatus[d]])

\* ... and changes the order by the status it has when its row is locked.

\* Slip: an order on the road is taken for a cancellable one.
CancellableOnTheRoad(status) == status # "DELIVERED"

Cancellable(status) == status \notin {"IN_PROGRESS", "DELIVERED"}

\* Slip: an assigned order's reservation is forgotten.
CancelUpdateApprovedOnly(x) ==
    LET d == tx[x].order IN
    /\ tx[x].op = "cancel" /\ tx[x].stage = "reading"
    /\ OrderFree(d) /\ Cancellable(doStatus[d])
    /\ tx' = [tx EXCEPT ![x].stage = "writing",
                        ![x].todo = IF tx[x].seen = "APPROVED" THEN ItemsOf(d) ELSE {}]
    /\ UNCHANGED <<orderVars, tankVars, tripVars>>

CancelUpdate(x) ==
    LET d == tx[x].order IN
    /\ tx[x].op = "cancel" /\ tx[x].stage = "reading"
    /\ OrderFree(d) /\ Cancellable(doStatus[d])
    /\ tx' = [tx EXCEPT ![x].stage = "writing",
                        ![x].todo = IF tx[x].seen \in {"APPROVED", "ASSIGNED"}
                                    THEN ItemsOf(d) ELSE {}]
    /\ UNCHANGED <<orderVars, tankVars, tripVars>>

\* event_uuid is UNIQUE: an INSERT waits for an uncommitted row with the same
\* value and fails if that row commits.
\* Slip: look for the identifier among the recorded events, then insert.
UuidUnseen(u) == \A e \in events : e.uuid # u

UuidFree(u) ==
    /\ \A e \in events : e.uuid # u
    /\ \A x \in Tx : tx[x].uuid # u

\* RecordTripEvent inserts the event, then checks the gates of its type.
\* The trip's status is not one of them.
RecordLoadingCompleted(x, d, u) ==
    /\ tripStatus[d] # "NONE" /\ UuidFree(u)
    /\ LoadingPhotosPresent(d) /\ ReadingsCleared(d)
    /\ Begin(x, [Idle EXCEPT !.op = "load", !.order = d, !.uuid = u])

\* Slip: the delivery's photos are not asked for.
RecordDeliveryUnchecked(x, d, u) ==
    /\ tripStatus[d] # "NONE" /\ UuidFree(u)
    /\ Begin(x, [Idle EXCEPT !.op = "deliver", !.stage = "filling", !.order = d,
             !.uuid = u,
             !.todo = IF Destination[d] = "STATION" THEN DeliveredOf(d) ELSE {}])

\* A delivery at a station fills the station's tanks first...
RecordDeliveryCompleted(x, d, u) ==
    /\ tripStatus[d] # "NONE" /\ UuidFree(u)
    /\ DeliveryPhotosPresent(d)
    /\ Begin(x, [Idle EXCEPT !.op = "deliver", !.stage = "filling", !.order = d,
             !.uuid = u,
             !.todo = IF Destination[d] = "STATION" THEN DeliveredOf(d) ELSE {}])

\* ... then every compartment's variance is judged, before the trip's row is
\* locked.
JudgeCompartments(x) ==
    LET judged(v) == {c \in CompartmentsOf(tx[x].order) : variance[c] = v} IN
    /\ tx[x].stage = "filling" /\ tx[x].todo = {}
    /\ tx' = [tx EXCEPT ![x].stage = "reading",
                        ![x].within = judged("within"),
                        ![x].beyond = judged("beyond")]
    /\ UNCHANGED <<orderVars, tankVars, tripVars>>

RecordOtherEvent(d, u) ==
    /\ tripStatus[d] # "NONE" /\ UuidFree(u)
    /\ events' = events \union {[uuid |-> u, trip |-> d, type |-> "OTHER"]}
    /\ UNCHANGED <<orderVars, tankVars, tripStatus, photos, reading,
                   variance, delivery, tx>>

\* UpdateTripStatus and UpdateDOStatus look at no status.  A loading empties
\* the depot's tanks after them, a return trip fills the depot's.
UpdateStatuses(x) ==
    LET d == tx[x].order IN
    /\ tx[x].op \in {"load", "deliver"} /\ tx[x].stage = "reading"
    /\ OrderFree(d)
    /\ tx' = [tx EXCEPT ![x].stage = "writing",
                        ![x].todo = IF tx[x].op = "load" THEN LoadedOf(d)
                                    ELSE IF Destination[d] = "RETURN"
                                    THEN DeliveredOf(d) ELSE {}]
    /\ UNCHANGED <<orderVars, tankVars, tripVars>>

-----------------------------------------------------------------------------
(* One tank UPDATE per line: its WHERE clause, and the row it writes.        *)

WriteRow(x, l, t, row) ==
    /\ l \in tx[x].todo
    /\ t \in Candidates(l) /\ TankFree(x, t)
    /\ dirty' = [dirty EXCEPT ![t] = row]
    /\ holder' = [holder EXCEPT ![t] = x]
    /\ tx' = [tx EXCEPT ![x].todo = @ \ {l}]
    /\ UNCHANGED <<tank, orderVars, tripVars>>

\* Slip: what is reserved already is not left out.
CurrentVolume(t) == dirty[t].current

Available(t) == dirty[t].current - dirty[t].reserved

ReserveStorageTankVolume(x, l, t) ==
    /\ tx[x].op = "approve"
    /\ Available(t) >= LineVolume[l]
    /\ WriteRow(x, l, t, [dirty[t] EXCEPT !.reserved = @ + LineVolume[l]])

ReleaseStorageTankReservation(x, l, t) ==
    /\ tx[x].op = "cancel"
    /\ WriteRow(x, l, t, [dirty[t] EXCEPT !.reserved = Clamp(@ - LineVolume[l])])

\* Slip: the deduction's WHERE clause is lost.
DeductUnchecked(x, l, t) ==
    /\ tx[x].op = "load"
    /\ WriteRow(x, l, t, [current  |-> dirty[t].current - LineVolume[l],
                          reserved |-> Clamp(dirty[t].reserved - LineVolume[l])])

DeductStorageTankVolume(x, l, t) ==
    /\ tx[x].op = "load"
    /\ dirty[t].current >= LineVolume[l]
    /\ WriteRow(x, l, t, [current  |-> dirty[t].current - LineVolume[l],
                          reserved |-> Clamp(dirty[t].reserved - LineVolume[l])])

\* UpdateStationTankVolumeAfterDelivery at a station, CreditStorageTankVolume
\* on a return trip; both under the table's capacity CHECK.
FillTank(x, l, t) ==
    /\ tx[x].op = "deliver"
    /\ dirty[t].current + LineVolume[l] <= Capacity[t]
    /\ WriteRow(x, l, t, [dirty[t] EXCEPT !.current = @ + LineVolume[l]])

UpdateTank(x) ==
    \E l \in Line, t \in Tank :
        \/ ReserveStorageTankVolume(x, l, t)
        \/ ReleaseStorageTankReservation(x, l, t)
        \/ DeductStorageTankVolume(x, l, t)
        \/ FillTank(x, l, t)

-----------------------------------------------------------------------------
(* The end of a transaction (Store.ExecTx). *)

CommitTanks(x) ==
    /\ tank' = [t \in Tank |-> IF holder[t] = x THEN dirty[t] ELSE tank[t]]
    /\ holder' = [t \in Tank |-> IF holder[t] = x THEN Null ELSE holder[t]]
    /\ tx' = [tx EXCEPT ![x] = Idle]
    /\ UNCHANGED dirty

\* Slip: the trip's status is written to the order.
SetTripStatus(d, status) ==
    doStatus' = [doStatus EXCEPT
                    ![d] = IF status = "IN_PROGRESS" THEN "LOADED" ELSE status]

SetStatus(d, status) == doStatus' = [doStatus EXCEPT ![d] = status]

AppendEvent(x, type) ==
    events' = events \union {[uuid |-> tx[x].uuid, trip |-> tx[x].order, type |-> type]}

Finished(x, op) == tx[x].op = op /\ Writing(x) /\ tx[x].todo = {}

CommitApprove(x) ==
    /\ Finished(x, "approve") /\ CommitTanks(x)
    /\ SetStatus(tx[x].order, "APPROVED")
    /\ UNCHANGED <<items, tripVars>>

CommitCancel(x) ==
    /\ Finished(x, "cancel") /\ CommitTanks(x)
    /\ SetStatus(tx[x].order, "CANCELLED")
    /\ UNCHANGED <<items, tripVars>>

CommitLoading(x) ==
    LET d == tx[x].order IN
    /\ Finished(x, "load") /\ CommitTanks(x)
    /\ SetStatus(d, "IN_PROGRESS")
    /\ tripStatus' = [tripStatus EXCEPT ![d] = "LOADED"]
    /\ AppendEvent(x, "LOADING_COMPLETED")
    /\ UNCHANGED <<items, photos, reading, variance, delivery>>

\* Slip: a compartment that was delivered once is not judged again.
CommitDeliveryOnce(x) ==
    LET d == tx[x].order
        outcome == IF tx[x].beyond # {} THEN "DISPUTED" ELSE "DELIVERED" IN
    /\ Finished(x, "deliver") /\ CommitTanks(x)
    /\ SetStatus(d, outcome)
    /\ tripStatus' = [tripStatus EXCEPT ![d] = outcome]
    /\ delivery' = [c \in Compartment |->
                        IF delivery[c] = "DELIVERED" THEN delivery[c]
                        ELSE IF c \in tx[x].beyond THEN "DISPUTED"
                        ELSE IF c \in tx[x].within THEN "DELIVERED"
                        ELSE delivery[c]]
    /\ AppendEvent(x, "DELIVERY_COMPLETED")
    /\ UNCHANGED <<items, photos, reading, variance>>

\* applyDeliveryVarianceAndDisputes: a compartment without a variance is
\* skipped and keeps its status.
CommitDelivery(x) ==
    LET d == tx[x].order
        outcome == IF tx[x].beyond # {} THEN "DISPUTED" ELSE "DELIVERED" IN
    /\ Finished(x, "deliver") /\ CommitTanks(x)
    /\ SetStatus(d, outcome)
    /\ tripStatus' = [tripStatus EXCEPT ![d] = outcome]
    /\ delivery' = [c \in Compartment |->
                        IF c \in tx[x].beyond THEN "DISPUTED"
                        ELSE IF c \in tx[x].within THEN "DELIVERED"
                        ELSE delivery[c]]
    /\ AppendEvent(x, "DELIVERY_COMPLETED")
    /\ UNCHANGED <<items, photos, reading, variance>>

Commit(x) ==
    CommitApprove(x) \/ CommitCancel(x) \/ CommitLoading(x) \/ CommitDelivery(x)

\* Slip: the tank UPDATEs run on the pool instead of on the transaction.
RollbackKeepsTanks(x) ==
    /\ tank' = [t \in Tank |-> IF holder[t] = x THEN dirty[t] ELSE tank[t]]
    /\ holder' = [t \in Tank |-> IF holder[t] = x THEN Null ELSE holder[t]]
    /\ tx' = [tx EXCEPT ![x] = Idle]
    /\ UNCHANGED <<dirty, orderVars, tripVars>>

Rollback(x) ==
    /\ dirty' = [t \in Tank |-> IF holder[t] = x THEN tank[t] ELSE dirty[t]]
    /\ holder' = [t \in Tank |-> IF holder[t] = x THEN Null ELSE holder[t]]
    /\ tx' = [tx EXCEPT ![x] = Idle]
    /\ UNCHANGED <<tank, orderVars, tripVars>>

\* An UPDATE that returns no row, or violates a CHECK, is an error.
Refused(x, l, t) ==
    \/ tx[x].op = "approve" /\ Available(t) < LineVolume[l]
    \/ tx[x].op = "load" /\ dirty[t].current < LineVolume[l]
    \/ tx[x].op = "deliver" /\ dirty[t].current + LineVolume[l] > Capacity[t]

FailCancel(x) ==
    /\ tx[x].op = "cancel" /\ tx[x].stage = "reading"
    /\ OrderFree(tx[x].order) /\ ~Cancellable(doStatus[tx[x].order])
    /\ Rollback(x)

\* Slip: the error is returned without a rollback.
FailUpdateStaysOpen(x) ==
    /\ \E l \in tx[x].todo : \E t \in Candidates(l) : TankFree(x, t) /\ Refused(x, l, t)
    /\ UNCHANGED vars

FailUpdate(x) ==
    /\ \E l \in tx[x].todo :
           \/ Candidates(l) = {}
           \/ \E t \in Candidates(l) : TankFree(x, t) /\ Refused(x, l, t)
    /\ Rollback(x)

\* PostgreSQL aborts a transaction of a cycle of lock waits.
WaitsFor(x, y) ==
    /\ x # y
    /\ \/ /\ tx[x].stage = "reading" /\ Active(x)
          /\ Writing(y) /\ tx[y].order = tx[x].order
       \/ \E l \in tx[x].todo : \E t \in Candidates(l) : holder[t] = y

DeadlockAbort(x) ==
    /\ \E W \in SUBSET Tx : /\ x \in W
                            /\ \A y \in W : \E z \in W : WaitsFor(y, z)
    /\ Rollback(x)

\* The request context is cancelled or the process dies: the connection is
\* lost and the transaction with it.
Disconnect(x) == Active(x) /\ Rollback(x)

-----------------------------------------------------------------------------

OrderStep(d) ==
    \/ CreateDeliveryOrder(d) \/ SubmitForApproval(d)
    \/ AssignVehicleAndDriver(d) \/ CreateTrip(d)
    \/ \E batch \in PhotoBatch : UploadTripPhoto(d, batch)
    \/ \E u \in Uuid : RecordOtherEvent(d, u)

StartTx(x) ==
    \E d \in DO :
        \/ ApproveDeliveryOrder(x, d)
        \/ CancelDeliveryOrder(x, d)
        \/ \E u \in Uuid : RecordLoadingCompleted(x, d, u)
                           \/ RecordDeliveryCompleted(x, d, u)

\* The statements of a request already being served.
ContinueTx(x) ==
    \/ CancelUpdate(x) \/ JudgeCompartments(x) \/ UpdateStatuses(x)
    \/ UpdateTank(x) \/ Commit(x)
    \/ FailCancel(x) \/ FailUpdate(x) \/ DeadlockAbort(x)

Next ==
    \/ \E d \in DO : OrderStep(d)
    \/ \E l \in Line : CreateItem(l)
    \/ \E r \in Reading : \/ CreateWeightBridge(r) \/ ApproveWeightBridge(r)
                          \/ EscalateWeightBridgeReading(r)
    \/ \E c \in Compartment, v \in Variance : MeasureCompartment(c, v)
    \/ \E x \in Tx : StartTx(x) \/ ContinueTx(x) \/ Disconnect(x)

Spec == Init /\ [][Next]_vars

\* A request that has started is served: the Go runtime runs its goroutine,
\* and PostgreSQL grants a row lock to its waiters in turn.
FairSpec == Spec /\ \A x \in Tx : SF_vars(ContinueTx(x))

-----------------------------------------------------------------------------
(* Properties. *)

\* A tank never promises more than it holds, nor holds more than fits in it:
\* the guards of the tank UPDATEs keep this whatever the interleaving of
\* requests, rollbacks and tank choices.
NoOvercommit ==
    \A t \in Tank : /\ 0 <= tank[t].reserved
                    /\ tank[t].reserved <= tank[t].current
                    /\ tank[t].current <= Capacity[t]

\* A trip and its order tell the same story, although approvals, assignments,
\* cancellations and events write the two tables from concurrent requests: an
\* order with a loaded or delivered trip is in the matching status, and a
\* disputed one has at most been cancelled since.
TripMatchesOrder ==
    \A d \in DO :
        /\ tripStatus[d] = "LOADED" => doStatus[d] = "IN_PROGRESS"
        /\ tripStatus[d] = "DELIVERED" => doStatus[d] = "DELIVERED"
        /\ tripStatus[d] = "DISPUTED" => doStatus[d] \in {"DISPUTED", "CANCELLED"}
        /\ tripStatus[d] # "NONE" =>
               doStatus[d] \notin {"NONE", "DRAFT", "PENDING_APPROVAL", "APPROVED"}

\* A disputed trip points at the compartment that is in dispute, also when
\* the volumes were corrected between two delivery events.
DisputeNamesCompartment ==
    \A d \in DO : tripStatus[d] = "DISPUTED" =>
        \E c \in CompartmentsOf(d) : delivery[c] = "DISPUTED"

\* An event that moved fuel was recorded only with the mandatory photos of its
\* step uploaded; the check precedes the row locks, the commit follows them.
MovesHavePhotos ==
    \A e \in events :
        /\ e.type = "LOADING_COMPLETED" => LoadingPhotosPresent(e.trip)
        /\ e.type = "DELIVERY_COMPLETED" => DeliveryPhotosPresent(e.trip)

\* Resending an event never records it twice, even while the first copy is
\* still being processed.
OneEventPerUuid ==
    \A e, f \in events : e.uuid = f.uuid => e = f

\* Every request that starts comes to an end, whatever locks the others hold:
\* rows are locked in no global order, and the way out is the deadlock abort.
EveryRequestEnds == \A x \in Tx : Active(x) ~> ~Active(x)

=============================================================================
