----------------------- MODULE DeliveryWorkflowProofs -----------------------
(***************************************************************************)
(* The safety invariants of DeliveryWorkflow, proved for any number of     *)
(* orders, tanks and concurrent requests.  Each is strengthened by what a  *)
(* transaction in flight knows: what it has checked stays true until it    *)
(* commits, because it holds the row lock or because the fact is stable.   *)
(***************************************************************************)
EXTENDS DeliveryWorkflow, TLAPS

\* A request in flight names the order, and an event request its identifier.
RequestsNamed ==
    \A x \in Tx : /\ Active(x) => tx[x].order \in DO
                  /\ tx[x].op \in {"load", "deliver"} => tx[x].uuid \in Uuid
                  /\ tx[x].stage = "filling" => tx[x].op = "deliver"

Typed == TypeOK /\ RequestsNamed

Sound(t, row) == /\ 0 <= row.reserved
                 /\ row.reserved <= row.current
                 /\ row.current <= Capacity[t]

\* The lock holders' uncommitted rows are as sound as the committed ones.
TanksSound == \A t \in Tank : Sound(t, tank[t]) /\ Sound(t, dirty[t])

-----------------------------------------------------------------------------
(* Typing. *)

LEMMA InitTyped == Init => Typed
  BY ConstantTypes, NullIsNoValue
  DEF Init, Typed, TypeOK, RequestsNamed, Row, Work, Idle, Active, OrderStatus,
      TripStatus, ApprovalStatus, DeliveryStatus, Variance

\* Replacing one transaction by a well-formed one keeps all of them so.
LEMMA BeginTyped ==
  ASSUME Typed, NEW x \in Tx, NEW w \in Work, Begin(x, w),
         w.op # "idle" => w.order \in DO,
         w.op \in {"load", "deliver"} => w.uuid \in Uuid,
         w.stage = "filling" => w.op = "deliver"
  PROVE  Typed'
  BY DEF Begin, Typed, TypeOK, RequestsNamed, Active, orderVars, tankVars, tripVars

LEMMA RollbackTyped ==
  ASSUME Typed, NEW x \in Tx, Rollback(x)
  PROVE  Typed'
<1>1. Idle \in Work
  BY DEF Idle, Work, OrderStatus
<1>2. TypeOK'
  BY <1>1, NullIsNoValue DEF Rollback, Typed, TypeOK, orderVars, tripVars
<1>3. RequestsNamed'
  BY <1>1 DEF Rollback, Typed, TypeOK, RequestsNamed, Active, Idle
<1> QED
  BY <1>2, <1>3 DEF Typed

LEMMA CommitTanksTyped ==
  ASSUME Typed, NEW x \in Tx, CommitTanks(x)
  PROVE  /\ tank' \in [Tank -> Row] /\ dirty' \in [Tank -> Row]
         /\ holder' \in [Tank -> Tx \union {Null}]
         /\ tx' \in [Tx -> Work] /\ RequestsNamed'
<1>1. Idle \in Work
  BY DEF Idle, Work, OrderStatus
<1> QED
  BY <1>1 DEF CommitTanks, Typed, TypeOK, RequestsNamed, Active, Idle

LEMMA WriteRowTyped ==
  ASSUME Typed, NEW x \in Tx, NEW l \in Line, NEW t \in Tank, NEW row \in Row,
         WriteRow(x, l, t, row)
  PROVE  Typed'
<1>1. tx' = [tx EXCEPT ![x].todo = @ \ {l}]
  BY DEF WriteRow
<1>2. tx' \in [Tx -> Work]
  <2>1. tx \in [Tx -> Work]
    BY DEF Typed, TypeOK
  <2>2. [tx[x] EXCEPT !.todo = @ \ {l}] \in Work
    BY <2>1 DEF Work
  <2>3. tx' = [tx EXCEPT ![x] = [tx[x] EXCEPT !.todo = @ \ {l}]]
    BY <1>1, <2>1
  <2> QED
    BY <2>1, <2>2, <2>3
<1>3. RequestsNamed'
  BY <1>1, <1>2 DEF Typed, TypeOK, RequestsNamed, Active, Work
<1> QED
  BY <1>2, <1>3 DEF WriteRow, Typed, TypeOK, orderVars, tripVars

LEMMA StepTyped == Typed /\ [Next]_vars => Typed'
<1> SUFFICES ASSUME Typed, [Next]_vars PROVE Typed'
  OBVIOUS
<1>0. TypeOK /\ RequestsNamed
  BY DEF Typed
<1>1. ASSUME NEW d \in DO, OrderStep(d) PROVE Typed'
  <2>1. CASE CreateDeliveryOrder(d)
    BY <1>0, <2>1 DEF CreateDeliveryOrder, Typed, TypeOK, RequestsNamed, Active,
       OrderStatus, tankVars, tripVars
  <2>2. CASE SubmitForApproval(d)
    BY <1>0, <2>2 DEF SubmitForApproval, Typed, TypeOK, RequestsNamed, Active,
       OrderStatus, tankVars, tripVars
  <2>3. CASE AssignVehicleAndDriver(d)
    BY <1>0, <2>3 DEF AssignVehicleAndDriver, Typed, TypeOK, RequestsNamed, Active,
       OrderStatus, tankVars, tripVars
  <2>4. CASE CreateTrip(d)
    BY <1>0, <2>4 DEF CreateTrip, Typed, TypeOK, RequestsNamed, Active,
       TripStatus, tankVars, orderVars
  <2>5. ASSUME NEW batch \in PhotoBatch, UploadTripPhoto(d, batch) PROVE Typed'
    BY <1>0, <2>5, ConstantTypes DEF UploadTripPhoto, Typed, TypeOK, RequestsNamed,
       Active, tankVars, orderVars
  <2>6. ASSUME NEW u \in Uuid, RecordOtherEvent(d, u) PROVE Typed'
    BY <1>0, <2>6 DEF RecordOtherEvent, Typed, TypeOK, RequestsNamed, Active,
       Event, EventType, tankVars, orderVars
  <2> QED
    BY <1>1, <2>1, <2>2, <2>3, <2>4, <2>5, <2>6 DEF OrderStep
<1>2. ASSUME NEW l \in Line, CreateItem(l) PROVE Typed'
  BY <1>0, <1>2 DEF CreateItem, Typed, TypeOK, RequestsNamed, Active, tankVars, tripVars
<1>3. ASSUME NEW r \in Reading,
             \/ CreateWeightBridge(r) \/ ApproveWeightBridge(r)
             \/ EscalateWeightBridgeReading(r)
      PROVE  Typed'
  BY <1>0, <1>3 DEF CreateWeightBridge, ApproveWeightBridge, EscalateWeightBridgeReading,
     Typed, TypeOK, RequestsNamed, Active, ApprovalStatus, tankVars, orderVars
<1>4. ASSUME NEW c \in Compartment, NEW v \in Variance, MeasureCompartment(c, v)
      PROVE  Typed'
  BY <1>0, <1>4 DEF MeasureCompartment, Typed, TypeOK, RequestsNamed, Active,
     tankVars, orderVars
<1>5. ASSUME NEW x \in Tx, StartTx(x) PROVE Typed'
  <2> PICK d \in DO :
        \/ ApproveDeliveryOrder(x, d) \/ CancelDeliveryOrder(x, d)
        \/ \E u \in Uuid : RecordLoadingCompleted(x, d, u) \/ RecordDeliveryCompleted(x, d, u)
    BY <1>5 DEF StartTx
  <2>1. CASE ApproveDeliveryOrder(x, d)
    <3> DEFINE w == [Idle EXCEPT !.op = "approve", !.stage = "writing",
                                 !.order = d, !.todo = ItemsOf(d)]
    <3>1. w \in Work /\ w.op = "approve" /\ w.order = d /\ w.stage = "writing"
      BY <1>0 DEF Idle, Work, OrderStatus, ItemsOf, TypeOK
    <3>2. Begin(x, w)
      BY <2>1 DEF ApproveDeliveryOrder
    <3> QED
      BY <3>1, <3>2, BeginTyped
  <2>2. CASE CancelDeliveryOrder(x, d)
    <3> DEFINE w == [Idle EXCEPT !.op = "cancel", !.order = d, !.seen = doStatus[d]]
    <3>1. w \in Work /\ w.op = "cancel" /\ w.order = d /\ w.stage = "reading"
      BY <1>0 DEF Idle, Work, OrderStatus, TypeOK
    <3>2. Begin(x, w)
      BY <2>2 DEF CancelDeliveryOrder
    <3> QED
      BY <3>1, <3>2, BeginTyped
  <2>3. ASSUME NEW u \in Uuid, RecordLoadingCompleted(x, d, u) PROVE Typed'
    <3> DEFINE w == [Idle EXCEPT !.op = "load", !.order = d, !.uuid = u]
    <3>1. w \in Work /\ w.uuid = u /\ w.order = d /\ w.stage = "reading"
      BY DEF Idle, Work, OrderStatus
    <3>2. Begin(x, w)
      BY <2>3 DEF RecordLoadingCompleted
    <3> QED
      BY <3>1, <3>2, BeginTyped
  <2>4. ASSUME NEW u \in Uuid, RecordDeliveryCompleted(x, d, u) PROVE Typed'
    <3> DEFINE w == [Idle EXCEPT !.op = "deliver", !.stage = "filling", !.order = d,
                       !.uuid = u,
                       !.todo = IF Destination[d] = "STATION" THEN DeliveredOf(d) ELSE {}]
    <3>1. w \in Work /\ w.op = "deliver" /\ w.uuid = u /\ w.order = d
      BY DEF Idle, Work, OrderStatus, DeliveredOf
    <3>2. Begin(x, w)
      BY <2>4 DEF RecordDeliveryCompleted
    <3> QED
      BY <3>1, <3>2, BeginTyped
  <2> QED
    BY <2>1, <2>2, <2>3, <2>4
<1>6. ASSUME NEW x \in Tx, CancelUpdate(x) PROVE Typed'
  <2> DEFINE todo == IF tx[x].seen \in {"APPROVED", "ASSIGNED"}
                     THEN ItemsOf(tx[x].order) ELSE {}
             w == [tx[x] EXCEPT !.stage = "writing", !.todo = todo]
  <2>1. tx' = [tx EXCEPT ![x] = w]
    BY <1>0, <1>6 DEF CancelUpdate, TypeOK, Work
  <2>2. w \in Work /\ w.op = tx[x].op /\ w.order = tx[x].order /\ w.uuid = tx[x].uuid
    BY <1>0 DEF TypeOK, Work, ItemsOf
  <2>3. w.stage = "writing"
    BY <1>0 DEF TypeOK, Work
  <2> HIDE DEF w
  <2>4. RequestsNamed' /\ tx' \in [Tx -> Work]
    BY <1>0, <2>1, <2>2, <2>3 DEF RequestsNamed, Active, TypeOK
  <2> QED
    BY <1>0, <1>6, <2>4 DEF CancelUpdate, Typed, TypeOK, orderVars, tankVars, tripVars
<1>7. ASSUME NEW x \in Tx, JudgeCompartments(x) PROVE Typed'
  <2> DEFINE judged(v) == {c \in CompartmentsOf(tx[x].order) : variance[c] = v}
             w == [tx[x] EXCEPT !.stage = "reading", !.within = judged("within"),
                                !.beyond = judged("beyond")]
  <2>1. tx' = [tx EXCEPT ![x] = w]
    BY <1>0, <1>7 DEF JudgeCompartments, TypeOK, Work
  <2>2. w \in Work /\ w.op = tx[x].op /\ w.order = tx[x].order /\ w.uuid = tx[x].uuid
    BY <1>0 DEF TypeOK, Work, CompartmentsOf
  <2>3. w.stage = "reading"
    BY <1>0 DEF TypeOK, Work
  <2> HIDE DEF w
  <2>4. RequestsNamed' /\ tx' \in [Tx -> Work]
    BY <1>0, <2>1, <2>2, <2>3 DEF RequestsNamed, Active, TypeOK
  <2> QED
    BY <1>0, <1>7, <2>4 DEF JudgeCompartments, Typed, TypeOK, orderVars, tankVars, tripVars
<1>8. ASSUME NEW x \in Tx, UpdateStatuses(x) PROVE Typed'
  <2> DEFINE d == tx[x].order
             todo == IF tx[x].op = "load" THEN LoadedOf(d)
                     ELSE IF Destination[d] = "RETURN" THEN DeliveredOf(d) ELSE {}
             w == [tx[x] EXCEPT !.stage = "writing", !.todo = todo]
  <2>1. tx' = [tx EXCEPT ![x] = w]
    BY <1>0, <1>8 DEF UpdateStatuses, TypeOK, Work
  <2>2. w \in Work /\ w.op = tx[x].op /\ w.order = tx[x].order /\ w.uuid = tx[x].uuid
    BY <1>0 DEF TypeOK, Work, LoadedOf, DeliveredOf
  <2>3. w.stage = "writing"
    BY <1>0 DEF TypeOK, Work
  <2> HIDE DEF w
  <2>4. RequestsNamed' /\ tx' \in [Tx -> Work]
    BY <1>0, <2>1, <2>2, <2>3 DEF RequestsNamed, Active, TypeOK
  <2> QED
    BY <1>0, <1>8, <2>4 DEF UpdateStatuses, Typed, TypeOK, orderVars, tankVars, tripVars
<1>9. ASSUME NEW x \in Tx, UpdateTank(x) PROVE Typed'
  <2> PICK l \in Line, t \in Tank :
        \/ ReserveStorageTankVolume(x, l, t) \/ ReleaseStorageTankReservation(x, l, t)
        \/ DeductStorageTankVolume(x, l, t) \/ FillTank(x, l, t)
    BY <1>9 DEF UpdateTank
  <2>1. dirty[t] \in Row /\ LineVolume[l] \in Nat
    BY <1>0, ConstantTypes DEF TypeOK
  <2>2. PICK row \in Row : WriteRow(x, l, t, row)
    BY <2>1 DEF ReserveStorageTankVolume, ReleaseStorageTankReservation,
       DeductStorageTankVolume, FillTank, Clamp, Row
  <2> QED
    BY <2>2, WriteRowTyped
<1>10. ASSUME NEW x \in Tx, CommitApprove(x) \/ CommitCancel(x) PROVE Typed'
  <2>1. CommitTanks(x) /\ doStatus' \in [DO -> OrderStatus]
    BY <1>0, <1>10 DEF CommitApprove, CommitCancel, SetStatus, TypeOK, OrderStatus
  <2> QED
    BY <1>0, <1>10, <2>1, CommitTanksTyped
    DEF CommitApprove, CommitCancel, Typed, TypeOK, tripVars
<1>11. ASSUME NEW x \in Tx, CommitLoading(x) PROVE Typed'
  <2>1. tx[x].uuid \in Uuid /\ tx[x].order \in DO
    BY <1>0, <1>11 DEF CommitLoading, Finished, Writing, RequestsNamed
  <2>2. events' \in SUBSET Event
    BY <1>0, <1>11, <2>1 DEF CommitLoading, AppendEvent, Event, EventType, TypeOK
  <2>3. doStatus' \in [DO -> OrderStatus] /\ tripStatus' \in [DO -> TripStatus]
    BY <1>0, <1>11, <2>1 DEF CommitLoading, SetStatus, TypeOK, OrderStatus, TripStatus
  <2>4. CommitTanks(x)
    BY <1>11 DEF CommitLoading
  <2> QED
    BY <1>0, <1>11, <2>2, <2>3, <2>4, CommitTanksTyped DEF CommitLoading, Typed, TypeOK
<1>12. ASSUME NEW x \in Tx, CommitDelivery(x) PROVE Typed'
  <2>1. tx[x].uuid \in Uuid /\ tx[x].order \in DO
    BY <1>0, <1>12 DEF CommitDelivery, Finished, Writing, RequestsNamed
  <2>2. events' \in SUBSET Event
    BY <1>0, <1>12, <2>1 DEF CommitDelivery, AppendEvent, Event, EventType, TypeOK
  <2>3. doStatus' \in [DO -> OrderStatus] /\ tripStatus' \in [DO -> TripStatus]
    BY <1>0, <1>12, <2>1 DEF CommitDelivery, SetStatus, TypeOK, OrderStatus, TripStatus
  <2>4. delivery' \in [Compartment -> DeliveryStatus]
    BY <1>0, <1>12 DEF CommitDelivery, TypeOK, DeliveryStatus
  <2>5. CommitTanks(x)
    BY <1>12 DEF CommitDelivery
  <2> QED
    BY <1>0, <1>12, <2>2, <2>3, <2>4, <2>5, CommitTanksTyped
    DEF CommitDelivery, Typed, TypeOK
<1>13. ASSUME NEW x \in Tx, FailCancel(x) \/ FailUpdate(x) \/ DeadlockAbort(x) \/ Disconnect(x)
       PROVE  Typed'
  <2>1. Rollback(x)
    BY <1>13 DEF FailCancel, FailUpdate, DeadlockAbort, Disconnect
  <2> QED
    BY <2>1, RollbackTyped
<1>14. CASE UNCHANGED vars
  BY <1>0, <1>14 DEF vars, orderVars, tankVars, tripVars, Typed, TypeOK, RequestsNamed, Active
<1> QED
  BY <1>1, <1>2, <1>3, <1>4, <1>5, <1>6, <1>7, <1>8, <1>9, <1>10, <1>11, <1>12, <1>13, <1>14
  DEF Next, ContinueTx, Commit

\* Every variable, and every transaction in flight, has its type: orders,
\* trips and readings are in states the code's enumerations name.
THEOREM Typing == Spec => []TypeOK
<1>1. Spec => []Typed
  BY InitTyped, StepTyped, PTL DEF Spec
<1>2. Typed => TypeOK
  BY DEF Typed
<1> QED
  BY <1>1, <1>2, PTL

-----------------------------------------------------------------------------
(* No tank is overcommitted. *)

\* Writing one tank row leaves the others as they were.
LEMMA WriteRowSound ==
  ASSUME Typed, TanksSound, NEW x \in Tx, NEW l \in Line, NEW t \in Tank,
         NEW row \in Row, Sound(t, row), WriteRow(x, l, t, row)
  PROVE  TanksSound'
  BY DEF WriteRow, Typed, TypeOK, TanksSound, Sound

LEMMA UpdateTankSound ==
  ASSUME Typed, TanksSound, NEW x \in Tx, UpdateTank(x)
  PROVE  TanksSound'
<1> PICK l \in Line, t \in Tank :
      \/ ReserveStorageTankVolume(x, l, t) \/ ReleaseStorageTankReservation(x, l, t)
      \/ DeductStorageTankVolume(x, l, t) \/ FillTank(x, l, t)
  BY DEF UpdateTank
<1>1. /\ dirty[t] \in Row /\ LineVolume[l] \in Nat /\ Capacity[t] \in Nat
      /\ Sound(t, dirty[t])
  BY ConstantTypes DEF Typed, TypeOK, TanksSound
<1>2. CASE ReserveStorageTankVolume(x, l, t)
  <2> DEFINE row == [dirty[t] EXCEPT !.reserved = @ + LineVolume[l]]
  <2>1. row \in Row /\ Sound(t, row)
    BY <1>1, <1>2 DEF Row, Sound, ReserveStorageTankVolume, Available
  <2>2. WriteRow(x, l, t, row)
    BY <1>2 DEF ReserveStorageTankVolume
  <2> QED
    BY <2>1, <2>2, WriteRowSound
<1>3. CASE ReleaseStorageTankReservation(x, l, t)
  <2> DEFINE row == [dirty[t] EXCEPT !.reserved = Clamp(@ - LineVolume[l])]
  <2>1. row \in Row /\ Sound(t, row)
    BY <1>1 DEF Row, Sound, Clamp
  <2>2. WriteRow(x, l, t, row)
    BY <1>3 DEF ReleaseStorageTankReservation
  <2> QED
    BY <2>1, <2>2, WriteRowSound
<1>4. CASE DeductStorageTankVolume(x, l, t)
  <2> DEFINE row == [current  |-> dirty[t].current - LineVolume[l],
                     reserved |-> Clamp(dirty[t].reserved - LineVolume[l])]
  <2>1. row \in Row /\ Sound(t, row)
    BY <1>1, <1>4 DEF Row, Sound, Clamp, DeductStorageTankVolume
  <2>2. WriteRow(x, l, t, row)
    BY <1>4 DEF DeductStorageTankVolume
  <2> QED
    BY <2>1, <2>2, WriteRowSound
<1>5. CASE FillTank(x, l, t)
  <2> DEFINE row == [dirty[t] EXCEPT !.current = @ + LineVolume[l]]
  <2>1. row \in Row /\ Sound(t, row)
    BY <1>1, <1>5 DEF Row, Sound, FillTank
  <2>2. WriteRow(x, l, t, row)
    BY <1>5 DEF FillTank
  <2> QED
    BY <2>1, <2>2, WriteRowSound
<1> QED
  BY <1>2, <1>3, <1>4, <1>5

LEMMA StepSound == Typed /\ TanksSound /\ [Next]_vars => TanksSound'
<1> SUFFICES ASSUME Typed, TanksSound, [Next]_vars PROVE TanksSound'
  OBVIOUS
<1>1. CASE UNCHANGED tankVars
  BY <1>1 DEF tankVars, TanksSound, Sound
<1>2. ASSUME NEW x \in Tx, UpdateTank(x) PROVE TanksSound'
  BY <1>2, UpdateTankSound
<1>3. ASSUME NEW x \in Tx, CommitTanks(x) PROVE TanksSound'
  BY <1>3 DEF CommitTanks, Typed, TypeOK, TanksSound, Sound
<1>4. ASSUME NEW x \in Tx, Rollback(x) PROVE TanksSound'
  BY <1>4 DEF Rollback, Typed, TypeOK, TanksSound, Sound
<1>5. ASSUME NEW x \in Tx, StartTx(x) PROVE UNCHANGED tankVars
  BY <1>5 DEF StartTx, ApproveDeliveryOrder, CancelDeliveryOrder,
     RecordLoadingCompleted, RecordDeliveryCompleted, Begin
<1>6. ASSUME NEW x \in Tx, ContinueTx(x) \/ Disconnect(x)
      PROVE  UNCHANGED tankVars \/ UpdateTank(x) \/ CommitTanks(x) \/ Rollback(x)
  BY <1>6 DEF ContinueTx, CancelUpdate, JudgeCompartments, UpdateStatuses, Commit,
     CommitApprove, CommitCancel, CommitLoading, CommitDelivery, FailCancel,
     FailUpdate, DeadlockAbort, Disconnect
<1>7. ASSUME NEW d \in DO, OrderStep(d) PROVE UNCHANGED tankVars
  BY <1>7 DEF OrderStep, CreateDeliveryOrder, SubmitForApproval, AssignVehicleAndDriver,
     CreateTrip, UploadTripPhoto, RecordOtherEvent
<1>8. ASSUME \/ \E l \in Line : CreateItem(l)
             \/ \E r \in Reading : \/ CreateWeightBridge(r) \/ ApproveWeightBridge(r)
                                   \/ EscalateWeightBridgeReading(r)
             \/ \E c \in Compartment, v \in Variance : MeasureCompartment(c, v)
             \/ UNCHANGED vars
      PROVE  UNCHANGED tankVars
  BY <1>8 DEF CreateItem, CreateWeightBridge, ApproveWeightBridge,
     EscalateWeightBridgeReading, MeasureCompartment, vars
<1> QED
  BY <1>1, <1>2, <1>3, <1>4, <1>5, <1>6, <1>7, <1>8 DEF Next

\* No interleaving of requests, no rollback and no choice of tank makes a tank
\* promise more than it holds or hold more than fits: whatever a lock holder
\* has written is already sound, so a commit can publish it at any moment.
THEOREM StockNeverOvercommitted == Spec => []NoOvercommit
<1>1. Init => TanksSound
  BY ConstantTypes, StartWithinCapacity DEF Init, TanksSound, Sound
<1>2. TanksSound => NoOvercommit
  BY DEF TanksSound, Sound, NoOvercommit
<1> QED
  BY <1>1, <1>2, InitTyped, StepTyped, StepSound, PTL DEF Spec

-----------------------------------------------------------------------------
(* What the steps of a request leave alone. *)

\* Writing a tank row only shortens the writer's list of lines.
LEMMA UpdateTankKeeps ==
  ASSUME Typed, NEW x \in Tx, UpdateTank(x)
  PROVE  /\ UNCHANGED <<orderVars, tripVars>>
         /\ \A y \in Tx : /\ tx'[y].op = tx[y].op /\ tx'[y].stage = tx[y].stage
                          /\ tx'[y].order = tx[y].order /\ tx'[y].uuid = tx[y].uuid
                          /\ tx'[y].within = tx[y].within
                          /\ tx'[y].beyond = tx[y].beyond
<1>1. PICK l \in Line : /\ tx' = [tx EXCEPT ![x].todo = @ \ {l}]
                        /\ UNCHANGED <<orderVars, tripVars>>
  BY DEF UpdateTank, ReserveStorageTankVolume, ReleaseStorageTankReservation,
     DeductStorageTankVolume, FillTank, WriteRow
<1> QED
  BY <1>1 DEF Typed, TypeOK, Work

\* CancelUpdate and UpdateStatuses lock the order; its request stays the same.
LEMMA LockKeeps ==
  ASSUME Typed, NEW x \in Tx, CancelUpdate(x) \/ UpdateStatuses(x)
  PROVE  /\ UNCHANGED <<orderVars, tripVars>>
         /\ OrderFree(tx[x].order) /\ tx'[x].stage = "writing"
         /\ tx[x].op # "idle"
         /\ \A y \in Tx : /\ tx'[y].op = tx[y].op
                          /\ tx'[y].order = tx[y].order /\ tx'[y].uuid = tx[y].uuid
                          /\ tx'[y].within = tx[y].within
                          /\ tx'[y].beyond = tx[y].beyond
                          /\ y # x => tx'[y] = tx[y]
  BY DEF CancelUpdate, UpdateStatuses, Typed, TypeOK, Work

LEMMA JudgeKeeps ==
  ASSUME Typed, NEW x \in Tx, JudgeCompartments(x)
  PROVE  /\ UNCHANGED <<orderVars, tripVars>>
         /\ tx'[x].stage = "reading"
         /\ tx'[x].within \subseteq CompartmentsOf(tx[x].order)
         /\ tx'[x].beyond \subseteq CompartmentsOf(tx[x].order)
         /\ \A y \in Tx : /\ tx'[y].op = tx[y].op
                          /\ tx'[y].order = tx[y].order /\ tx'[y].uuid = tx[y].uuid
                          /\ y # x => tx'[y] = tx[y]
  BY DEF JudgeCompartments, Typed, TypeOK, Work

\* However a transaction ends, it is idle and the others are untouched.
LEMMA EndKeeps ==
  ASSUME Typed, NEW x \in Tx, CommitTanks(x) \/ Rollback(x)
  PROVE  /\ tx'[x] = Idle
         /\ \A y \in Tx \ {x} : tx'[y] = tx[y]
  BY DEF CommitTanks, Rollback, Typed, TypeOK

\* What a request has checked by the time it begins.
LEMMA StartKeeps ==
  ASSUME Typed, NEW x \in Tx, StartTx(x)
  PROVE  /\ UNCHANGED <<orderVars, tankVars, tripVars>>
         /\ \A y \in Tx \ {x} : tx'[y] = tx[y]
         /\ tx'[x].order \in DO /\ tx'[x].within = {} /\ tx'[x].beyond = {}
         /\ tx'[x].stage = "writing" =>
                /\ tx'[x].op = "approve" /\ OrderFree(tx'[x].order)
                /\ doStatus[tx'[x].order] = "PENDING_APPROVAL"
         /\ tx'[x].uuid # Null => tx'[x].uuid \in Uuid /\ UuidFree(tx'[x].uuid)
         /\ tx'[x].op = "load" => LoadingPhotosPresent(tx'[x].order)
         /\ tx'[x].op = "deliver" => DeliveryPhotosPresent(tx'[x].order)
<1> USE DEF Idle
<1> PICK d \in DO :
      \/ ApproveDeliveryOrder(x, d) \/ CancelDeliveryOrder(x, d)
      \/ \E u \in Uuid : RecordLoadingCompleted(x, d, u) \/ RecordDeliveryCompleted(x, d, u)
  BY DEF StartTx
<1>1. ASSUME NEW w, Begin(x, w)
      PROVE  /\ UNCHANGED <<orderVars, tankVars, tripVars>>
             /\ tx'[x] = w /\ \A y \in Tx \ {x} : tx'[y] = tx[y]
  BY <1>1 DEF Begin, Typed, TypeOK
<1>2. CASE ApproveDeliveryOrder(x, d)
  <2> DEFINE w == [Idle EXCEPT !.op = "approve", !.stage = "writing",
                               !.order = d, !.todo = ItemsOf(d)]
  <2>1. /\ w.order = d /\ w.within = {} /\ w.beyond = {} /\ w.op = "approve"
        /\ w.uuid = Null
    OBVIOUS
  <2>2. Begin(x, w) /\ OrderFree(d) /\ doStatus[d] = "PENDING_APPROVAL"
    BY <1>2 DEF ApproveDeliveryOrder
  <2> HIDE DEF w
  <2> QED
    BY <1>1, <2>1, <2>2
<1>3. CASE CancelDeliveryOrder(x, d)
  <2> DEFINE w == [Idle EXCEPT !.op = "cancel", !.order = d, !.seen = doStatus[d]]
  <2>1. /\ w.order = d /\ w.within = {} /\ w.beyond = {} /\ w.op = "cancel"
        /\ w.uuid = Null /\ w.stage = "reading"
    OBVIOUS
  <2>2. Begin(x, w)
    BY <1>3 DEF CancelDeliveryOrder
  <2> HIDE DEF w
  <2> QED
    BY <1>1, <2>1, <2>2
<1>4. CASE \E u \in Uuid : RecordLoadingCompleted(x, d, u)
  <2> PICK u \in Uuid : RecordLoadingCompleted(x, d, u)
    BY <1>4
  <2> DEFINE w == [Idle EXCEPT !.op = "load", !.order = d, !.uuid = u]
  <2>1. /\ w.order = d /\ w.within = {} /\ w.beyond = {} /\ w.op = "load"
        /\ w.uuid = u /\ w.stage = "reading"
    OBVIOUS
  <2>2. Begin(x, w) /\ UuidFree(u) /\ LoadingPhotosPresent(d)
    BY DEF RecordLoadingCompleted
  <2> HIDE DEF w
  <2> QED
    BY <1>1, <2>1, <2>2
<1>5. CASE \E u \in Uuid : RecordDeliveryCompleted(x, d, u)
  <2> PICK u \in Uuid : RecordDeliveryCompleted(x, d, u)
    BY <1>5
  <2> DEFINE w == [Idle EXCEPT !.op = "deliver", !.stage = "filling", !.order = d,
                     !.uuid = u,
                     !.todo = IF Destination[d] = "STATION" THEN DeliveredOf(d) ELSE {}]
  <2>1. /\ w.order = d /\ w.within = {} /\ w.beyond = {} /\ w.op = "deliver"
        /\ w.uuid = u /\ w.stage = "filling"
    OBVIOUS
  <2>2. Begin(x, w) /\ UuidFree(u) /\ DeliveryPhotosPresent(d)
    BY DEF RecordDeliveryCompleted
  <2> HIDE DEF w
  <2> QED
    BY <1>1, <2>1, <2>2
<1> QED
  BY <1>2, <1>3, <1>4, <1>5

-----------------------------------------------------------------------------
(* Trips and orders agree. *)

\* What the holder of an order's row lock relies on: nobody else holds it, and
\* the status its UPDATE checked is still there.
OrderLocked ==
    \A x \in Tx : Writing(x) =>
        /\ tx[x].op = "approve" => doStatus[tx[x].order] = "PENDING_APPROVAL"
        /\ tx[x].op = "cancel" => Cancellable(doStatus[tx[x].order])
        /\ \A y \in Tx : Writing(y) /\ tx[y].order = tx[x].order => y = x

OrdersAgree == TripMatchesOrder /\ OrderLocked

LEMMA OrderStepAgrees ==
  ASSUME Typed, OrdersAgree, NEW d \in DO, OrderStep(d)
  PROVE  OrdersAgree'
<1> USE DEF Typed, TypeOK, OrdersAgree
<1>1. CASE CreateDeliveryOrder(d)
  BY <1>1 DEF CreateDeliveryOrder, TripMatchesOrder, OrderLocked, Writing, Active,
     Cancellable, RequestsNamed, tripVars
<1>2. CASE SubmitForApproval(d)
  BY <1>2 DEF SubmitForApproval, TripMatchesOrder, OrderLocked, OrderFree, Writing,
     Active, RequestsNamed, tripVars
<1>3. CASE AssignVehicleAndDriver(d)
  BY <1>3 DEF AssignVehicleAndDriver, TripMatchesOrder, OrderLocked, OrderFree, Writing,
     Active, RequestsNamed, tripVars
<1>4. CASE CreateTrip(d)
  BY <1>4 DEF CreateTrip, TripMatchesOrder, OrderLocked, Writing, Active, orderVars
<1>5. CASE UNCHANGED <<doStatus, tripStatus, tx>>
  BY <1>5 DEF TripMatchesOrder, OrderLocked, Writing, Active
<1> QED
  BY <1>1, <1>2, <1>3, <1>4, <1>5 DEF OrderStep, UploadTripPhoto, RecordOtherEvent, orderVars

LEMMA StartAgrees ==
  ASSUME Typed, OrdersAgree, NEW x \in Tx, StartTx(x)
  PROVE  OrdersAgree'
<1>1. UNCHANGED <<doStatus, tripStatus>>
  BY StartKeeps DEF orderVars, tripVars
<1>2. \A y \in Tx \ {x} : Writing(y)' => Writing(y) /\ tx'[y] = tx[y]
  BY StartKeeps DEF Writing, Active
<1>3. Writing(x)' => /\ tx'[x].op = "approve" /\ OrderFree(tx'[x].order)
                     /\ doStatus[tx'[x].order] = "PENDING_APPROVAL"
  BY StartKeeps DEF Writing
<1> QED
  BY <1>1, <1>2, <1>3 DEF OrdersAgree, TripMatchesOrder, OrderLocked, OrderFree, Cancellable

LEMMA CommitAgrees ==
  ASSUME Typed, OrdersAgree, NEW x \in Tx, Commit(x)
  PROVE  OrdersAgree'
<1> DEFINE d == tx[x].order
<1>1. /\ CommitTanks(x) /\ Writing(x) /\ d \in DO
      /\ \A y \in Tx : Writing(y) /\ y # x => tx[y].order # d
  BY DEF Commit, CommitApprove, CommitCancel, CommitLoading, CommitDelivery, Finished,
     Writing, Typed, RequestsNamed, OrdersAgree, OrderLocked
<1>2. \A e \in DO \ {d} : doStatus'[e] = doStatus[e] /\ tripStatus'[e] = tripStatus[e]
  BY <1>1 DEF Commit, CommitApprove, CommitCancel, CommitLoading, CommitDelivery,
     SetStatus, Typed, TypeOK, tripVars
<1>3. OrderLocked'
  <2>1. \A y \in Tx : Writing(y)' => y # x /\ Writing(y) /\ tx'[y] = tx[y]
    BY <1>1, EndKeeps DEF Writing, Active, Idle
  <2>2. \A y \in Tx : Writing(y)' => tx[y].order \in DO \ {d}
    BY <1>1, <2>1 DEF Typed, RequestsNamed, Writing
  <2> QED
    BY <1>2, <2>1, <2>2 DEF OrdersAgree, OrderLocked, Cancellable
<1>4. TripMatchesOrder'
  <2> USE DEF SetStatus, Typed, TypeOK, OrdersAgree, TripMatchesOrder
  <2>1. CASE CommitApprove(x)
    <3>1. doStatus[d] = "PENDING_APPROVAL"
      BY <1>1, <2>1 DEF CommitApprove, Finished, OrderLocked
    <3> QED
      BY <1>1, <2>1, <3>1 DEF CommitApprove, tripVars
  <2>2. CASE CommitCancel(x)
    <3>1. Cancellable(doStatus[d])
      BY <1>1, <2>2 DEF CommitCancel, Finished, OrderLocked
    <3> QED
      BY <1>1, <2>2, <3>1 DEF CommitCancel, Cancellable, tripVars
  <2>3. CASE CommitLoading(x)
    BY <1>1, <2>3 DEF CommitLoading
  <2>4. CASE CommitDelivery(x)
    BY <1>1, <2>4 DEF CommitDelivery
  <2> QED
    BY <2>1, <2>2, <2>3, <2>4 DEF Commit
<1> QED
  BY <1>3, <1>4 DEF OrdersAgree

LEMMA StepAgrees == Typed /\ OrdersAgree /\ [Next]_vars => OrdersAgree'
<1> SUFFICES ASSUME Typed, OrdersAgree, [Next]_vars PROVE OrdersAgree'
  OBVIOUS
<1>1. ASSUME NEW x \in Tx, UpdateTank(x) PROVE OrdersAgree'
  BY <1>1, UpdateTankKeeps DEF OrdersAgree, TripMatchesOrder, OrderLocked, Writing, Active,
     orderVars, tripVars
<1>2. ASSUME NEW x \in Tx, CancelUpdate(x) \/ UpdateStatuses(x) PROVE OrdersAgree'
  <2>1. tx[x].op = "cancel" => Cancellable(doStatus[tx[x].order])
    BY <1>2 DEF CancelUpdate, UpdateStatuses
  <2>2. UNCHANGED <<doStatus, tripStatus>>
    BY <1>2, LockKeeps DEF orderVars, tripVars
  <2>3. tx[x].op # "approve"
    BY <1>2 DEF CancelUpdate, UpdateStatuses
  <2> QED
    BY <1>2, <2>1, <2>2, <2>3, LockKeeps
    DEF OrdersAgree, TripMatchesOrder, OrderLocked, OrderFree, Writing, Active
<1>3. ASSUME NEW x \in Tx, JudgeCompartments(x) PROVE OrdersAgree'
  BY <1>3, JudgeKeeps DEF OrdersAgree, TripMatchesOrder, OrderLocked, Writing, Active,
     orderVars, tripVars
<1>4. ASSUME NEW x \in Tx, Rollback(x) PROVE OrdersAgree'
  BY <1>4, EndKeeps DEF Rollback, OrdersAgree, TripMatchesOrder, OrderLocked, Writing,
     Active, Idle, orderVars, tripVars
<1>5. CASE UNCHANGED <<doStatus, tripStatus, tx>>
  BY <1>5 DEF OrdersAgree, TripMatchesOrder, OrderLocked, Writing, Active
<1>6. ASSUME \/ \E l \in Line : CreateItem(l)
             \/ \E r \in Reading : \/ CreateWeightBridge(r) \/ ApproveWeightBridge(r)
                                   \/ EscalateWeightBridgeReading(r)
             \/ \E c \in Compartment, v \in Variance : MeasureCompartment(c, v)
             \/ UNCHANGED vars
      PROVE  UNCHANGED <<doStatus, tripStatus, tx>>
  BY <1>6 DEF CreateItem, CreateWeightBridge, ApproveWeightBridge,
     EscalateWeightBridgeReading, MeasureCompartment, vars, orderVars, tripVars
<1>7. ASSUME NEW x \in Tx, FailCancel(x) \/ FailUpdate(x) \/ DeadlockAbort(x) \/ Disconnect(x)
      PROVE  Rollback(x)
  BY <1>7 DEF FailCancel, FailUpdate, DeadlockAbort, Disconnect
<1> QED
  BY <1>1, <1>2, <1>3, <1>4, <1>5, <1>6, <1>7, OrderStepAgrees, StartAgrees, CommitAgrees
  DEF Next, ContinueTx

\* Whatever requests are served at once, an order and its trip never contradict
\* each other: the two are only written together under the order's row lock.
THEOREM TripsAndOrdersAgree == Spec => []TripMatchesOrder
<1>1. Init => OrdersAgree
  BY DEF Init, OrdersAgree, TripMatchesOrder, OrderLocked, Writing, Active, Idle
<1>2. OrdersAgree => TripMatchesOrder
  BY DEF OrdersAgree
<1> QED
  BY <1>1, <1>2, InitTyped, StepTyped, StepAgrees, PTL DEF Spec

-----------------------------------------------------------------------------
(* Events: recorded once, on the photos of their step. *)

\* The identifier of an event in the making is in nobody else's hands.
UuidsOwned ==
    \A x \in Tx : tx[x].uuid # Null =>
        /\ \A e \in events : e.uuid # tx[x].uuid
        /\ \A y \in Tx \ {x} : tx[y].uuid # tx[x].uuid

\* Photos are never removed, so a gate passed once stays passed.
GatesPassed ==
    \A x \in Tx : /\ tx[x].op = "load" => LoadingPhotosPresent(tx[x].order)
                  /\ tx[x].op = "deliver" => DeliveryPhotosPresent(tx[x].order)

EventsSound == OneEventPerUuid /\ UuidsOwned /\ MovesHavePhotos /\ GatesPassed

LEMMA PhotosKept ==
  ASSUME photos \subseteq photos'
  PROVE  \A d : /\ LoadingPhotosPresent(d) => LoadingPhotosPresent(d)'
                /\ DeliveryPhotosPresent(d) => DeliveryPhotosPresent(d)'
  BY DEF LoadingPhotosPresent, DeliveryPhotosPresent, HasPhotos, CompartmentsOf

\* A step that records nothing, and leaves each request what it is or ends it.
LEMMA QuietStepSound ==
  ASSUME EventsSound, photos \subseteq photos', events' = events,
         \A x \in Tx : \/ tx'[x] = Idle
                       \/ /\ tx'[x].op = tx[x].op /\ tx'[x].order = tx[x].order
                          /\ tx'[x].uuid = tx[x].uuid
  PROVE  EventsSound'
<1>1. OneEventPerUuid' /\ UuidsOwned'
  BY DEF EventsSound, OneEventPerUuid, UuidsOwned, Idle
<1>2. MovesHavePhotos' /\ GatesPassed'
  BY PhotosKept DEF EventsSound, MovesHavePhotos, GatesPassed, Idle
<1> QED
  BY <1>1, <1>2 DEF EventsSound

LEMMA StartSound ==
  ASSUME Typed, EventsSound, NEW x \in Tx, StartTx(x)
  PROVE  EventsSound'
<1>1. /\ UNCHANGED <<photos, events>>
      /\ \A y \in Tx \ {x} : tx'[y] = tx[y]
  BY StartKeeps DEF tripVars
<1>2. tx'[x].uuid # Null => UuidFree(tx'[x].uuid)
  BY StartKeeps
<1>3. OneEventPerUuid' /\ UuidsOwned'
  BY <1>1, <1>2 DEF EventsSound, OneEventPerUuid, UuidsOwned, UuidFree
<1>4. \A d : /\ LoadingPhotosPresent(d) => LoadingPhotosPresent(d)'
             /\ DeliveryPhotosPresent(d) => DeliveryPhotosPresent(d)'
  BY <1>1, PhotosKept
<1>5. /\ tx'[x].op = "load" => LoadingPhotosPresent(tx'[x].order)
      /\ tx'[x].op = "deliver" => DeliveryPhotosPresent(tx'[x].order)
  BY StartKeeps
<1>6. MovesHavePhotos' /\ GatesPassed'
  BY <1>1, <1>4, <1>5 DEF EventsSound, MovesHavePhotos, GatesPassed
<1> QED
  BY <1>3, <1>6 DEF EventsSound

\* The committing request gives its identifier to the event it records.
LEMMA RecordSound ==
  ASSUME Typed, EventsSound, NEW x \in Tx, CommitLoading(x) \/ CommitDelivery(x)
  PROVE  EventsSound'
<1>1. PICK type : /\ events' = events \union
                        {[uuid |-> tx[x].uuid, trip |-> tx[x].order, type |-> type]}
                  /\ type = "LOADING_COMPLETED" => tx[x].op = "load"
                  /\ type = "DELIVERY_COMPLETED" => tx[x].op = "deliver"
  BY DEF CommitLoading, CommitDelivery, AppendEvent, Finished
<1>2. CommitTanks(x) /\ photos' = photos /\ tx[x].op \in {"load", "deliver"}
  BY DEF CommitLoading, CommitDelivery, Finished
<1>3. tx'[x] = Idle /\ \A y \in Tx \ {x} : tx'[y] = tx[y]
  BY <1>2, EndKeeps
<1>4. tx[x].uuid # Null
  BY <1>2, NullIsNoValue DEF Typed, RequestsNamed
<1>5. OneEventPerUuid'
  BY <1>1, <1>4 DEF EventsSound, OneEventPerUuid, UuidsOwned
<1>6. UuidsOwned'
  BY <1>1, <1>3, <1>4 DEF EventsSound, UuidsOwned, Idle
<1>7. \A d : /\ LoadingPhotosPresent(d) => LoadingPhotosPresent(d)'
             /\ DeliveryPhotosPresent(d) => DeliveryPhotosPresent(d)'
  BY <1>2, PhotosKept
<1>8. MovesHavePhotos'
  BY <1>1, <1>7 DEF EventsSound, MovesHavePhotos, GatesPassed
<1>9. GatesPassed'
  BY <1>3, <1>7 DEF EventsSound, GatesPassed, Idle
<1> QED
  BY <1>5, <1>6, <1>8, <1>9 DEF EventsSound

LEMMA OtherEventSound ==
  ASSUME Typed, EventsSound, NEW d \in DO, NEW u \in Uuid, RecordOtherEvent(d, u)
  PROVE  EventsSound'
<1>1. /\ events' = events \union {[uuid |-> u, trip |-> d, type |-> "OTHER"]}
      /\ UNCHANGED <<photos, tx>> /\ UuidFree(u)
  BY DEF RecordOtherEvent
<1>2. OneEventPerUuid' /\ UuidsOwned'
  BY <1>1 DEF EventsSound, OneEventPerUuid, UuidsOwned, UuidFree
<1>3. \A e : /\ LoadingPhotosPresent(e) => LoadingPhotosPresent(e)'
             /\ DeliveryPhotosPresent(e) => DeliveryPhotosPresent(e)'
  BY <1>1, PhotosKept
<1>4. MovesHavePhotos' /\ GatesPassed'
  BY <1>1, <1>3 DEF EventsSound, MovesHavePhotos, GatesPassed
<1> QED
  BY <1>2, <1>4 DEF EventsSound

\* Every step is one of those above or a quiet one.
LEMMA StepEventsSound == Typed /\ EventsSound /\ [Next]_vars => EventsSound'
<1> SUFFICES ASSUME Typed, EventsSound, [Next]_vars PROVE EventsSound'
  OBVIOUS
<1>1. CASE photos \subseteq photos' /\ UNCHANGED <<events, tx>>
  BY <1>1, QuietStepSound
<1>2. ASSUME NEW d \in DO, OrderStep(d)
      PROVE  \/ photos \subseteq photos' /\ UNCHANGED <<events, tx>>
             \/ \E u \in Uuid : RecordOtherEvent(d, u)
  BY <1>2 DEF OrderStep, CreateDeliveryOrder, SubmitForApproval, AssignVehicleAndDriver,
     CreateTrip, UploadTripPhoto, tripVars
<1>3. ASSUME \/ \E l \in Line : CreateItem(l)
             \/ \E r \in Reading : \/ CreateWeightBridge(r) \/ ApproveWeightBridge(r)
                                   \/ EscalateWeightBridgeReading(r)
             \/ \E c \in Compartment, v \in Variance : MeasureCompartment(c, v)
             \/ UNCHANGED vars
      PROVE  photos \subseteq photos' /\ UNCHANGED <<events, tx>>
  BY <1>3 DEF CreateItem, CreateWeightBridge, ApproveWeightBridge,
     EscalateWeightBridgeReading, MeasureCompartment, vars, tripVars
<1>4. ASSUME NEW x \in Tx, UpdateTank(x) PROVE EventsSound'
  BY <1>4, UpdateTankKeeps, QuietStepSound DEF tripVars
<1>5. ASSUME NEW x \in Tx, CancelUpdate(x) \/ UpdateStatuses(x) PROVE EventsSound'
  BY <1>5, LockKeeps, QuietStepSound DEF tripVars
<1>6. ASSUME NEW x \in Tx, JudgeCompartments(x) PROVE EventsSound'
  BY <1>6, JudgeKeeps, QuietStepSound DEF tripVars
<1>7. ASSUME NEW x \in Tx, CommitApprove(x) \/ CommitCancel(x) PROVE EventsSound'
  <2>1. CommitTanks(x) /\ UNCHANGED <<photos, events>>
    BY <1>7 DEF CommitApprove, CommitCancel, tripVars
  <2> QED
    BY <2>1, EndKeeps, QuietStepSound
<1>8. ASSUME NEW x \in Tx, FailCancel(x) \/ FailUpdate(x) \/ DeadlockAbort(x) \/ Disconnect(x)
      PROVE  EventsSound'
  <2>1. Rollback(x) /\ UNCHANGED <<photos, events>>
    BY <1>8 DEF FailCancel, FailUpdate, DeadlockAbort, Disconnect, Rollback, tripVars
  <2> QED
    BY <2>1, EndKeeps, QuietStepSound
<1> QED
  BY <1>1, <1>2, <1>3, <1>4, <1>5, <1>6, <1>7, <1>8, OtherEventSound, StartSound, RecordSound
  DEF Next, ContinueTx, Commit

LEMMA InitEventsSound == Init => EventsSound
  BY DEF Init, EventsSound, OneEventPerUuid, UuidsOwned, MovesHavePhotos, GatesPassed, Idle

\* However often a client resends an event, and however many copies are being
\* processed at once, it is recorded at most once.
THEOREM EventsRecordedOnce == Spec => []OneEventPerUuid
<1>1. EventsSound => OneEventPerUuid
  BY DEF EventsSound
<1> QED
  BY <1>1, InitTyped, InitEventsSound, StepTyped, StepEventsSound, PTL DEF Spec

\* Fuel is never taken out or delivered by an event whose mandatory photos are
\* missing, although the check is made long before the event commits.
THEOREM MovesAreDocumented == Spec => []MovesHavePhotos
<1>1. EventsSound => MovesHavePhotos
  BY DEF EventsSound
<1> QED
  BY <1>1, InitTyped, InitEventsSound, StepTyped, StepEventsSound, PTL DEF Spec

-----------------------------------------------------------------------------
(* Disputes. *)

\* A delivery only judges its own trip's compartments.
OwnCompartments ==
    \A x \in Tx :
        tx[x].within \union tx[x].beyond \subseteq CompartmentsOf(tx[x].order)

DisputesSound == DisputeNamesCompartment /\ OwnCompartments

LEMMA DeliverySound ==
  ASSUME Typed, DisputesSound, NEW x \in Tx, CommitDelivery(x)
  PROVE  DisputesSound'
<1> DEFINE d == tx[x].order
<1>1. d \in DO /\ CommitTanks(x)
  BY DEF CommitDelivery, Finished, Writing, Typed, RequestsNamed
<1>2. OwnCompartments'
  BY <1>1, EndKeeps DEF DisputesSound, OwnCompartments, CompartmentsOf, Idle
<1>3. ASSUME NEW e \in DO, tripStatus'[e] = "DISPUTED"
      PROVE  \E c \in CompartmentsOf(e) : delivery'[c] = "DISPUTED"
  <2>1. CASE e = d
    <3>1. tx[x].beyond # {}
      BY <1>1, <1>3, <2>1 DEF CommitDelivery, Typed, TypeOK
    <3>2. PICK c \in tx[x].beyond : c \in CompartmentsOf(d)
      BY <3>1 DEF DisputesSound, OwnCompartments
    <3> QED
      BY <2>1, <3>2 DEF CommitDelivery, CompartmentsOf
  <2>2. CASE e # d
    <3>1. tripStatus[e] = "DISPUTED"
      BY <1>3, <2>2 DEF CommitDelivery, Typed, TypeOK
    <3>2. PICK c \in CompartmentsOf(e) : delivery[c] = "DISPUTED"
      BY <3>1 DEF DisputesSound, DisputeNamesCompartment
    <3>3. c \notin tx[x].within
      BY <2>2, <3>2 DEF CompartmentsOf, DisputesSound, OwnCompartments
    <3> QED
      BY <3>2, <3>3 DEF CommitDelivery, CompartmentsOf
  <2> QED
    BY <2>1, <2>2
<1> QED
  BY <1>2, <1>3 DEF DisputesSound, DisputeNamesCompartment, CompartmentsOf

\* A step that neither judges nor delivers disturbs no dispute.
LEMMA QuietDisputesSound ==
  ASSUME DisputesSound, delivery' = delivery,
         \A d \in DO : tripStatus'[d] = "DISPUTED" => tripStatus[d] = "DISPUTED",
         \A x \in Tx : \/ tx'[x].within = {} /\ tx'[x].beyond = {}
                       \/ /\ tx'[x].order = tx[x].order
                          /\ tx'[x].within = tx[x].within /\ tx'[x].beyond = tx[x].beyond
  PROVE  DisputesSound'
<1>1. DisputeNamesCompartment'
  BY DEF DisputesSound, DisputeNamesCompartment, CompartmentsOf
<1>2. ASSUME NEW x \in Tx
      PROVE  tx'[x].within \union tx'[x].beyond \subseteq CompartmentsOf(tx'[x].order)
  BY DEF DisputesSound, OwnCompartments
<1> QED
  BY <1>1, <1>2 DEF DisputesSound, OwnCompartments, CompartmentsOf

LEMMA StepDisputesSound == Typed /\ DisputesSound /\ [Next]_vars => DisputesSound'
<1> SUFFICES ASSUME Typed, DisputesSound, [Next]_vars PROVE DisputesSound'
  OBVIOUS
<1>1. CASE /\ UNCHANGED <<delivery, tx>>
           /\ \A d \in DO : tripStatus'[d] = "DISPUTED" => tripStatus[d] = "DISPUTED"
  BY <1>1, QuietDisputesSound
<1>2. ASSUME NEW d \in DO, CreateTrip(d)
      PROVE  /\ UNCHANGED <<delivery, tx>>
             /\ \A e \in DO : tripStatus'[e] = "DISPUTED" => tripStatus[e] = "DISPUTED"
  BY <1>2 DEF CreateTrip, Typed, TypeOK
<1>3. ASSUME NEW d \in DO, OrderStep(d)
      PROVE  UNCHANGED <<delivery, tripStatus, tx>> \/ CreateTrip(d)
  BY <1>3 DEF OrderStep, CreateDeliveryOrder, SubmitForApproval, AssignVehicleAndDriver,
     UploadTripPhoto, RecordOtherEvent, tripVars
<1>4. ASSUME \/ \E l \in Line : CreateItem(l)
             \/ \E r \in Reading : \/ CreateWeightBridge(r) \/ ApproveWeightBridge(r)
                                   \/ EscalateWeightBridgeReading(r)
             \/ \E c \in Compartment, v \in Variance : MeasureCompartment(c, v)
             \/ UNCHANGED vars
      PROVE  UNCHANGED <<delivery, tripStatus, tx>>
  BY <1>4 DEF CreateItem, CreateWeightBridge, ApproveWeightBridge,
     EscalateWeightBridgeReading, MeasureCompartment, vars, tripVars
<1>5. ASSUME NEW x \in Tx, StartTx(x) PROVE DisputesSound'
  BY <1>5, StartKeeps, QuietDisputesSound DEF tripVars
<1>6. ASSUME NEW x \in Tx, UpdateTank(x) PROVE DisputesSound'
  BY <1>6, UpdateTankKeeps, QuietDisputesSound DEF tripVars
<1>7. ASSUME NEW x \in Tx, CancelUpdate(x) \/ UpdateStatuses(x) PROVE DisputesSound'
  BY <1>7, LockKeeps, QuietDisputesSound DEF tripVars
<1>8. ASSUME NEW x \in Tx, JudgeCompartments(x) PROVE DisputesSound'
  BY <1>8, JudgeKeeps
  DEF DisputesSound, DisputeNamesCompartment, OwnCompartments, CompartmentsOf, tripVars
<1>9. ASSUME NEW x \in Tx, CommitApprove(x) \/ CommitCancel(x) PROVE DisputesSound'
  <2>1. CommitTanks(x) /\ UNCHANGED <<delivery, tripStatus>>
    BY <1>9 DEF CommitApprove, CommitCancel, tripVars
  <2> QED
    BY <2>1, EndKeeps, QuietDisputesSound DEF Idle
<1>10. ASSUME NEW x \in Tx, CommitLoading(x) PROVE DisputesSound'
  <2>1. CommitTanks(x) /\ UNCHANGED delivery
    BY <1>10 DEF CommitLoading
  <2>2. \A d \in DO : tripStatus'[d] = "DISPUTED" => tripStatus[d] = "DISPUTED"
    BY <1>10 DEF CommitLoading, Typed, TypeOK
  <2> QED
    BY <2>1, <2>2, EndKeeps, QuietDisputesSound DEF Idle
<1>11. ASSUME NEW x \in Tx, FailCancel(x) \/ FailUpdate(x) \/ DeadlockAbort(x) \/ Disconnect(x)
       PROVE  DisputesSound'
  <2>1. Rollback(x) /\ UNCHANGED <<delivery, tripStatus>>
    BY <1>11 DEF FailCancel, FailUpdate, DeadlockAbort, Disconnect, Rollback, tripVars
  <2> QED
    BY <2>1, EndKeeps, QuietDisputesSound DEF Idle
<1> QED
  BY <1>1, <1>2, <1>3, <1>4, <1>5, <1>6, <1>7, <1>8, <1>9, <1>10, <1>11, DeliverySound
  DEF Next, ContinueTx, Commit

\* A trip in dispute names a compartment in dispute, however the volumes were
\* corrected and however often its delivery was reported.
THEOREM DisputesAreNamed == Spec => []DisputeNamesCompartment
<1>1. Init => DisputesSound
  BY DEF Init, DisputesSound, DisputeNamesCompartment, OwnCompartments, Idle
<1>2. DisputesSound => DisputeNamesCompartment
  BY DEF DisputesSound
<1> QED
  BY <1>1, <1>2, InitTyped, StepTyped, StepDisputesSound, PTL DEF Spec

=============================================================================
