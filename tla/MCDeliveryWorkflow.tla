------------------------- MODULE MCDeliveryWorkflow -------------------------
(***************************************************************************)
(* Small instances of DeliveryWorkflow and DeliveryAccounts for TLC.       *)
(* Two orders d1 and d2 start from the same depot; d1 goes to a station,   *)
(* d2 brings fuel back to a second depot.                                  *)
(***************************************************************************)
EXTENDS DeliveryDiscipline, TLC

CONSTANTS d1, d2,                       \* orders
          depot, depotB, station,       \* pools: the depot's two fuels, a station
          f1, f2, g1, h1, s1,           \* tanks
          i1, i2, j1, j2, k1, k2,       \* items
          o1, o2, p1, p2, n1, n2,       \* loaded and delivered totals
          c1, c2, r1

\* Requests and event identifiers are interchangeable.
Symmetry == Permutations(Tx) \union Permutations(Uuid)

Destinations == d1 :> "STATION" @@ d2 :> "RETURN"
Destination_ == [d \in DO |-> Destinations[d]]
Transfers == [d \in DO |-> "TRANSFER"]

Roles == i1 :> "item" @@ i2 :> "item" @@ j1 :> "item" @@ j2 :> "item"
         @@ k1 :> "item" @@ k2 :> "item" @@ p1 :> "loaded" @@ p2 :> "loaded"
         @@ o1 :> "loaded" @@ o2 :> "loaded" @@ n1 :> "delivered" @@ n2 :> "delivered"
Orders == i1 :> d1 @@ i2 :> d2 @@ j1 :> d1 @@ j2 :> d2 @@ o1 :> d1 @@ o2 :> d2 @@ n1 :> d1 @@ n2 :> d2
          @@ k1 :> d1 @@ k2 :> d2 @@ p1 :> d1 @@ p2 :> d2
Pools == i1 :> depot @@ i2 :> depot @@ j1 :> depotB @@ j2 :> depotB
         @@ o1 :> depot @@ o2 :> depot @@ n1 :> station @@ n2 :> depotB
         @@ k1 :> depot @@ k2 :> depot @@ p1 :> depot @@ p2 :> depot
Volumes == i1 :> 1 @@ i2 :> 2 @@ j1 :> 1 @@ j2 :> 1 @@ o1 :> 1 @@ o2 :> 2 @@ n1 :> 1 @@ n2 :> 1
           @@ k1 :> 1 @@ k2 :> 1 @@ p1 :> 2 @@ p2 :> 1

LineRole_ == [l \in Line |-> Roles[l]]
LineOrder_ == [l \in Line |-> Orders[l]]
LinePool_ == [l \in Line |-> Pools[l]]
LineVolume_ == [l \in Line |-> Volumes[l]]

TankPools == f1 :> depot @@ f2 :> depot @@ g1 :> depotB @@ h1 :> depot @@ s1 :> station
TankPool_ == [t \in Tank |-> TankPools[t]]
Capacities == f1 :> 3 @@ f2 :> 2 @@ g1 :> 2 @@ h1 :> 3 @@ s1 :> 2
Capacity_ == [t \in Tank |-> Capacities[t]]
Volumes0 == f1 :> 3 @@ f2 :> 1 @@ g1 :> 1 @@ h1 :> 2 @@ s1 :> 0
StartVolume_ == [t \in Tank |-> Volumes0[t]]

CompartmentTrip_ == [c \in Compartment |-> d1]
ReadingTrip_ == [r \in Reading |-> d1]

AllPhotos == {{"TARE", "GROSS", "SEALED", "BEFORE", "PUMP", "AFTER"} \union Compartment}
PhotosByStep == {{"TARE", "GROSS"} \union Compartment, {"BEFORE", "PUMP", "AFTER"}}

\* Requests that meet on orders already submitted with all their items: a
\* state every submission reaches.
Submitted ==
    /\ doStatus = [d \in DO |-> "PENDING_APPROVAL"]
    /\ items = {l \in Line : LineRole[l] = "item"}
    /\ tank = [t \in Tank |-> [current |-> StartVolume[t], reserved |-> 0]]
    /\ dirty = tank
    /\ holder = [t \in Tank |-> Null]
    /\ tripStatus = [d \in DO |-> "NONE"]
    /\ photos = {} /\ reading = [r \in Reading |-> "NONE"]
    /\ variance = [c \in Compartment |-> "null"]
    /\ delivery = [c \in Compartment |-> "PENDING"]
    /\ events = {}
    /\ tx = [x \in Tx |-> Idle]

SubmittedSpec == Submitted /\ [][Next]_vars /\ \A x \in Tx : SF_vars(ContinueTx(x))

=============================================================================
