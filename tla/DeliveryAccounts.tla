-------------------------- MODULE DeliveryAccounts --------------------------
(***************************************************************************)
(* What the storage tanks of DeliveryWorkflow add up to: the volume of a   *)
(* pool (the tanks of one fuel at one site) against the trip events, and   *)
(* its reservations against the orders that are waiting to be loaded.      *)
(***************************************************************************)
EXTENDS DeliveryWorkflow, Functions

ASSUME RowsAreFinite == IsFiniteSet(Tank) /\ IsFiniteSet(Line)

PoolTanks(p) == {t \in Tank : TankPool[t] = p}

VolumeOf(lines, p) ==
    SumFunctionOnSet(LineVolume, {l \in lines : LinePool[l] = p})

StartOf(p) == SumFunctionOnSet(StartVolume, PoolTanks(p))
CurrentOf(p) == SumFunctionOnSet([t \in Tank |-> tank[t].current], PoolTanks(p))
ReservedOf(p) == SumFunctionOnSet([t \in Tank |-> tank[t].reserved], PoolTanks(p))

\* Only a station delivery and a return trip's delivery fill tanks.
FilledBy(d) == IF Destination[d] = "TRANSFER" THEN {} ELSE DeliveredOf(d)

TakenOut(p) ==
    SumFunctionOnSet([e \in events |-> VolumeOf(LoadedOf(e.trip), p)],
                     {e \in events : e.type = "LOADING_COMPLETED"})
FilledIn(p) ==
    SumFunctionOnSet([e \in events |-> VolumeOf(FilledBy(e.trip), p)],
                     {e \in events : e.type = "DELIVERY_COMPLETED"})

\* The stock of every pool is what it started with, less what the recorded
\* loading events took out, plus what the recorded delivery events brought in:
\* no update is lost, applied twice or left behind by a rollback, and no event
\* is recorded without its whole effect.
StockMatchesEvents ==
    \A p \in Pool : CurrentOf(p) = StartOf(p) - TakenOut(p) + FilledIn(p)

WaitingOrders == {d \in DO : doStatus[d] \in {"APPROVED", "ASSIGNED"}}

Promised(p) == VolumeOf(UNION {ItemsOf(d) : d \in WaitingOrders}, p)

\* What is reserved is exactly what the approved and assigned orders asked for.
ReservationsMatchOrders == \A p \in Pool : ReservedOf(p) = Promised(p)

=============================================================================
