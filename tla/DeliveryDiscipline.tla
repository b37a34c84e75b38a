------------------------- MODULE DeliveryDiscipline -------------------------
(***************************************************************************)
(* DeliveryWorkflow under callers that keep to the order of SKILL.md's     *)
(* state machines, one request per order at a time.  The code does not     *)
(* enforce any of this; the module says what it guarantees if the callers  *)
(* do, and each rule dropped on its own shows what the rule was worth.     *)
(***************************************************************************)
EXTENDS DeliveryAccounts

Begins(x) == ~Active(x) /\ tx'[x].op # "idle"

\* Items are added to drafts only.
ItemsWhileDraft == \A l \in items' \ items : doStatus[LineOrder[l]] = "DRAFT"

\* No two requests about one order are served at the same time.
OneRequestPerOrder ==
    \A x \in Tx : Begins(x) =>
        \A y \in Tx \ {x} : Active(y) => tx[y].order # tx'[x].order

\* Each event is sent in the step of the trip it belongs to, a loading takes
\* what the order asked for, and nobody cancels an order in dispute.
EventsInStep ==
    \A x \in Tx : Begins(x) =>
        LET d == tx'[x].order IN
        /\ tx'[x].op = "load" =>
               /\ doStatus[d] = "ASSIGNED"
               /\ \A p \in Pool : VolumeOf(LoadedOf(d), p) = VolumeOf(ItemsOf(d), p)
        /\ tx'[x].op = "deliver" => doStatus[d] = "IN_PROGRESS"
        /\ tx'[x].op = "cancel" => doStatus[d] # "DISPUTED"

DisciplinedNext == Next /\ ItemsWhileDraft /\ OneRequestPerOrder /\ EventsInStep

DisciplinedSpec == Init /\ [][DisciplinedNext]_vars

\* Two users may act on the same order at the same time.
ConcurrentSpec == Init /\ [][Next /\ ItemsWhileDraft /\ EventsInStep]_vars

-----------------------------------------------------------------------------
\* What a loading takes out was reserved for it: an order that was approved
\* is never refused its fuel at the loading bay.
ReservedFuelIsThere ==
    \A x \in Tx : tx[x].op = "load" =>
        \A l \in tx[x].todo : \A t \in Candidates(l) :
            TankFree(x, t) => ~Refused(x, l, t)

\* The order state machine: a request moves an order along these edges.
Lifecycle == {<<"NONE", "DRAFT">>, <<"DRAFT", "PENDING_APPROVAL">>,
    <<"PENDING_APPROVAL", "APPROVED">>, <<"APPROVED", "ASSIGNED">>,
    <<"ASSIGNED", "IN_PROGRESS">>, <<"IN_PROGRESS", "DELIVERED">>,
    <<"IN_PROGRESS", "DISPUTED">>, <<"DRAFT", "CANCELLED">>,
    <<"PENDING_APPROVAL", "CANCELLED">>, <<"APPROVED", "CANCELLED">>,
    <<"ASSIGNED", "CANCELLED">>}

\* No order skips a step or comes back from a later one, although the
\* statements that move it (UpdateDOStatus, CancelDeliveryOrder) check little.
OrderFollowsLifecycle ==
    [][\A d \in DO : doStatus[d] # doStatus'[d] =>
           <<doStatus[d], doStatus'[d]>> \in Lifecycle]_doStatus

\* With every order cancelled or not yet approved, and no request in flight,
\* nothing is left reserved: cancelling releases what approving reserved.
CancelReleases ==
    (/\ \A x \in Tx : ~Active(x)
     /\ \A d \in DO : doStatus[d] \in {"NONE", "DRAFT", "PENDING_APPROVAL", "CANCELLED"})
    => \A p \in Pool : ReservedOf(p) = 0

\* Once every order is on the road and no request is in flight nothing is
\* left reserved: deducting what was loaded clears its reservation.
LoadingClears ==
    (/\ \A x \in Tx : ~Active(x)
     /\ \A d \in DO : doStatus[d] = "IN_PROGRESS")
    => \A p \in Pool : ReservedOf(p) = 0

=============================================================================
