------------------------------- MODULE Positions -------------------------------
(* A position's two ways: from the phone into the table (MobileSync), and    *)
(* from the API to the maps (LiveMap, the module extended).  LiveMap has the *)
(* points of a trip come in any order and number, whatever a phone has       *)
(* uploaded: the two share no variable, and every behaviour of the one goes  *)
(* with every behaviour of the other.                                        *)
EXTENDS LiveMap

CONSTANTS
  Samples,       \* the points of a phone (MobileSync: Points)
  Routable, Events, Batches, Requests,
  MaxSyncFaults

VARIABLES outbox, request, stored, risked, unsent, recorded, answer, syncFaults

syncVars == <<outbox, request, stored, risked, unsent, recorded, answer, syncFaults>>

Phone == INSTANCE MobileSync WITH
  Points <- Samples, MaxFaults <- MaxSyncFaults, faults <- syncFaults

PositionsAssumption == MapAssumption /\ Phone!SyncAssumption

PositionsSpec == Spec /\ Phone!Spec

-------------------------------------------------------------------------------
\* The type invariants of both ways.
TypesOK == TypeOK /\ Phone!TypeOK

\* The phone drops a point or an event only when it is stored: the counts of
\* an answer of gps.go (Batch) never cover a point that failed.
KeptUntilStored == Phone!KeptUntilStored

\* SKILL.md: "Duplicate `event_uuid` values are silently skipped".  A point is
\* stored twice only when its check failed, or another batch came between its
\* check and its insert.
StoredOnce == Phone!StoredOnce
===============================================================================
