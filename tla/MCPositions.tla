------------------------------ MODULE MCPositions ------------------------------
(* Positions for TLC.  The two ways have nothing to do with each other, so    *)
(* that a behaviour follows one of them (`side`) and leaves the other at rest. *)
EXTENDS Positions

CONSTANTS
  q1, q2, q3,    \* points of a phone
  e1,            \* a trip event
  p1, p2         \* pages

VARIABLE side

\* Two points with a partition, one without; batches that overlap, that name
\* a point twice, and that mix the two kinds.
MCBatches == {<<q1, q2>>, <<q2, q1, q2>>, <<q3, q1>>}

\* A trip of the north; a map of the company, and one of either facility that
\* may stop being read.
MCFacilityOf == [t \in Trips |-> "north"]
MCScopesOf == [p \in {p1, p2} |-> IF p = p1 THEN {"company"} ELSE {"south"}]

ASSUME PositionsAssumption

-------------------------------------------------------------------------------
MCInit == Init /\ Phone!Init /\ side \in {"phone", "map"}

MCNext ==
  \/ side = "phone" /\ Phone!Next /\ UNCHANGED <<side, vars>>
  \/ side = "map" /\ Next /\ UNCHANGED <<side, syncVars>>

MCSpec ==
  /\ MCInit /\ [][MCNext]_<<side, vars, syncVars>>
  /\ \/ <>[](side = "phone") /\ Phone!Fairness
     \/ <>[](side = "map") /\ Fairness

\* The phone's points and events arrive in the behaviours that follow it.
UploadsArrive == <>[](side = "phone") => Phone!UploadsArrive
===============================================================================
