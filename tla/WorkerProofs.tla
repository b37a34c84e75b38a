----------------------------- MODULE WorkerProofs -----------------------------
(***************************************************************************)
(* What the worker's jobs promise, proved for any users, notices, readings *)
(* and trips, any outcome of a send and passes that break off anywhere:    *)
(* overlapping passes leave a trip few open deviations, and mark only what *)
(* was sent; a notice is not repeated within the window the duplicate      *)
(* check reads; and the rows of the escalation follow the escalations,     *)
(* however many passes overlap.  Each invariant says what a pass that is   *)
(* under way knows, and why no other step makes it false.                  *)
(***************************************************************************)
EXTENDS Worker, FiniteSetTheorems, SequenceTheorems, WellFoundedInduction, TLAPS

-----------------------------------------------------------------------------
(* RouteDeviation.  Other passes may write between any two steps of a pass,   *)
(* so that little of what it has read lasts.  What does: a deviation stays of *)
(* its trip, what was counted is still there, and who was told has his row.   *)
(* And a pass that found no open deviation, and may so open one, found it     *)
(* when the trip had none: the open ones and these passes together are never  *)
(* more than there are passes.                                                *)

\* What a pass that has come to w knows.
Knows(w) ==
  /\ w.at \in {"found", "counted"} => w.trip \in Trips
  /\ w.at = "found" /\ w.open # 0 => w.open \in DOMAIN events
  /\ w.at = "counted" => w.count <= Cardinality(OfTrip(w.trip))
  /\ w.at = "tell" =>
       /\ w.event \in DOMAIN events /\ w.user > 0
       /\ \A m \in DOMAIN ManagersOf[events[w.event].trip] :
            m < w.user => ManagersOf[events[w.event].trip][m] \in rows[w.event]
  /\ w.alerts \subseteq DOMAIN events

\* The pass found no open deviation of t.
FoundNone(w, t) == w.trip = t /\ (w.at = "counted" \/ (w.at = "found" /\ w.open = 0))
Openers(t) == {p \in Passes : FoundNone(pass[p], t)}

Few(t) == Cardinality(Unresolved(t)) + Cardinality(Openers(t)) <= Cardinality(Passes)
Place(e) == Cardinality({d \in OfTrip(events[e].trip) : d <= e})
Numbered(e) == events[e].occurrence <= Place(e)

DeviationInv ==
  /\ TypeOK
  /\ \A p \in Passes : Knows(pass[p])
  /\ \A t \in Trips : Few(t)
  /\ \A e \in DOMAIN events : Numbered(e)
  /\ AlertedMeansSent

\* A set of numbers has a least one: Min finds it.
LEMMA LeastExists ==
  ASSUME NEW S \in SUBSET Nat, S # {}
  PROVE  Min(S) \in S /\ \A y \in S : Min(S) <= y
<1> DEFINE R == {ss \in Nat \X Nat : ss[1] < ss[2]}
<1>1. OpToRel(<,Nat) = R
  BY Zenon DEF OpToRel
<1>2. IsWellFoundedOn(R, Nat)
  BY <1>1, NatLessThanWellFounded, Zenon
<1>3. PICK x \in S : \A y \in S : <<y, x>> \notin R
  <2> HIDE DEF R
  <2> QED
    BY <1>2, WFMin
<1>4. ASSUME NEW y \in S, y < x PROVE FALSE
  <2>1. <<y, x>> \in Nat \X Nat /\ <<y, x>>[1] < <<y, x>>[2]
    BY <1>4
  <2>2. <<y, x>> \in R
    BY <2>1
  <2> QED
    BY <1>3, <2>2
<1>5. \A y \in S : x <= y
  BY <1>4
<1> QED
  BY <1>5 DEF Min

\* A set of numbers below a bound has a greatest one: Max finds it.
LEMMA GreatestExists ==
  ASSUME NEW n \in Nat, NEW S \in SUBSET (1..n), S # {}
  PROVE  Max(S) \in S
<1> DEFINE U == {k \in Nat : \A y \in S : k >= y}
           k == Min(U)
<1>1. U \in SUBSET Nat /\ n \in U
  OBVIOUS
<1>2. k \in U /\ \A u \in U : k <= u
  BY <1>1, LeastExists
<1>3. k \in S
  <2> SUFFICES ASSUME k \notin S PROVE FALSE
    OBVIOUS
  <2> HIDE DEF k
  <2>1. \A y \in S : y < k /\ y \in Nat
    BY <1>2
  <2>2. k \in Nat /\ k >= 1
    <3>1. PICK y \in S : y \in 1..n
      OBVIOUS
    <3> QED
      BY <1>2, <2>1, <3>1
  <2>3. \A y \in S : k - 1 >= y
    BY <2>1, <2>2
  <2>4. k - 1 \in U
    BY <2>2, <2>3
  <2> QED
    BY <1>2, <2>2, <2>4
<1>4. \A y \in S : k >= y
  BY <1>2
<1> HIDE DEF k
<1> QED
  BY <1>3, <1>4 DEF Max

LEMMA DeviationsAreFinite ==
  ASSUME TypeOK, NEW t
  PROVE  /\ DOMAIN events = 1..Len(events) /\ Len(events) \in Nat /\ DOMAIN rows = DOMAIN events
         /\ OfTrip(t) \in SUBSET DOMAIN events /\ Unresolved(t) \in SUBSET OfTrip(t)
         /\ IsFiniteSet(OfTrip(t)) /\ Cardinality(OfTrip(t)) \in Nat
         /\ IsFiniteSet(Unresolved(t)) /\ Cardinality(Unresolved(t)) \in Nat
<1>1. DOMAIN events = 1..Len(events) /\ Len(events) \in Nat /\ DOMAIN rows = DOMAIN events
  BY DEF TypeOK
<1>2. IsFiniteSet(DOMAIN events)
  BY <1>1, FS_Interval
<1>3. OfTrip(t) \in SUBSET DOMAIN events /\ Unresolved(t) \in SUBSET OfTrip(t)
  BY DEF OfTrip, Unresolved
<1>4. IsFiniteSet(OfTrip(t)) /\ Cardinality(OfTrip(t)) \in Nat
  BY <1>2, <1>3, FS_Subset, FS_CardinalityType
<1>5. IsFiniteSet(Unresolved(t)) /\ Cardinality(Unresolved(t)) \in Nat
  BY <1>3, <1>4, FS_Subset, FS_CardinalityType
<1> QED
  BY <1>1, <1>3, <1>4, <1>5

LEMMA OpenersAreFinite ==
  ASSUME DeviationAssumption, NEW t
  PROVE  /\ IsFiniteSet(Openers(t)) /\ Cardinality(Openers(t)) \in Nat
         /\ Cardinality(Openers(t)) <= Cardinality(Passes) /\ Cardinality(Passes) \in Nat
<1>1. Openers(t) \subseteq Passes /\ IsFiniteSet(Passes)
  BY DEF Openers, DeviationAssumption
<1> QED
  BY <1>1, FS_Subset, FS_CardinalityType

\* What is found open is an open deviation of the trip, 0 when there is none.
LEMMA OpenIsUnresolved ==
  ASSUME TypeOK, NEW t
  PROVE  /\ GetOpenDeviationByTrip(t) \in Nat
         /\ IF GetOpenDeviationByTrip(t) = 0 THEN Unresolved(t) = {}
            ELSE GetOpenDeviationByTrip(t) \in Unresolved(t)
<1>1. Unresolved(t) \in SUBSET (1..Len(events)) /\ Len(events) \in Nat
  BY DeviationsAreFinite
<1>2. Unresolved(t) # {} => Max(Unresolved(t)) \in Unresolved(t)
  BY <1>1, GreatestExists
<1> QED
  BY <1>1, <1>2 DEF GetOpenDeviationByTrip

LEMMA PassTypes ==
  ASSUME DeviationInv, NEW p \in Passes
  PROVE  pass[p] \in PassRecord /\ Knows(pass[p])
BY DEF DeviationInv, TypeOK

LEMMA IdleKnows ==
  /\ Idle \in PassRecord /\ Knows(Idle) /\ Knows(Idle)'
  /\ \A t : ~FoundNone(Idle, t)
<1>1. Idle \in PassRecord
  BY DEF Idle, PassRecord, Points
<1>2. Knows(Idle) /\ Knows(Idle)'
  BY DEF Idle, Knows
<1>3. \A t : ~FoundNone(Idle, t)
  BY DEF Idle, FoundNone
<1> QED
  BY <1>1, <1>2, <1>3

LEMMA DeviationInitInv == DeviationAssumption /\ Init => DeviationInv
<1> SUFFICES ASSUME DeviationAssumption, Init PROVE DeviationInv
  OBVIOUS
<1>1. \A p \in Passes : pass[p] = Idle
  BY DEF Init
<1>2. TypeOK
  <2>1. pass \in [Passes -> PassRecord]
    BY IdleKnows DEF Init
  <2>2. events \in Seq(Event) /\ rows \in Seq(SUBSET Users) /\ Len(rows) = Len(events)
    BY DEF Init
  <2> QED
    BY <2>1, <2>2 DEF Init, TypeOK, DeviationAssumption
<1>3. DOMAIN events = {}
  BY DEF Init
<1>4. ASSUME NEW t \in Trips PROVE Few(t)
  <2>1. Unresolved(t) = {} /\ Openers(t) = {}
    BY <1>1, <1>3, IdleKnows DEF Unresolved, OfTrip, Openers
  <2>2. Cardinality(Passes) \in Nat
    BY FS_CardinalityType DEF DeviationAssumption
  <2> QED
    BY <2>1, <2>2, FS_EmptySet DEF Few
<1>5. AlertedMeansSent
  BY <1>3 DEF AlertedMeansSent
<1> QED
  BY <1>1, <1>2, <1>3, <1>4, <1>5, IdleKnows DEF DeviationInv

-----------------------------------------------------------------------------
(* No step takes a deviation or a row away. *)

Grows ==
  /\ DOMAIN events \subseteq DOMAIN events'
  /\ \A e \in DOMAIN events : events'[e].trip = events[e].trip /\ rows[e] \subseteq rows'[e]

LEMMA KnowsStays ==
  ASSUME TypeOK, TypeOK', Grows, NEW w \in PassRecord, Knows(w)
  PROVE  Knows(w)'
<1>1. w.at \in {"found", "counted"} => w.trip \in Trips
  BY DEF Knows
<1>2. w.at = "found" /\ w.open # 0 => w.open \in DOMAIN events'
  BY DEF Knows, Grows
<1>3. w.at = "counted" => w.count <= Cardinality(OfTrip(w.trip)')
  <2>1. OfTrip(w.trip) \subseteq OfTrip(w.trip)'
    BY DEF OfTrip, Grows
  <2>2. IsFiniteSet(OfTrip(w.trip)')
    <3>1. DOMAIN events' = 1..Len(events') /\ Len(events') \in Nat
      BY DEF TypeOK
    <3>2. IsFiniteSet(DOMAIN events') /\ OfTrip(w.trip)' \subseteq DOMAIN events'
      BY <3>1, FS_Interval DEF OfTrip
    <3> QED
      BY <3>2, FS_Subset
  <2>3. /\ Cardinality(OfTrip(w.trip)) <= Cardinality(OfTrip(w.trip)')
        /\ Cardinality(OfTrip(w.trip)) \in Nat /\ Cardinality(OfTrip(w.trip)') \in Nat
    BY <2>1, <2>2, FS_Subset, FS_CardinalityType
  <2>4. w.count \in Nat
    BY DEF PassRecord
  <2> QED
    BY <2>3, <2>4 DEF Knows
<1>4. w.at = "tell" =>
        /\ w.event \in DOMAIN events' /\ w.user > 0
        /\ \A m \in DOMAIN ManagersOf[events'[w.event].trip] :
             m < w.user => ManagersOf[events'[w.event].trip][m] \in rows'[w.event]
  BY DEF Knows, Grows
<1>5. w.alerts \subseteq DOMAIN events'
  BY DEF Knows, Grows
<1> QED
  BY <1>1, <1>2, <1>3, <1>4, <1>5 DEF Knows

\* No deviation is new or opened again, and a new mark follows the rows.
Keeps ==
  /\ DOMAIN events' = DOMAIN events
  /\ \A e \in DOMAIN events :
       /\ events'[e].trip = events[e].trip
       /\ events'[e].occurrence = events[e].occurrence
       /\ events[e].resolved => events'[e].resolved
       /\ rows[e] \subseteq rows'[e]
       /\ events'[e].notified =>
            \/ events[e].notified
            \/ \A m \in DOMAIN ManagersOf[events[e].trip] :
                 ManagersOf[events[e].trip][m] \in rows'[e]

\* A pass that goes on finds no open deviation only of a trip that has none.
GoesOn(p) ==
  /\ Knows(pass[p])'
  /\ \A t \in Trips :
       FoundNone(pass'[p], t) => FoundNone(pass[p], t) \/ Unresolved(t) = {}

LEMMA KeptInv ==
  ASSUME DeviationAssumption, DeviationInv, TypeOK', Keeps,
         \A p \in Passes : pass'[p] = pass[p] \/ GoesOn(p)
  PROVE  DeviationInv'
<1>1. TypeOK /\ Grows
  BY DEF DeviationInv, Keeps, Grows
<1>2. ASSUME NEW p \in Passes PROVE Knows(pass[p])'
  <2>1. CASE pass'[p] = pass[p]
    <3>1. PICK w \in PassRecord : w = pass[p]
      BY PassTypes
    <3>2. Knows(w)
      BY <3>1, PassTypes
    <3>3. Knows(w)'
      BY <1>1, <3>2, KnowsStays
    <3> QED
      BY <2>1, <3>1, <3>3 DEF Knows
  <2> QED
    BY <2>1 DEF GoesOn
<1>3. ASSUME NEW t \in Trips PROVE Few(t)'
  <2>1. Unresolved(t)' \subseteq Unresolved(t)
    BY DEF Keeps, Unresolved, OfTrip
  <2>2. /\ IsFiniteSet(Unresolved(t)) /\ Cardinality(Unresolved(t)) \in Nat
        /\ Cardinality(Unresolved(t)') <= Cardinality(Unresolved(t))
        /\ Cardinality(Unresolved(t)') \in Nat
    BY <1>1, <2>1, DeviationsAreFinite, FS_Subset, FS_CardinalityType
  <2>3. /\ IsFiniteSet(Openers(t)) /\ Cardinality(Openers(t)) \in Nat
        /\ Cardinality(Passes) \in Nat
    BY OpenersAreFinite
  <2>4. /\ Cardinality(Openers(t)') <= Cardinality(Passes) /\ Cardinality(Openers(t)') \in Nat
    <3>1. Openers(t)' \subseteq Passes /\ IsFiniteSet(Passes)
      BY DEF Openers, DeviationAssumption
    <3> QED
      BY <3>1, FS_Subset, FS_CardinalityType
  <2>5. CASE Unresolved(t) = {}
    <3>1. Cardinality(Unresolved(t)') = 0
      BY <2>1, <2>5, FS_EmptySet
    <3> QED
      BY <2>4, <3>1 DEF Few
  <2>6. CASE Unresolved(t) # {}
    <3>1. Openers(t)' \subseteq Openers(t)
      BY <2>6 DEF Openers, GoesOn
    <3>2. Cardinality(Openers(t)') <= Cardinality(Openers(t))
      BY <2>3, <3>1, FS_Subset
    <3>3. Few(t)
      BY DEF DeviationInv
    <3> QED
      BY <2>2, <2>3, <2>4, <3>2, <3>3 DEF Few
  <2> QED
    BY <2>5, <2>6
<1>4. ASSUME NEW e \in DOMAIN events' PROVE Numbered(e)'
  <2>1. e \in DOMAIN events /\ Numbered(e)
    BY DEF DeviationInv, Keeps
  <2>2. OfTrip(events[e].trip)' = {d \in DOMAIN events : events[d].trip = events[e].trip}
    BY <2>1 DEF Keeps, OfTrip
  <2>3. Place(e)' = Place(e)
    BY <2>1, <2>2 DEF Place, OfTrip, Keeps
  <2> QED
    BY <2>1, <2>3 DEF Numbered, Keeps
<1>5. AlertedMeansSent'
  BY DEF AlertedMeansSent, DeviationInv, Keeps
<1> QED
  BY <1>2, <1>3, <1>4, <1>5 DEF DeviationInv

\* A pass goes on to w, and nothing but the faults changes.
LEMMA PassMoves ==
  ASSUME DeviationAssumption, DeviationInv, NEW p \in Passes, NEW w \in PassRecord, Knows(w),
         \A t \in Trips : FoundNone(w, t) => FoundNone(pass[p], t) \/ Unresolved(t) = {},
         pass' = [pass EXCEPT ![p] = w], UNCHANGED <<running, off, events, rows, drifts>>,
         overlaps' \in 0..MaxOverlaps, faults' \in 0..MaxFaults
  PROVE  DeviationInv'
<1>1. TypeOK'
  BY DEF TypeOK, DeviationInv
<1>2. \A q \in Passes : pass'[q] = IF q = p THEN w ELSE pass[q]
  BY DEF DeviationInv, TypeOK
<1>3. Keeps
  BY DEF Keeps
<1>4. Knows(w)'
  BY DEF Knows, OfTrip
<1>5. GoesOn(p)
  BY <1>2, <1>4 DEF GoesOn, Knows
<1> QED
  BY <1>1, <1>2, <1>3, <1>5, KeptInv

-----------------------------------------------------------------------------
(* The steps that leave the deviations alone. *)

LEMMA EventTypes ==
  ASSUME DeviationInv, NEW e \in DOMAIN events
  PROVE  events[e] \in Event
BY DEF DeviationInv, TypeOK

LEMMA RestStays ==
  ASSUME DeviationInv
  PROVE  overlaps \in 0..MaxOverlaps /\ faults \in 0..MaxFaults
BY DEF DeviationInv, TypeOK

\* Trips leave their routes, return to them and end.
LEMMA TripsInv ==
  ASSUME DeviationAssumption, DeviationInv, NEW t \in Trips,
         LeaveRoute(t) \/ ReturnToRoute(t) \/ CompleteTrip(t)
  PROVE  DeviationInv'
<1> USE DEF DeviationInv
<1>1. /\ running' \in SUBSET Trips /\ off' \in SUBSET Trips /\ drifts' \in 0..MaxDrifts
      /\ UNCHANGED <<events, pass, rows, overlaps, faults>>
  <2>1. CASE LeaveRoute(t)
    BY <2>1 DEF LeaveRoute, TypeOK, DeviationAssumption
  <2>2. CASE ReturnToRoute(t)
    BY <2>2 DEF ReturnToRoute, TypeOK
  <2>3. CASE CompleteTrip(t)
    BY <2>3 DEF CompleteTrip, TypeOK
  <2> QED
    BY <2>1, <2>2, <2>3
<1>2. TypeOK'
  BY <1>1 DEF TypeOK
<1>3. Keeps
  BY <1>1 DEF Keeps
<1> QED
  BY <1>1, <1>2, <1>3, KeptInv

LEMMA BeginInv ==
  ASSUME DeviationAssumption, DeviationInv, NEW p \in Passes, Begin(p)
  PROVE  DeviationInv'
<1> DEFINE v == pass[p]
           w == [v EXCEPT !.at = "monitor", !.todo = running, !.off = off]
<1>1. v \in PassRecord /\ Knows(v)
  BY PassTypes
<1>2. pass' = [pass EXCEPT ![p] = w] /\ UNCHANGED <<running, off, events, rows, drifts, faults>>
  BY DEF Begin
<1>3. overlaps' \in 0..MaxOverlaps
  BY RestStays DEF Begin, DeviationAssumption
<1> HIDE DEF v
<1>4. w \in PassRecord /\ w.at = "monitor" /\ w.alerts = v.alerts
  BY <1>1 DEF PassRecord, Points, DeviationInv, TypeOK
<1> HIDE DEF w
<1>5. Knows(w) /\ \A t : ~FoundNone(w, t)
  BY <1>1, <1>4 DEF Knows, FoundNone
<1> QED
  BY <1>2, <1>3, <1>4, <1>5, PassMoves, RestStays

LEMMA FindOpenInv ==
  ASSUME DeviationAssumption, DeviationInv, NEW p \in Passes, FindOpen(p)
  PROVE  DeviationInv'
<1> DEFINE v == pass[p]
<1>1. v \in PassRecord /\ Knows(v)
  BY PassTypes
<1>2. PICK t \in v.todo :
        pass' = [pass EXCEPT ![p].at = "found", ![p].todo = @ \ {t},
                             ![p].trip = t, ![p].open = GetOpenDeviationByTrip(t)]
  BY DEF FindOpen
<1> DEFINE o == GetOpenDeviationByTrip(t)
           w == [v EXCEPT !.at = "found", !.todo = @ \ {t}, !.trip = t, !.open = o]
<1>3. pass' = [pass EXCEPT ![p] = w]
  BY <1>1, <1>2 DEF PassRecord
<1>4. t \in Trips
  BY <1>1 DEF PassRecord
<1>5. UNCHANGED <<running, off, events, rows, drifts, overlaps, faults>>
  BY DEF FindOpen
<1>6. /\ o \in Nat /\ (o = 0 => Unresolved(t) = {})
      /\ o # 0 => o \in DOMAIN events
  BY OpenIsUnresolved, DeviationsAreFinite DEF DeviationInv
<1> HIDE DEF v, o
<1>7. w \in PassRecord /\ w.at = "found" /\ w.trip = t /\ w.open = o /\ w.alerts = v.alerts
  BY <1>1, <1>4, <1>6 DEF PassRecord, Points
<1> HIDE DEF w
<1>8. Knows(w)
  BY <1>1, <1>4, <1>6, <1>7 DEF Knows
<1>9. \A s : FoundNone(w, s) => Unresolved(s) = {}
  BY <1>6, <1>7 DEF FoundNone
<1> QED
  BY <1>3, <1>5, <1>7, <1>8, <1>9, PassMoves, RestStays

\* Back to the trips that are left.
LEMMA NextTripRecord ==
  ASSUME DeviationInv, NEW p \in Passes
  PROVE  \E w \in PassRecord : /\ NextTrip(p) = [pass EXCEPT ![p] = w]
                               /\ Knows(w) /\ w.at = "monitor" /\ w.alerts = pass[p].alerts
                               /\ \A t : ~FoundNone(w, t)
<1> DEFINE v == pass[p]
           w == [v EXCEPT !.at = "monitor", !.trip = None, !.open = 0, !.count = 0]
<1>1. v \in PassRecord /\ Knows(v)
  BY PassTypes
<1>2. NextTrip(p) = [pass EXCEPT ![p] = w]
  BY <1>1 DEF NextTrip, PassRecord
<1> HIDE DEF v
<1>3. w \in PassRecord /\ w.at = "monitor" /\ w.alerts = v.alerts
  BY <1>1 DEF PassRecord, Points
<1> HIDE DEF w
<1>4. Knows(w) /\ \A t : ~FoundNone(w, t)
  BY <1>1, <1>3 DEF Knows, FoundNone
<1> QED
  BY <1>2, <1>3, <1>4 DEF v

LEMMA NothingNewInv ==
  ASSUME DeviationAssumption, DeviationInv, NEW p \in Passes, NothingNew(p)
  PROVE  DeviationInv'
BY NextTripRecord, PassMoves, RestStays DEF NothingNew

LEMMA CountEarlierInv ==
  ASSUME DeviationAssumption, DeviationInv, NEW p \in Passes, CountEarlier(p)
  PROVE  DeviationInv'
<1> DEFINE v == pass[p]
           n == CountTripDeviations(v.trip)
           w == [v EXCEPT !.at = "counted", !.count = n]
<1>1. v \in PassRecord /\ Knows(v)
  BY PassTypes
<1>2. v.at = "found" /\ v.open = 0
  BY DEF CountEarlier, HasOpen
<1>3. /\ pass' = [pass EXCEPT ![p] = w]
      /\ UNCHANGED <<running, off, events, rows, drifts, overlaps, faults>>
  BY <1>1 DEF CountEarlier, PassRecord
<1>4. n \in Nat /\ n = Cardinality(OfTrip(v.trip))
  BY DeviationsAreFinite DEF CountTripDeviations, DeviationInv
<1> HIDE DEF n
<1>5. w \in PassRecord /\ w.at = "counted" /\ w.count = n /\ w.trip = v.trip /\ w.alerts = v.alerts
  <2> HIDE DEF v
  <2> QED
    BY <1>1, <1>4 DEF PassRecord, Points
<1> HIDE DEF w
<1>6. Knows(w)
  BY <1>1, <1>2, <1>4, <1>5 DEF Knows
<1>7. \A t : FoundNone(w, t) => FoundNone(v, t)
  BY <1>2, <1>5 DEF FoundNone
<1> QED
  BY <1>3, <1>5, <1>6, <1>7, PassMoves, RestStays

LEMMA WatchedInv ==
  ASSUME DeviationAssumption, DeviationInv, NEW p \in Passes, Watched(p)
  PROVE  DeviationInv'
<1> DEFINE v == pass[p]
           w == [v EXCEPT !.at = "watched"]
<1>1. v \in PassRecord /\ Knows(v)
  BY PassTypes
<1>2. /\ pass' = [pass EXCEPT ![p] = w]
      /\ UNCHANGED <<running, off, events, rows, drifts, overlaps, faults>>
  BY DEF Watched
<1> HIDE DEF v
<1>3. w \in PassRecord /\ w.at = "watched" /\ w.alerts = v.alerts
  BY <1>1 DEF PassRecord, Points
<1> HIDE DEF w
<1>4. Knows(w) /\ \A t : ~FoundNone(w, t)
  BY <1>1, <1>3 DEF Knows, FoundNone
<1> QED
  BY <1>2, <1>3, <1>4, PassMoves, RestStays

LEMMA ListAlertsInv ==
  ASSUME DeviationAssumption, DeviationInv, NEW p \in Passes, ListAlerts(p)
  PROVE  DeviationInv'
<1> DEFINE v == pass[p]
           L == ListUnnotifiedDeviationsAboveThreshold
           w == [v EXCEPT !.at = "alerts", !.alerts = L]
<1>1. v \in PassRecord /\ Knows(v)
  BY PassTypes
<1>2. /\ pass' = [pass EXCEPT ![p] = w]
      /\ UNCHANGED <<running, off, events, rows, drifts, overlaps, faults>>
  BY <1>1 DEF ListAlerts, PassRecord
<1>3. L \subseteq DOMAIN events
  BY DEF ListUnnotifiedDeviationsAboveThreshold
<1>4. L \in SUBSET Nat
  BY <1>3, DeviationsAreFinite DEF DeviationInv
<1> HIDE DEF v, L
<1>5. w \in PassRecord /\ w.at = "alerts" /\ w.alerts = L
  BY <1>1, <1>4 DEF PassRecord, Points
<1> HIDE DEF w
<1>6. Knows(w) /\ \A t : ~FoundNone(w, t)
  BY <1>3, <1>5 DEF Knows, FoundNone
<1> QED
  BY <1>2, <1>5, <1>6, PassMoves, RestStays

LEMMA NextAlertInv ==
  ASSUME DeviationAssumption, DeviationInv, NEW p \in Passes, NextAlert(p)
  PROVE  DeviationInv'
<1> DEFINE v == pass[p]
           e == Min(v.alerts)
           w == [v EXCEPT !.at = "tell", !.event = e, !.alerts = @ \ {e}, !.user = 1]
<1>1. v \in PassRecord /\ Knows(v)
  BY PassTypes
<1>2. /\ pass' = [pass EXCEPT ![p] = w]
      /\ UNCHANGED <<running, off, events, rows, drifts, overlaps, faults>>
  BY <1>1 DEF NextAlert, PassRecord
<1>3. v.alerts # {} /\ v.alerts \in SUBSET Nat
  BY <1>1 DEF NextAlert, PassRecord
<1>4. e \in v.alerts /\ e \in Nat
  BY <1>3, LeastExists
<1>5. e \in DOMAIN events /\ events[e].trip \in Trips
  <2>1. e \in DOMAIN events
    BY <1>1, <1>4 DEF Knows
  <2> QED
    BY <2>1, EventTypes DEF Event
<1>6. \A m \in DOMAIN ManagersOf[events[e].trip] : ~(m < 1)
  BY <1>5 DEF DeviationAssumption
<1> HIDE DEF v, e
<1>7. w \in PassRecord /\ w.at = "tell" /\ w.event = e /\ w.user = 1 /\ w.alerts = v.alerts \ {e}
  BY <1>1, <1>4 DEF PassRecord, Points
<1> HIDE DEF w
<1>8. Knows(w) /\ \A t : ~FoundNone(w, t)
  BY <1>1, <1>5, <1>6, <1>7 DEF Knows, FoundNone
<1> QED
  BY <1>2, <1>7, <1>8, PassMoves, RestStays

LEMMA FinishInv ==
  ASSUME DeviationAssumption, DeviationInv, NEW p \in Passes, Finish(p)
  PROVE  DeviationInv'
BY IdleKnows, PassMoves, RestStays DEF Finish

LEMMA BreakInv ==
  ASSUME DeviationAssumption, DeviationInv, NEW p \in Passes, Break(p)
  PROVE  DeviationInv'
<1>1. faults' \in 0..MaxFaults
  BY RestStays DEF Break, DeviationAssumption
<1> QED
  BY <1>1, IdleKnows, PassMoves, RestStays DEF Break

-----------------------------------------------------------------------------
(* The steps that write rows and deviations. *)

\* One manager more has his row, or the pass ends.
LEMMA TellManagerInv ==
  ASSUME DeviationAssumption, DeviationInv, NEW p \in Passes, TellManager(p)
  PROVE  DeviationInv'
<1> DEFINE v == pass[p]
           e == v.event
           M == ManagersOf[events[e].trip]
           w == [v EXCEPT !.user = @ + 1]
<1>1. v \in PassRecord /\ Knows(v) /\ v.at = "tell" /\ v.user <= Len(M)
  BY PassTypes DEF TellManager, Managers
<1>2. PICK report \in Send("bot") :
        /\ rows' = IF report.status # "SUCCESS" THEN rows
                   ELSE [rows EXCEPT ![e] = @ \cup {M[v.user]}]
        /\ faults' = IF report.err = "none" THEN faults ELSE faults + 1
        /\ faults' <= MaxFaults
        /\ pass' = IF ignoreNotificationSendError(report.err)
                   THEN [pass EXCEPT ![p] = w] ELSE [pass EXCEPT ![p] = Idle]
  BY DEF TellManager, Managers
<1>3. ignoreNotificationSendError(report.err) => report.status = "SUCCESS"
  BY DEF Send, SendMessage, InsertNotification, Panicked, DeliveryStatus,
         ignoreNotificationSendError
<1>4. UNCHANGED <<running, off, events, drifts, overlaps>>
  BY DEF TellManager
<1>5. faults' \in 0..MaxFaults
  BY <1>2, RestStays DEF DeviationAssumption
<1>6. e \in 1..Len(rows) /\ rows \in Seq(SUBSET Users) /\ e \in DOMAIN events
      /\ events[e].trip \in Trips /\ DOMAIN rows = DOMAIN events
  <2>1. e \in DOMAIN events
    BY <1>1 DEF Knows
  <2>2. events[e].trip \in Trips
    BY <2>1, EventTypes DEF Event
  <2> QED
    BY <2>1, <2>2, DeviationsAreFinite DEF DeviationInv, TypeOK
<1>7. M \in Seq(Users) /\ v.user \in Nat
  BY <1>1, <1>6 DEF DeviationAssumption, PassRecord
<1>8. v.user > 0 /\ M[v.user] \in Users
  BY <1>1, <1>7 DEF Knows
<1> DEFINE new == rows[e] \cup {M[v.user]}
<1>9. /\ rows' \in Seq(SUBSET Users) /\ Len(rows') = Len(rows)
      /\ \A d \in DOMAIN rows : rows[d] \subseteq rows'[d]
      /\ report.status = "SUCCESS" => M[v.user] \in rows'[e]
  <2>1. new \in SUBSET Users
    BY <1>6, <1>8
  <2>2. rows' = rows \/ rows' = [rows EXCEPT ![e] = new]
    BY <1>2
  <2>3. report.status = "SUCCESS" => rows' = [rows EXCEPT ![e] = new]
    BY <1>2
  <2>4. rows[e] \subseteq new /\ M[v.user] \in new
    OBVIOUS
  <2> HIDE DEF new, M, v, e
  <2>5. LET x == [rows EXCEPT ![e] = new]
        IN  /\ x \in Seq(SUBSET Users) /\ Len(x) = Len(rows)
            /\ x[e] = new /\ \A d \in DOMAIN rows : d # e => x[d] = rows[d]
    BY <1>6, <2>1, ExceptSeq
  <2> QED
    BY <1>6, <2>2, <2>3, <2>4, <2>5
<1>10. w \in PassRecord /\ w.at = "tell" /\ w.event = e /\ w.user = v.user + 1
       /\ w.alerts = v.alerts
  <2> HIDE DEF v
  <2> QED
    BY <1>1 DEF PassRecord, Points
<1>11. pass' \in [Passes -> PassRecord]
       /\ \A q \in Passes : pass'[q] = IF q # p THEN pass[q]
            ELSE IF ignoreNotificationSendError(report.err) THEN w ELSE Idle
  BY <1>2, <1>10, IdleKnows DEF DeviationInv, TypeOK
<1>12. TypeOK'
  BY <1>4, <1>5, <1>9, <1>11 DEF DeviationInv, TypeOK
<1>13. Keeps
  BY <1>4, <1>6, <1>9 DEF Keeps
<1>14. GoesOn(p)
  <2>1. CASE ignoreNotificationSendError(report.err)
    <3>1. pass'[p] = w
      BY <1>11, <2>1
    <3>2. \A m \in DOMAIN M : m < v.user + 1 => m < v.user \/ m = v.user
      BY <1>7
    <3>3. \A m \in DOMAIN M : m < v.user => M[m] \in rows[e]
      BY <1>1 DEF Knows
    <3>4. \A m \in DOMAIN M : m < v.user + 1 => M[m] \in rows'[e]
      BY <1>3, <1>6, <1>9, <2>1, <3>2, <3>3
    <3>5. v.alerts \subseteq DOMAIN events
      BY <1>1 DEF Knows
    <3>6. v.user + 1 > 0
      BY <1>7
    <3> HIDE DEF v, e, w
    <3>7. Knows(pass[p])'
      BY <1>4, <1>6, <1>10, <3>1, <3>4, <3>5, <3>6 DEF Knows
    <3> QED
      BY <1>10, <3>1, <3>7 DEF GoesOn, FoundNone
  <2>2. CASE ~ignoreNotificationSendError(report.err)
    <3>1. pass'[p] = Idle
      BY <1>11, <2>2
    <3> QED
      BY <3>1, IdleKnows DEF GoesOn, Knows, Idle
  <2> QED
    BY <2>1, <2>2
<1> QED
  BY <1>11, <1>12, <1>13, <1>14, KeptInv

\* Deviation e is rewritten as x: it stays of its trip, keeps its number, is not
\* opened again, and is marked only if all managers have their rows.
Rewrites(e, x) ==
  /\ e \in DOMAIN events /\ x \in Event /\ events' = [events EXCEPT ![e] = x]
  /\ x.trip = events[e].trip /\ x.occurrence = events[e].occurrence
  /\ events[e].resolved => x.resolved
  /\ x.notified =>
       \/ events[e].notified
       \/ \A m \in DOMAIN ManagersOf[events[e].trip] : ManagersOf[events[e].trip][m] \in rows[e]

LEMMA RewrittenEvents ==
  ASSUME TypeOK, NEW e, NEW x, Rewrites(e, x), UNCHANGED rows
  PROVE  events' \in Seq(Event) /\ Len(events') = Len(events) /\ Keeps
<1>1. events \in Seq(Event) /\ DOMAIN events = 1..Len(events)
  BY DeviationsAreFinite DEF TypeOK
<1>2. e \in 1..Len(events) /\ x \in Event /\ events' = [events EXCEPT ![e] = x]
  BY <1>1 DEF Rewrites
<1>3. events' \in Seq(Event) /\ Len(events') = Len(events)
      /\ \A d \in 1..Len(events) : events'[d] = IF d = e THEN x ELSE events[d]
  BY <1>1, <1>2, ExceptSeq
<1>4. DOMAIN events' = DOMAIN events
  BY <1>1, <1>2
<1>5. ASSUME NEW d \in DOMAIN events
      PROVE  /\ events'[d].trip = events[d].trip
             /\ events'[d].occurrence = events[d].occurrence
             /\ events[d].resolved => events'[d].resolved
             /\ rows[d] \subseteq rows'[d]
             /\ events'[d].notified =>
                  \/ events[d].notified
                  \/ \A m \in DOMAIN ManagersOf[events[d].trip] :
                       ManagersOf[events[d].trip][m] \in rows'[d]
  <2>1. CASE d = e
    BY <1>1, <1>3, <2>1 DEF Rewrites
  <2>2. CASE d # e
    BY <1>1, <1>3, <2>2
  <2> QED
    BY <2>1, <2>2
<1> QED
  BY <1>3, <1>4, <1>5 DEF Keeps

\* A deviation has lasted.
LEMMA LastInv ==
  ASSUME DeviationAssumption, DeviationInv, NEW e \in DOMAIN events, Last(e)
  PROVE  DeviationInv'
<1> DEFINE v == events[e]
           x == [v EXCEPT !.lasted = TRUE]
<1>1. v \in Event
  BY DEF DeviationInv, TypeOK
<1>2. events' = [events EXCEPT ![e] = x]
      /\ UNCHANGED <<running, off, pass, rows, drifts, overlaps, faults>>
  BY DEF Last
<1> HIDE DEF v
<1>3. x \in Event /\ x.trip = v.trip /\ x.occurrence = v.occurrence /\ x.resolved = v.resolved
      /\ x.notified = v.notified
  BY <1>1 DEF Event
<1> HIDE DEF x
<1>4. Rewrites(e, x)
  BY <1>2, <1>3 DEF Rewrites, v
<1>5. events' \in Seq(Event) /\ Len(events') = Len(events) /\ Keeps
  BY <1>2, <1>4, RewrittenEvents DEF DeviationInv
<1>6. TypeOK'
  BY <1>2, <1>5 DEF DeviationInv, TypeOK
<1> QED
  BY <1>2, <1>5, <1>6, KeptInv

\* The open deviation that was found is resolved.
LEMMA UpdateDurationInv ==
  ASSUME DeviationAssumption, DeviationInv, NEW p \in Passes, UpdateDeviationDuration(p)
  PROVE  DeviationInv'
<1> DEFINE e == pass[p].open
           v == events[e]
           x == [v EXCEPT !.resolved = TRUE]
<1>1. PICK w \in PassRecord : /\ NextTrip(p) = [pass EXCEPT ![p] = w]
                              /\ Knows(w) /\ \A t : ~FoundNone(w, t)
  BY NextTripRecord
<1>2. /\ pass' = [pass EXCEPT ![p] = w] /\ events' = [events EXCEPT ![e] = x]
      /\ UNCHANGED <<running, off, rows, drifts, overlaps, faults>>
  BY <1>1 DEF UpdateDeviationDuration
<1>3. e \in DOMAIN events
  BY PassTypes DEF Knows, UpdateDeviationDuration, HasOpen
<1>4. v \in Event
  BY <1>3 DEF DeviationInv, TypeOK
<1> HIDE DEF e, v
<1>5. x \in Event /\ x.trip = v.trip /\ x.occurrence = v.occurrence /\ x.resolved
      /\ x.notified = v.notified
  BY <1>4 DEF Event
<1> HIDE DEF x
<1>6. Rewrites(e, x)
  BY <1>2, <1>3, <1>5 DEF Rewrites, v
<1>7. events' \in Seq(Event) /\ Len(events') = Len(events) /\ Keeps
  BY <1>2, <1>6, RewrittenEvents DEF DeviationInv
<1>8. pass' \in [Passes -> PassRecord]
      /\ \A q \in Passes : pass'[q] = IF q = p THEN w ELSE pass[q]
  BY <1>2 DEF DeviationInv, TypeOK
<1>9. TypeOK'
  BY <1>2, <1>7, <1>8 DEF DeviationInv, TypeOK
<1>10. Knows(w)'
  BY <1>1, <1>7, <1>9, KnowsStays DEF DeviationInv, Keeps, Grows
<1>11. GoesOn(p)
  BY <1>1, <1>8, <1>10 DEF GoesOn, Knows
<1> QED
  BY <1>7, <1>8, <1>9, <1>11, KeptInv

\* The managers have all been told.
LEMMA MarkNotifiedInv ==
  ASSUME DeviationAssumption, DeviationInv, NEW p \in Passes, MarkDeviationTelegramNotified(p)
  PROVE  DeviationInv'
<1> DEFINE u == pass[p]
           e == u.event
           v == events[e]
           M == ManagersOf[v.trip]
           x == [v EXCEPT !.notified = TRUE]
           w == [u EXCEPT !.at = "alerts", !.event = 0, !.user = 0]
<1>1. u \in PassRecord /\ Knows(u) /\ u.at = "tell" /\ u.user > Len(M)
  BY PassTypes DEF MarkDeviationTelegramNotified, Managers
<1>2. /\ pass' = [pass EXCEPT ![p] = w] /\ events' = [events EXCEPT ![e] = x]
      /\ UNCHANGED <<running, off, rows, drifts, overlaps, faults>>
  BY <1>1 DEF MarkDeviationTelegramNotified, PassRecord
<1>3. e \in DOMAIN events /\ v \in Event
  BY <1>1 DEF Knows, DeviationInv, TypeOK
<1>4. \A m \in DOMAIN M : M[m] \in rows[e]
  <2>1. M \in Seq(Users) /\ u.user \in Nat
    BY <1>1, <1>3 DEF DeviationAssumption, Event, PassRecord
  <2>2. \A m \in DOMAIN M : m < u.user
    BY <1>1, <2>1
  <2> QED
    BY <1>1, <2>2 DEF Knows
<1>5. u.alerts \subseteq DOMAIN events
  BY <1>1 DEF Knows
<1> HIDE DEF e, v
<1>6. x \in Event /\ x.trip = v.trip /\ x.occurrence = v.occurrence /\ x.resolved = v.resolved
  BY <1>3 DEF Event
<1> HIDE DEF x
<1>7. Rewrites(e, x)
  BY <1>2, <1>3, <1>4, <1>6 DEF Rewrites, v
<1>8. events' \in Seq(Event) /\ Len(events') = Len(events) /\ Keeps
  BY <1>2, <1>7, RewrittenEvents DEF DeviationInv
<1>9. w \in PassRecord /\ w.at = "alerts" /\ w.alerts = u.alerts
  <2> HIDE DEF u
  <2> QED
    BY <1>1 DEF PassRecord, Points
<1> HIDE DEF w
<1>10. pass' \in [Passes -> PassRecord]
       /\ \A q \in Passes : pass'[q] = IF q = p THEN w ELSE pass[q]
  BY <1>2, <1>9 DEF DeviationInv, TypeOK
<1>11. TypeOK'
  BY <1>2, <1>8, <1>10 DEF DeviationInv, TypeOK
<1>12. GoesOn(p)
  BY <1>5, <1>8, <1>9, <1>10 DEF GoesOn, Knows, FoundNone, Keeps
<1> QED
  BY <1>8, <1>10, <1>11, <1>12, KeptInv

\* A new deviation takes the number after those that were counted, at least as
\* many as it finds, and its pass is no longer one that may open a deviation.
LEMMA CreateEventInv ==
  ASSUME DeviationAssumption, DeviationInv, NEW p \in Passes, CreateDeviationEvent(p)
  PROVE  DeviationInv'
<1> DEFINE u == pass[p]
           t == u.trip
           x == New(t, u.count + 1)
           n == Len(events) + 1
<1>1. u \in PassRecord /\ Knows(u) /\ u.at = "counted"
  BY PassTypes DEF CreateDeviationEvent
<1>2. PICK w \in PassRecord : /\ NextTrip(p) = [pass EXCEPT ![p] = w]
                              /\ Knows(w) /\ \A s : ~FoundNone(w, s)
  BY NextTripRecord
<1>3. /\ pass' = [pass EXCEPT ![p] = w]
      /\ events' = Append(events, x) /\ rows' = Append(rows, {})
      /\ UNCHANGED <<running, off, drifts, overlaps, faults>>
  BY <1>2 DEF CreateDeviationEvent
<1>4. t \in Trips /\ u.count \in Nat /\ u.count <= Cardinality(OfTrip(t)) /\ FoundNone(u, t)
  BY <1>1 DEF Knows, PassRecord, FoundNone
<1>5. x \in Event /\ x.trip = t /\ x.occurrence = u.count + 1 /\ ~x.resolved /\ ~x.notified
  <2> HIDE DEF u, t
  <2> QED
    BY <1>4 DEF New, Event
<1> HIDE DEF x
<1>6. events \in Seq(Event) /\ Len(events) \in Nat /\ DOMAIN events = 1..Len(events)
      /\ rows \in Seq(SUBSET Users) /\ Len(rows) = Len(events) /\ DOMAIN rows = DOMAIN events
  BY DeviationsAreFinite DEF DeviationInv, TypeOK
<1>7. /\ events' \in Seq(Event) /\ Len(events') = n /\ DOMAIN events' = 1..n
      /\ events'[n] = x /\ \A d \in DOMAIN events : events'[d] = events[d]
  BY <1>3, <1>5, <1>6
<1>8. rows' \in Seq(SUBSET Users) /\ Len(rows') = n
      /\ \A d \in DOMAIN rows : rows'[d] = rows[d]
  BY <1>3, <1>6
<1>9. DOMAIN events' = DOMAIN events \cup {n} /\ n \notin DOMAIN events
      /\ \A d \in DOMAIN events : d < n /\ ~(n <= d) /\ d \in Nat
  BY <1>6, <1>7
<1>10. n \in Nat /\ n <= n
  BY <1>6
<1> HIDE DEF n
<1>11. pass' \in [Passes -> PassRecord]
       /\ \A q \in Passes : pass'[q] = IF q = p THEN w ELSE pass[q]
  BY <1>3 DEF DeviationInv, TypeOK
<1>12. TypeOK'
  BY <1>3, <1>7, <1>8, <1>11 DEF DeviationInv, TypeOK
<1>13. Grows
  BY <1>6, <1>7, <1>8, <1>9 DEF Grows
<1>14. ASSUME NEW q \in Passes PROVE Knows(pass[q])'
  <2>1. PICK y \in PassRecord : y = pass'[q] /\ Knows(y)
    BY <1>2, <1>11, PassTypes
  <2>2. Knows(y)'
    BY <1>12, <1>13, <2>1, KnowsStays DEF DeviationInv
  <2> QED
    BY <2>1, <2>2 DEF Knows
<1>15. ASSUME NEW s
       PROVE  OfTrip(s)' = IF s = t THEN OfTrip(s) \cup {n} ELSE OfTrip(s)
  BY <1>5, <1>7, <1>9 DEF OfTrip
<1>16. ASSUME NEW s
       PROVE  Unresolved(s)' = IF s = t THEN Unresolved(s) \cup {n} ELSE Unresolved(s)
  BY <1>5, <1>7, <1>9, <1>15 DEF Unresolved, OfTrip
<1>17. ASSUME NEW s \in Trips PROVE Few(s)'
  <2>1. Few(s) /\ IsFiniteSet(Unresolved(s)) /\ Cardinality(Unresolved(s)) \in Nat
    BY DeviationsAreFinite DEF DeviationInv
  <2>2. /\ IsFiniteSet(Openers(s)) /\ Cardinality(Openers(s)) \in Nat
        /\ Cardinality(Passes) \in Nat
    BY OpenersAreFinite
  <2>3. Openers(s)' = Openers(s) \ {p}
    BY <1>2, <1>11 DEF Openers
  <2>4. CASE s = t
    <3>1. Unresolved(s)' = Unresolved(s) \cup {n} /\ n \notin Unresolved(s)
      BY <1>9, <1>16, <2>4 DEF Unresolved, OfTrip
    <3>2. Cardinality(Unresolved(s)') = Cardinality(Unresolved(s)) + 1
      BY <2>1, <3>1, FS_AddElement
    <3>3. p \in Openers(s)
      BY <1>4, <2>4 DEF Openers
    <3>4. Cardinality(Openers(s)') = Cardinality(Openers(s)) - 1
      BY <2>2, <2>3, <3>3, FS_RemoveElement
    <3> QED
      BY <2>1, <2>2, <3>2, <3>4 DEF Few
  <2>5. CASE s # t
    <3>1. Unresolved(s)' = Unresolved(s)
      BY <1>16, <2>5
    <3>2. Cardinality(Openers(s)') <= Cardinality(Openers(s)) /\ Cardinality(Openers(s)') \in Nat
      BY <2>2, <2>3, FS_Subset, FS_CardinalityType
    <3> QED
      BY <2>1, <2>2, <3>1, <3>2 DEF Few
  <2> QED
    BY <2>4, <2>5
<1>18. ASSUME NEW d \in DOMAIN events' PROVE Numbered(d)'
  <2>1. CASE d \in DOMAIN events
    <3>1. PICK s : s = events[d].trip /\ s = events'[d].trip
                   /\ events'[d].occurrence = events[d].occurrence
      BY <1>7, <2>1
    <3>2. {k \in OfTrip(s)' : k <= d} = {k \in OfTrip(s) : k <= d}
      BY <1>9, <1>15, <2>1
    <3>3. Place(d)' = Place(d)
      BY <3>1, <3>2 DEF Place
    <3> QED
      BY <2>1, <3>1, <3>3 DEF Numbered, DeviationInv
  <2>2. CASE d = n
    <3>1. PICK s : s = t /\ s = events'[d].trip
      BY <1>5, <1>7, <2>2
    <3>2. {k \in OfTrip(s)' : k <= d} = OfTrip(s) \cup {n}
      <4>1. \A k \in OfTrip(s) : k <= n
        BY <1>9, <1>10 DEF OfTrip
      <4> QED
        BY <1>10, <1>15, <2>2, <3>1, <4>1
    <3>3. Place(d)' = Cardinality(OfTrip(s) \cup {n})
      BY <3>1, <3>2 DEF Place
    <3>4. IsFiniteSet(OfTrip(s)) /\ n \notin OfTrip(s) /\ Cardinality(OfTrip(s)) \in Nat
      BY <1>9, DeviationsAreFinite DEF DeviationInv, OfTrip
    <3>5. Place(d)' = Cardinality(OfTrip(s)) + 1
      BY <3>3, <3>4, FS_AddElement
    <3>6. events'[d].occurrence = u.count + 1
      BY <1>5, <1>7, <2>2
    <3> HIDE DEF u, t
    <3> QED
      BY <1>4, <3>1, <3>4, <3>5, <3>6 DEF Numbered
  <2> QED
    BY <1>9, <2>1, <2>2
<1>19. AlertedMeansSent'
  <2> SUFFICES ASSUME NEW d \in DOMAIN events', events'[d].notified
               PROVE  \A m \in DOMAIN ManagersOf[events'[d].trip] :
                        ManagersOf[events'[d].trip][m] \in rows'[d]
    BY DEF AlertedMeansSent
  <2>1. d \in DOMAIN events
    BY <1>5, <1>7, <1>9
  <2> QED
    BY <1>6, <1>7, <1>8, <2>1 DEF DeviationInv, AlertedMeansSent
<1> QED
  BY <1>12, <1>14, <1>17, <1>18, <1>19 DEF DeviationInv

LEMMA DeviationNextInv ==
  ASSUME DeviationAssumption, DeviationInv, [Next]_vars
  PROVE  DeviationInv'
<1>1. CASE UNCHANGED vars
  BY <1>1 DEF vars, DeviationInv, TypeOK, Few, Openers, Numbered, Place, AlertedMeansSent,
              Knows, Unresolved, OfTrip
<1>2. ASSUME NEW t \in Trips, LeaveRoute(t) \/ ReturnToRoute(t) \/ CompleteTrip(t)
      PROVE  DeviationInv'
  BY <1>2, TripsInv
<1>3. ASSUME NEW e \in DOMAIN events, Last(e) PROVE DeviationInv'
  BY <1>3, LastInv
<1>4. ASSUME NEW p \in Passes, Monitor(p) PROVE DeviationInv'
  BY <1>4, BeginInv, FindOpenInv, NothingNewInv, CountEarlierInv, CreateEventInv,
     UpdateDurationInv, WatchedInv DEF Monitor
<1>5. ASSUME NEW p \in Passes, Alert(p) \/ Break(p) PROVE DeviationInv'
  BY <1>5, ListAlertsInv, NextAlertInv, TellManagerInv, MarkNotifiedInv, FinishInv, BreakInv
     DEF Alert
<1> QED
  BY <1>1, <1>2, <1>3, <1>4, <1>5 DEF Next

LEMMA DeviationInvariant == DeviationAssumption => (Spec => []DeviationInv)
<1> SUFFICES ASSUME DeviationAssumption PROVE Spec => []DeviationInv
  OBVIOUS
<1>1. Init => DeviationInv
  BY DeviationInitInv
<1>2. DeviationInv /\ [Next]_vars => DeviationInv'
  BY DeviationNextInv
<1> QED
  BY <1>1, <1>2, PTL DEF Spec

\* However many passes overlap and wherever they break off, a trip has at most as
\* many open deviations as there may be passes at a time, and none has a number
\* above its place (route_deviation_monitor.go looks, counts and inserts in three
\* statements).
THEOREM OpenDeviationsStayFew == DeviationAssumption => (Spec => []DeviationsStayFew)
<1> SUFFICES ASSUME DeviationAssumption PROVE Spec => []DeviationsStayFew
  OBVIOUS
<1>1. ASSUME DeviationInv PROVE DeviationsStayFew
  <2>1. ASSUME NEW t \in Trips PROVE Cardinality(Unresolved(t)) <= Cardinality(Passes)
    <3>1. Cardinality(Unresolved(t)) \in Nat /\ Cardinality(Openers(t)) \in Nat
          /\ Cardinality(Passes) \in Nat
      BY <1>1, DeviationsAreFinite, OpenersAreFinite DEF DeviationInv
    <3> QED
      BY <1>1, <3>1 DEF DeviationInv, Few
  <2> QED
    BY <1>1, <2>1 DEF DeviationsStayFew, DeviationInv, Numbered, Place
<1> QED
  BY <1>1, DeviationInvariant, PTL

\* A deviation marked as told was sent to every manager of its facility, and the row
\* is there (worker_jobs.go marks after the last of them only).
THEOREM AlertsAreSent == DeviationAssumption => (Spec => []AlertedMeansSent)
<1> SUFFICES ASSUME DeviationAssumption PROVE Spec => []AlertedMeansSent
  OBVIOUS
<1>1. DeviationInv => AlertedMeansSent
  BY DEF DeviationInv
<1> QED
  BY <1>1, DeviationInvariant, PTL

-----------------------------------------------------------------------------
(* ExpiryNotices, with its own log and faults.  That repeats are far apart   *)
(* is inductive: a new row pushes out what the duplicate check did not read. *)

ExpiryInv == Expiry!TypeOK /\ Expiry!RepeatsAreFarApart

LEMMA ReportStatuses ==
  ASSUME NEW report \in Expiry!Send(Sender)
  PROVE  report.status \in Expiry!Statuses
<1>1. PICK sent \in Expiry!SendMessage(Sender) :
        report \in IF sent.err = "panic" THEN Expiry!Panicked(sent)
                   ELSE Expiry!InsertNotification(sent)
  BY DEF Expiry!Send
<1> QED
  BY <1>1 DEF Expiry!Panicked, Expiry!InsertNotification, Expiry!DeliveryStatus, Expiry!Statuses

LEMMA SlotsOfLog ==
  ASSUME Expiry!ExpiryAssumption
  PROVE  /\ 1 \in Expiry!Slots /\ Expiry!Slots \subseteq Nat
         /\ \A i \in Expiry!Slots : i # 1 => i - 1 \in Expiry!Slots /\ i - 1 \in 1..Window
BY DEF Expiry!Slots, Expiry!ExpiryAssumption

\* A row at the head of a log that has none of its notice among the newest
\* Window, or a row of another kind: repeats stay far apart.
LEMMA PrependKeepsApart ==
  ASSUME Expiry!ExpiryAssumption, ExpiryInv, NEW u \in Recipients, NEW row \in Expiry!Row,
         row.notice \in Notices => ~Expiry!alreadySentToUser(u, row.notice),
         log' = [log EXCEPT ![u] = Expiry!Prepend(@, row)]
  PROVE  log' \in [Recipients -> [Expiry!Slots -> Expiry!Row]] /\ Expiry!RepeatsAreFarApart'
<1> DEFINE old == log[u]
           new == Expiry!Prepend(old, row)
<1>1. log \in [Recipients -> [Expiry!Slots -> Expiry!Row]]
  BY DEF ExpiryInv, Expiry!TypeOK
<1>2. old \in [Expiry!Slots -> Expiry!Row]
  BY <1>1
<1>3. \A i \in Expiry!Slots : new[i] = IF i = 1 THEN row ELSE old[i - 1]
  BY DEF Expiry!Prepend
<1>4. new \in [Expiry!Slots -> Expiry!Row]
  BY <1>2, SlotsOfLog DEF Expiry!Prepend
<1>5. \A k \in 1..Window : row.notice \in Notices => old[k].notice # row.notice
  BY DEF Expiry!alreadySentToUser, Expiry!ListNotificationsByRecipient
<1>6. \A i, k \in Expiry!Slots :
        (i < k /\ old[i].notice \in Notices) => old[i].notice # old[k].notice
  BY DEF ExpiryInv, Expiry!RepeatsAreFarApart
<1>7. log' = [log EXCEPT ![u] = new]
  OBVIOUS
<1> HIDE DEF old, new
<1>8. ASSUME NEW i \in Expiry!Slots, NEW k \in Expiry!Slots, i < k, new[i].notice \in Notices
      PROVE  new[i].notice # new[k].notice
  <2>1. i \in Nat /\ k \in Nat /\ i >= 1 /\ k # 1
    BY <1>8, SlotsOfLog DEF Expiry!Slots
  <2>2. new[k] = old[k - 1] /\ k - 1 \in Expiry!Slots /\ k - 1 \in 1..Window
    BY <1>3, <2>1, SlotsOfLog
  <2>3. CASE i = 1
    BY <1>3, <1>5, <1>8, <2>2, <2>3
  <2>4. CASE i # 1
    <3>1. new[i] = old[i - 1] /\ i - 1 \in Expiry!Slots /\ i - 1 < k - 1
      BY <1>3, <1>8, <2>1, <2>4, SlotsOfLog
    <3> QED
      BY <1>6, <1>8, <2>2, <3>1
  <2> QED
    BY <2>3, <2>4
<1>9. \A x \in Recipients : log'[x] = IF x = u THEN new ELSE log[x]
  BY <1>1, <1>7
<1>10. Expiry!RepeatsAreFarApart'
  BY <1>8, <1>9 DEF Expiry!RepeatsAreFarApart, ExpiryInv
<1>11. log' \in [Recipients -> [Expiry!Slots -> Expiry!Row]]
  BY <1>1, <1>4, <1>7
<1> QED
  BY <1>10, <1>11

\* A pass goes on or stops.
LEMMA DayTypes ==
  ASSUME Expiry!ExpiryAssumption, ExpiryInv, NEW j \in Expiry!Jobs, Work[j] # <<>>, NEW d,
         d \in {Expiry!GoOn(j), Expiry!Stop(j), [day EXCEPT ![j] = 1]}
  PROVE  d \in [Expiry!Jobs -> Nat] /\ \A k \in Expiry!Jobs : d[k] <= Len(Work[k])
<1>1. day \in [Expiry!Jobs -> Nat] /\ \A k \in Expiry!Jobs : day[k] <= Len(Work[k])
  BY DEF ExpiryInv, Expiry!TypeOK
<1>2. \A k \in Expiry!Jobs : Len(Work[k]) \in Nat
  BY DEF Expiry!ExpiryAssumption
<1>3. Len(Work[j]) >= 1
  <2>1. Work[j] \in Seq([user : Recipients, notice : Notices])
    BY DEF Expiry!ExpiryAssumption
  <2> QED
    BY <2>1, EmptySeq
<1>4. CASE d = Expiry!GoOn(j)
  BY <1>1, <1>2, <1>4 DEF Expiry!GoOn
<1>5. CASE d = Expiry!Stop(j)
  BY <1>1, <1>2, <1>5 DEF Expiry!Stop
<1>6. CASE d = [day EXCEPT ![j] = 1]
  BY <1>1, <1>2, <1>3, <1>6
<1> QED
  BY <1>4, <1>5, <1>6

\* Where a pass runs there is a recipient.
LEMMA RecipientTypes ==
  ASSUME Expiry!ExpiryAssumption, ExpiryInv, NEW j \in Expiry!Jobs, Expiry!Running(j)
  PROVE  /\ Work[j] # <<>>
         /\ Expiry!Recipient(j) \in Recipients /\ Expiry!Notice(j) \in Notices
<1>1. Work[j] \in Seq([user : Recipients, notice : Notices])
  BY DEF Expiry!ExpiryAssumption
<1>2. day[j] \in Nat /\ day[j] # 0 /\ day[j] <= Len(Work[j]) /\ Len(Work[j]) \in Nat
  BY <1>1 DEF ExpiryInv, Expiry!TypeOK, Expiry!Running
<1>3. day[j] \in 1..Len(Work[j])
  BY <1>2
<1>4. Work[j][day[j]] \in [user : Recipients, notice : Notices]
  BY <1>1, <1>3, ElementOfSeq
<1>5. Work[j] # <<>>
  BY <1>3
<1> QED
  BY <1>4, <1>5 DEF Expiry!Recipient, Expiry!Notice

LEMMA ExpiryStart ==
  ASSUME Expiry!ExpiryAssumption, ExpiryInv, NEW j \in Expiry!Jobs, Expiry!Start(j)
  PROVE  ExpiryInv'
<1>1. day' = [day EXCEPT ![j] = 1] /\ Work[j] # <<>>
  BY DEF Expiry!Start
<1>2. day' \in [Expiry!Jobs -> Nat] /\ \A k \in Expiry!Jobs : day'[k] <= Len(Work[k])
  BY <1>1, DayTypes
<1> QED
  BY <1>2 DEF Expiry!Start, ExpiryInv, Expiry!TypeOK, Expiry!RepeatsAreFarApart

LEMMA ExpirySkip ==
  ASSUME Expiry!ExpiryAssumption, ExpiryInv, NEW j \in Expiry!Jobs, Expiry!Skip(j)
  PROVE  ExpiryInv'
<1>1. day' = Expiry!GoOn(j) /\ Work[j] # <<>>
  BY RecipientTypes DEF Expiry!Skip
<1>2. day' \in [Expiry!Jobs -> Nat] /\ \A k \in Expiry!Jobs : day'[k] <= Len(Work[k])
  BY <1>1, DayTypes
<1> QED
  BY <1>2 DEF Expiry!Skip, ExpiryInv, Expiry!TypeOK, Expiry!RepeatsAreFarApart

LEMMA ExpiryNotify ==
  ASSUME Expiry!ExpiryAssumption, ExpiryInv, NEW j \in Expiry!Jobs, Expiry!Notify(j)
  PROVE  ExpiryInv'
<1> DEFINE u == Expiry!Recipient(j)
           n == Expiry!Notice(j)
<1>1. u \in Recipients /\ n \in Notices /\ Work[j] # <<>>
  BY RecipientTypes DEF Expiry!Notify
<1>2. PICK report \in Expiry!Send(Sender) :
        /\ Expiry!Record(u, n, report)
        /\ day' = IF Expiry!ignoreNotificationSendError(report.err)
                  THEN Expiry!GoOn(j) ELSE Expiry!Stop(j)
        /\ expiryFaults' = IF report.err = "insert" THEN expiryFaults + 1 ELSE expiryFaults
        /\ expiryFaults' <= MaxFaults
  BY DEF Expiry!Notify
<1>3. UNCHANGED <<linked, others>> /\ ~Expiry!alreadySentToUser(u, n)
  BY DEF Expiry!Notify
<1>4. day' \in [Expiry!Jobs -> Nat] /\ \A k \in Expiry!Jobs : day'[k] <= Len(Work[k])
  BY <1>1, <1>2, DayTypes
<1>5. expiryFaults' \in 0..MaxFaults
  BY <1>2 DEF ExpiryInv, Expiry!TypeOK, Expiry!ExpiryAssumption
<1>6. linked' \in SUBSET Recipients /\ others' \in 0..MaxOthers
  BY <1>3 DEF ExpiryInv, Expiry!TypeOK
<1> DEFINE row == [notice |-> n, status |-> report.status]
<1>7. row \in Expiry!Row /\ row.notice = n
  BY <1>1, ReportStatuses DEF Expiry!Row
<1> HIDE DEF u, n
<1>8. CASE report.status = "NONE"
  <2>1. UNCHANGED <<log, tried>>
    BY <1>2, <1>8 DEF Expiry!Record
  <2> QED
    BY <1>4, <1>5, <1>6, <2>1 DEF ExpiryInv, Expiry!TypeOK, Expiry!RepeatsAreFarApart
<1>9. CASE report.status # "NONE"
  <2>1. /\ log' = [log EXCEPT ![u] = Expiry!Prepend(@, row)]
        /\ tried' = tried \cup {<<u, n>>}
    BY <1>2, <1>9 DEF Expiry!Record
  <2>2. tried' \in SUBSET (Recipients \X Notices)
    BY <1>1, <2>1 DEF ExpiryInv, Expiry!TypeOK
  <2>3. row.notice \in Notices => ~Expiry!alreadySentToUser(u, row.notice)
    BY <1>3, <1>7
  <2> HIDE DEF row
  <2>4. log' \in [Recipients -> [Expiry!Slots -> Expiry!Row]] /\ Expiry!RepeatsAreFarApart'
    BY <1>1, <1>7, <2>1, <2>3, PrependKeepsApart
  <2> QED
    BY <1>4, <1>5, <1>6, <2>2, <2>4 DEF ExpiryInv, Expiry!TypeOK
<1> QED
  BY <1>8, <1>9

LEMMA ExpiryQueryFails ==
  ASSUME Expiry!ExpiryAssumption, ExpiryInv, NEW j \in Expiry!Jobs, Expiry!QueryFails(j)
  PROVE  ExpiryInv'
<1>1. day' = Expiry!Stop(j) /\ Work[j] # <<>>
  BY RecipientTypes DEF Expiry!QueryFails
<1>2. day' \in [Expiry!Jobs -> Nat] /\ \A k \in Expiry!Jobs : day'[k] <= Len(Work[k])
  BY <1>1, DayTypes
<1>3. expiryFaults' \in 0..MaxFaults
  BY DEF Expiry!QueryFails, ExpiryInv, Expiry!TypeOK, Expiry!ExpiryAssumption
<1> QED
  BY <1>2, <1>3 DEF Expiry!QueryFails, ExpiryInv, Expiry!TypeOK, Expiry!RepeatsAreFarApart

LEMMA ExpiryCrash ==
  ASSUME Expiry!ExpiryAssumption, ExpiryInv, Expiry!Crash
  PROVE  ExpiryInv'
<1>1. \A k \in Expiry!Jobs : Len(Work[k]) \in Nat
  BY DEF Expiry!ExpiryAssumption
<1>2. day' \in [Expiry!Jobs -> Nat] /\ \A k \in Expiry!Jobs : day'[k] <= Len(Work[k])
  BY <1>1 DEF Expiry!Crash
<1>3. expiryFaults' \in 0..MaxFaults
  BY DEF Expiry!Crash, ExpiryInv, Expiry!TypeOK, Expiry!ExpiryAssumption
<1> QED
  BY <1>2, <1>3 DEF Expiry!Crash, ExpiryInv, Expiry!TypeOK, Expiry!RepeatsAreFarApart

LEMMA ExpiryLink ==
  ASSUME Expiry!ExpiryAssumption, ExpiryInv, NEW u \in Recipients, Expiry!LinkTelegramAccount(u)
  PROVE  ExpiryInv'
BY DEF Expiry!LinkTelegramAccount, ExpiryInv, Expiry!TypeOK, Expiry!RepeatsAreFarApart

LEMMA ExpiryOther ==
  ASSUME Expiry!ExpiryAssumption, ExpiryInv, NEW u \in Recipients, Expiry!OtherNotice(u)
  PROVE  ExpiryInv'
<1> DEFINE row == [notice |-> Other, status |-> "SUCCESS"]
<1>1. row \in Expiry!Row /\ row.notice \notin Notices
  BY DEF Expiry!Row, Expiry!Statuses, Expiry!ExpiryAssumption
<1>2. log' = [log EXCEPT ![u] = Expiry!Prepend(@, row)]
  BY DEF Expiry!OtherNotice
<1> HIDE DEF row
<1>3. log' \in [Recipients -> [Expiry!Slots -> Expiry!Row]] /\ Expiry!RepeatsAreFarApart'
  BY <1>1, <1>2, PrependKeepsApart
<1>4. others' \in 0..MaxOthers
  BY DEF Expiry!OtherNotice, ExpiryInv, Expiry!TypeOK, Expiry!ExpiryAssumption
<1> QED
  BY <1>3, <1>4 DEF Expiry!OtherNotice, ExpiryInv, Expiry!TypeOK

LEMMA ExpiryStarts ==
  ASSUME Expiry!ExpiryAssumption, Expiry!Init
  PROVE  ExpiryInv
<1>1. Expiry!NoRow \in Expiry!Row /\ Expiry!NoRow.notice \notin Notices
  BY DEF Expiry!NoRow, Expiry!Row, Expiry!Statuses, Expiry!ExpiryAssumption
<1>2. log = [u \in Recipients |-> [i \in Expiry!Slots |-> Expiry!NoRow]]
  BY DEF Expiry!Init
<1>3. Expiry!RepeatsAreFarApart
  BY <1>1, <1>2 DEF Expiry!RepeatsAreFarApart
<1>4. log \in [Recipients -> [Expiry!Slots -> Expiry!Row]]
  BY <1>1, <1>2
<1>5. \A k \in Expiry!Jobs : Len(Work[k]) \in Nat
  BY DEF Expiry!ExpiryAssumption
<1>6. day \in [Expiry!Jobs -> Nat] /\ \A k \in Expiry!Jobs : day[k] <= Len(Work[k])
  BY <1>5 DEF Expiry!Init
<1>7. 0 \in 0..MaxFaults /\ 0 \in 0..MaxOthers
  BY DEF Expiry!ExpiryAssumption
<1> QED
  BY <1>3, <1>4, <1>6, <1>7 DEF Expiry!Init, ExpiryInv, Expiry!TypeOK

LEMMA ExpirySteps ==
  ASSUME Expiry!ExpiryAssumption, ExpiryInv, [Expiry!Next]_(Expiry!vars)
  PROVE  ExpiryInv'
<1>1. CASE \E j \in Expiry!Jobs : Expiry!Start(j) \/ Expiry!Step(j) \/ Expiry!QueryFails(j)
  BY <1>1, ExpiryStart, ExpirySkip, ExpiryNotify, ExpiryQueryFails DEF Expiry!Step
<1>2. CASE Expiry!Crash
  BY <1>2, ExpiryCrash
<1>3. CASE \E u \in Recipients : Expiry!LinkTelegramAccount(u) \/ Expiry!OtherNotice(u)
  BY <1>3, ExpiryLink, ExpiryOther
<1>4. CASE UNCHANGED Expiry!vars
  BY <1>4 DEF Expiry!vars, ExpiryInv, Expiry!TypeOK, Expiry!RepeatsAreFarApart
<1> QED
  BY <1>1, <1>2, <1>3, <1>4 DEF Expiry!Next

\* The same notice is written to a user's log again only when Window other
\* rows came in between (alreadySentToUser): for any work of the two jobs, any
\* number of crashes and failed sends, and any Window.
THEOREM RepeatsStayFarApart ==
  Expiry!ExpiryAssumption => (Expiry!Spec => []RepeatsAreFarApart)
<1> SUFFICES ASSUME Expiry!ExpiryAssumption PROVE Expiry!Spec => []RepeatsAreFarApart
  OBVIOUS
<1>1. Expiry!Init => ExpiryInv
  BY ExpiryStarts
<1>2. ExpiryInv /\ [Expiry!Next]_(Expiry!vars) => ExpiryInv'
  BY ExpirySteps
<1>3. ExpiryInv => RepeatsAreFarApart
  BY DEF ExpiryInv, RepeatsAreFarApart
<1> QED
  BY <1>1, <1>2, <1>3, PTL DEF Expiry!Spec

-----------------------------------------------------------------------------
(* Escalation, with passes that overlap.  A reading is escalated once, by the *)
(* update whose condition is that it is still pending; the pass that did it   *)
(* is the only one that tells of it, and tells each administrator once.       *)

\* A reading that nobody escalated has no assignee and no rows.
Untouched(r) == assignee[r] = None /\ \A u \in Admins : notes[r][u] = 0

\* A pass that is telling of a reading escalated it, has no row yet for those
\* it has still to tell, and no other pass tells of it.
Telling(w) ==
  /\ w.current \in Readings
  /\ assignee[w.current] # None
  /\ reading[w.current] \notin {"NONE", "PENDING"}
  /\ \A u \in w.tell : notes[w.current][u] = 0

Alone(p) ==
  \A q \in Rounds :
    round[q].at = "notices" /\ round[q].current = round[p].current => q = p

NoticesFollow ==
  /\ \A r \in Readings : reading[r] \in {"NONE", "PENDING"} => Untouched(r)
  /\ \A p \in Rounds :
       /\ round[p].at # "idle" => round[p].to \in Admins
       /\ round[p].at = "notices" => Telling(round[p]) /\ Alone(p)

EscalationInv ==
  Escalating!TypeOK /\ NoticesFollow /\ Escalating!NoticesAreOfEscalations

LEMMA EscalationStarts ==
  ASSUME EscalationHypotheses, Escalating!Init
  PROVE  EscalationInv
<1>1. Escalating!Idle \in Escalating!PassRecord /\ Escalating!Idle.at = "idle"
  BY DEF Escalating!Idle, Escalating!PassRecord, Escalating!Points
<1>2. Escalating!GrantsTypeOK
  BY DEF Escalating!Init, Escalating!GrantsInit, Escalating!GrantsTypeOK,
         EscalationHypotheses, Escalating!GrantsAssumption
<1>3. roundFaults \in 0..MaxFaults
  BY DEF Escalating!Init, EscalationHypotheses, Escalating!EscalationAssumption
<1>4. \A p \in Rounds : round[p] = Escalating!Idle
  BY DEF Escalating!Init
<1>5. notes \in [Readings -> [Admins -> 0..2]]
  BY DEF Escalating!Init
<1>6. round \in [Rounds -> Escalating!PassRecord]
  BY <1>1 DEF Escalating!Init
<1>7. Escalating!TypeOK
  BY <1>2, <1>3, <1>5, <1>6 DEF Escalating!Init, Escalating!TypeOK, Escalating!Approvals
<1>8. NoticesFollow
  BY <1>1, <1>4 DEF Escalating!Init, NoticesFollow, Untouched
<1>9. Escalating!NoticesAreOfEscalations
  BY DEF Escalating!Init, Escalating!NoticesAreOfEscalations
<1> QED
  BY <1>7, <1>8, <1>9 DEF EscalationInv

\* What administrators do to grants and accounts keeps their types.
LEMMA AdministerTypes ==
  ASSUME EscalationHypotheses, Escalating!GrantsTypeOK, Escalating!Administer
  PROVE  Escalating!GrantsTypeOK'
<1>1. ASSUME NEW q \in Escalating!GrantRequests, Escalating!GrantRole(q)
      PROVE  Escalating!GrantsTypeOK'
  <2>1. Escalating!Stored(q) \in Escalating!Keys
    BY DEF Escalating!Stored, Escalating!GrantRequests, Escalating!Keys, Escalating!ScopeIds
  <2> QED
    BY <1>1, <2>1 DEF Escalating!GrantRole, Escalating!GrantsTypeOK
<1>2. ASSUME NEW q \in Escalating!GrantRequests, Escalating!RevokeRole(q)
      PROVE  Escalating!GrantsTypeOK'
  BY <1>2 DEF Escalating!RevokeRole, Escalating!GrantsTypeOK
<1>3. ASSUME NEW u \in Admins, NEW a \in BOOLEAN, Escalating!SetUserActive(u, a)
      PROVE  Escalating!GrantsTypeOK'
  BY <1>3 DEF Escalating!SetUserActive, Escalating!GrantsTypeOK
<1> QED
  BY <1>1, <1>2, <1>3 DEF Escalating!Administer

\* A step that leaves the readings, their assignees and the log alone, and
\* moves a pass away from its notices, or on with fewer to tell.
LEMMA RoundMoves ==
  ASSUME EscalationInv, NEW p \in Rounds, NEW w \in Escalating!PassRecord,
         round' = [round EXCEPT ![p] = w],
         w.at # "idle" => w.to \in Admins,
         w.at # "notices",
         UNCHANGED <<grants, active, reading, overdue, assignee, notes>>,
         roundFaults' \in 0..MaxFaults
  PROVE  EscalationInv'
<1>1. \A q \in Rounds : round'[q] = IF q = p THEN w ELSE round[q]
  BY DEF EscalationInv, Escalating!TypeOK
<1>2. round' \in [Rounds -> Escalating!PassRecord]
  BY DEF EscalationInv, Escalating!TypeOK
<1>3. Escalating!TypeOK'
  BY <1>2 DEF EscalationInv, Escalating!TypeOK, Escalating!GrantsTypeOK
<1>4. ASSUME NEW q \in Rounds
      PROVE  /\ round'[q].at # "idle" => round'[q].to \in Admins
             /\ round'[q].at = "notices" => Telling(round[q])' /\ Alone(q)'
  <2>1. CASE q = p
    BY <1>1, <2>1
  <2>2. CASE q # p
    <3>1. round'[q] = round[q]
      BY <1>1, <2>2
    <3>2. round[q].at # "idle" => round[q].to \in Admins
      BY DEF EscalationInv, NoticesFollow
    <3>3. round[q].at = "notices" => Telling(round[q]) /\ Alone(q)
      BY DEF EscalationInv, NoticesFollow
    <3>4. round[q].at = "notices" => Telling(round[q])'
      BY <3>1, <3>3 DEF Telling
    <3>5. round[q].at = "notices" => Alone(q)'
      BY <1>1, <3>1, <3>3 DEF Alone
    <3> QED
      BY <3>1, <3>2, <3>4, <3>5
  <2> QED
    BY <2>1, <2>2
<1>5. NoticesFollow'
  BY <1>4 DEF EscalationInv, NoticesFollow, Untouched
<1>6. Escalating!NoticesAreOfEscalations'
  BY DEF EscalationInv, Escalating!NoticesAreOfEscalations
<1> QED
  BY <1>3, <1>5, <1>6 DEF EscalationInv

LEMMA ReadingsChange ==
  ASSUME EscalationHypotheses, EscalationInv, NEW r \in Readings,
         \/ Escalating!CreateWeightBridge(r)
         \/ Escalating!ApproveWeightBridge(r)
         \/ Escalating!Age(r)
  PROVE  EscalationInv'
<1>1. UNCHANGED <<grants, active, assignee, round, notes, roundFaults>>
  BY DEF Escalating!CreateWeightBridge, Escalating!ApproveWeightBridge, Escalating!Age,
         Escalating!grantVars
<1>2. /\ reading' \in [Readings -> Escalating!Approvals]
      /\ overdue' \in SUBSET Readings
      /\ \A x \in Readings : reading'[x] \in {"NONE", "PENDING"} => reading[x] \in {"NONE", "PENDING"}
      /\ \A x \in Readings : reading[x] \notin {"NONE", "PENDING"} => reading'[x] \notin {"NONE", "PENDING"}
  BY DEF Escalating!CreateWeightBridge, Escalating!ApproveWeightBridge, Escalating!Age,
         EscalationInv, Escalating!TypeOK, Escalating!Approvals
<1>3. Escalating!TypeOK'
  BY <1>1, <1>2 DEF EscalationInv, Escalating!TypeOK, Escalating!GrantsTypeOK
<1>4. NoticesFollow'
  BY <1>1, <1>2 DEF EscalationInv, NoticesFollow, Untouched, Telling, Alone
<1>5. Escalating!NoticesAreOfEscalations'
  BY <1>1 DEF EscalationInv, Escalating!NoticesAreOfEscalations
<1> QED
  BY <1>3, <1>4, <1>5 DEF EscalationInv

\* A pass may break off, or end, anywhere.
LEMMA IdleMoves ==
  ASSUME EscalationInv, NEW p \in Rounds,
         round' = [round EXCEPT ![p] = Escalating!Idle],
         UNCHANGED <<grants, active, reading, overdue, assignee, notes>>,
         roundFaults' \in 0..MaxFaults
  PROVE  EscalationInv'
<1>1. Escalating!Idle \in Escalating!PassRecord /\ Escalating!Idle.at = "idle"
  BY DEF Escalating!Idle, Escalating!PassRecord, Escalating!Points
<1> QED
  BY <1>1, RoundMoves


LEMMA RoundTypes ==
  ASSUME EscalationInv
  PROVE  /\ round \in [Rounds -> Escalating!PassRecord]
         /\ \A p \in Rounds :
              /\ round[p] \in Escalating!PassRecord
              /\ round[p].at \in Escalating!Points
              /\ round[p].admins \in SUBSET Admins
              /\ round[p].todo \in SUBSET Readings
              /\ round[p].current \in {None} \cup Readings
              /\ round[p].tell \in SUBSET Admins
<1>1. round \in [Rounds -> Escalating!PassRecord]
  BY DEF EscalationInv, Escalating!TypeOK
<1>2. \A p \in Rounds : round[p] \in Escalating!PassRecord
  BY <1>1
<1> QED
  BY <1>1, <1>2 DEF Escalating!PassRecord

LEMMA ReadAdminsStep ==
  ASSUME EscalationInv, NEW p \in Rounds, Escalating!ReadAdmins(p)
  PROVE  EscalationInv'
<1> DEFINE admins == Escalating!ListUsersWithCompanyRole(Escalating!Admin)
<1>1. PICK a \in admins :
        round' = [round EXCEPT ![p] =
                    [Escalating!Idle EXCEPT !.at = "admins", !.admins = admins, !.to = a]]
  BY DEF Escalating!ReadAdmins
<1>2. admins \in SUBSET Admins
  BY DEF EscalationInv, Escalating!TypeOK, Escalating!GrantsTypeOK,
         Escalating!ListUsersWithCompanyRole
<1> HIDE DEF admins
<1> DEFINE w == [Escalating!Idle EXCEPT !.at = "admins", !.admins = admins, !.to = a]
<1>3. w \in Escalating!PassRecord /\ w.at = "admins" /\ w.to \in Admins
  BY <1>1, <1>2 DEF Escalating!Idle, Escalating!PassRecord, Escalating!Points
<1>4. round' = [round EXCEPT ![p] = w]
  BY <1>1
<1>5. UNCHANGED <<grants, active, reading, overdue, assignee, notes, roundFaults>>
  BY DEF Escalating!ReadAdmins, Escalating!grantVars
<1>6. roundFaults' \in 0..MaxFaults
  BY <1>5 DEF EscalationInv, Escalating!TypeOK
<1> HIDE DEF w
<1> QED
  BY <1>3, <1>4, <1>5, <1>6, RoundMoves

LEMMA ReadOverdueStep ==
  ASSUME EscalationInv, NEW p \in Rounds, Escalating!ReadOverdue(p)
  PROVE  EscalationInv'
<1> DEFINE todo == Escalating!ListOverduePendingManualApprovals
           v == round[p]
           w == [v EXCEPT !.at = "readings", !.todo = todo]
<1>1. round' = [round EXCEPT ![p] = w]
  BY RoundTypes DEF Escalating!ReadOverdue
<1>2. todo \in SUBSET Readings
  BY DEF EscalationInv, Escalating!TypeOK, Escalating!ListOverduePendingManualApprovals
<1>3. v \in Escalating!PassRecord /\ v.to \in Admins
  BY RoundTypes DEF EscalationInv, NoticesFollow, Escalating!ReadOverdue
<1>4. UNCHANGED <<grants, active, reading, overdue, assignee, notes, roundFaults>>
  BY DEF Escalating!ReadOverdue, Escalating!grantVars
<1>5. roundFaults' \in 0..MaxFaults
  BY <1>4 DEF EscalationInv, Escalating!TypeOK
<1> HIDE DEF todo, v
<1>6. w \in Escalating!PassRecord /\ w.at = "readings" /\ w.to \in Admins
  BY <1>2, <1>3 DEF Escalating!PassRecord, Escalating!Points
<1> HIDE DEF w
<1> QED
  BY <1>1, <1>4, <1>5, <1>6, RoundMoves

LEMMA NextReadingStep ==
  ASSUME EscalationInv, NEW p \in Rounds, Escalating!NextReading(p)
  PROVE  EscalationInv'
<1> DEFINE v == round[p]
           w == [v EXCEPT !.at = "readings", !.current = None]
<1>1. round' = [round EXCEPT ![p] = w]
  BY RoundTypes DEF Escalating!NextReading
<1>2. v \in Escalating!PassRecord /\ v.to \in Admins
  BY RoundTypes DEF EscalationInv, NoticesFollow, Escalating!NextReading
<1>3. UNCHANGED <<grants, active, reading, overdue, assignee, notes, roundFaults>>
  BY DEF Escalating!NextReading, Escalating!grantVars
<1>4. roundFaults' \in 0..MaxFaults
  BY <1>3 DEF EscalationInv, Escalating!TypeOK
<1> HIDE DEF v
<1>5. w \in Escalating!PassRecord /\ w.at = "readings" /\ w.to \in Admins
  BY <1>2 DEF Escalating!PassRecord, Escalating!Points
<1> HIDE DEF w
<1> QED
  BY <1>1, <1>3, <1>4, <1>5, RoundMoves

LEMMA RoundEnds ==
  ASSUME EscalationHypotheses, EscalationInv, NEW p \in Rounds,
         Escalating!Finish(p) \/ Escalating!Break(p)
  PROVE  EscalationInv'
<1>1. roundFaults' \in 0..MaxFaults
  BY DEF Escalating!Finish, Escalating!Break, EscalationInv, Escalating!TypeOK,
         EscalationHypotheses, Escalating!EscalationAssumption
<1> QED
  BY <1>1, IdleMoves DEF Escalating!Finish, Escalating!Break, Escalating!grantVars

LEMMA EscalateStep ==
  ASSUME EscalationHypotheses, EscalationInv, NEW p \in Rounds,
         Escalating!EscalateWeightBridgeReading(p)
  PROVE  EscalationInv'
<1> DEFINE v == round[p]
<1>1. v \in Escalating!PassRecord /\ v.at = "readings" /\ v.to \in Admins
  BY RoundTypes DEF EscalationInv, NoticesFollow, Escalating!EscalateWeightBridgeReading
<1>2. UNCHANGED <<grants, active, overdue, notes, roundFaults>>
  BY DEF Escalating!EscalateWeightBridgeReading, Escalating!grantVars
<1>3. roundFaults' \in 0..MaxFaults
  BY <1>2 DEF EscalationInv, Escalating!TypeOK
<1>4. PICK r \in v.todo :
        IF Escalating!StillPending(r)
        THEN /\ reading' = [reading EXCEPT ![r] = Escalating!Escalated]
             /\ assignee' = [assignee EXCEPT ![r] = v.to]
             /\ round' = [round EXCEPT ![p] =
                            [v EXCEPT !.at = "notices", !.todo = v.todo \ {r}, !.current = r,
                                      !.tell = v.admins \cap Linked]]
        ELSE /\ round' = [round EXCEPT ![p] = [v EXCEPT !.todo = v.todo \ {r}]]
             /\ UNCHANGED <<reading, assignee>>
  BY RoundTypes DEF Escalating!EscalateWeightBridgeReading
<1>5. r \in Readings
  BY <1>1, <1>4 DEF Escalating!PassRecord
<1>6. round \in [Rounds -> Escalating!PassRecord]
  BY RoundTypes
<1>7. CASE ~Escalating!StillPending(r)
  <2> DEFINE w == [v EXCEPT !.todo = v.todo \ {r}]
  <2>1. round' = [round EXCEPT ![p] = w] /\ UNCHANGED <<reading, assignee>>
    BY <1>4, <1>7
  <2> HIDE DEF v
  <2>2. w \in Escalating!PassRecord /\ w.at = "readings" /\ w.to \in Admins
    BY <1>1 DEF Escalating!PassRecord
  <2> HIDE DEF w
  <2> QED
    BY <1>2, <1>3, <2>1, <2>2, RoundMoves
<1>8. CASE Escalating!StillPending(r)
  <2> DEFINE w == [v EXCEPT !.at = "notices", !.todo = v.todo \ {r}, !.current = r,
                            !.tell = v.admins \cap Linked]
  <2>1. /\ reading' = [reading EXCEPT ![r] = "ESCALATED"]
        /\ assignee' = [assignee EXCEPT ![r] = v.to]
        /\ round' = [round EXCEPT ![p] = w]
    BY <1>4, <1>8 DEF Escalating!Escalated
  <2>2. Untouched(r) /\ reading[r] = "PENDING"
    BY <1>5, <1>8 DEF Escalating!StillPending, EscalationInv, NoticesFollow
  <2> HIDE DEF v
  <2>3. /\ w \in Escalating!PassRecord
        /\ w.at = "notices" /\ w.to \in Admins /\ w.current = r /\ w.tell \in SUBSET Admins
    BY <1>1, <1>5 DEF Escalating!PassRecord, Escalating!Points
  <2> HIDE DEF w
  <2>4. \A q \in Rounds : round'[q] = IF q = p THEN w ELSE round[q]
    BY <1>6, <2>1
  <2>5. reading \in [Readings -> Escalating!Approvals] /\ assignee \in [Readings -> {None} \cup Admins]
    BY DEF EscalationInv, Escalating!TypeOK
  <2>6. \A x \in Readings : /\ reading'[x] = IF x = r THEN "ESCALATED" ELSE reading[x]
                            /\ assignee'[x] = IF x = r THEN v.to ELSE assignee[x]
    BY <2>1, <2>5
  <2>7. v.to # None
    BY <1>1 DEF EscalationHypotheses, Escalating!EscalationAssumption
  <2>8. Escalating!TypeOK'
    <3>1. reading' \in [Readings -> Escalating!Approvals]
      BY <2>1, <2>5 DEF Escalating!Approvals
    <3>2. assignee' \in [Readings -> {None} \cup Admins]
      BY <1>1, <2>1, <2>5
    <3>3. round' \in [Rounds -> Escalating!PassRecord]
      BY <1>6, <2>1, <2>3
    <3> QED
      BY <1>2, <1>3, <3>1, <3>2, <3>3
      DEF EscalationInv, Escalating!TypeOK, Escalating!GrantsTypeOK
  <2>9. \A x \in Readings : reading'[x] \in {"NONE", "PENDING"} => Untouched(x)'
    BY <1>2, <2>6 DEF EscalationInv, NoticesFollow, Untouched
  <2>10. \A q \in Rounds : round[q].at = "notices" =>
            round[q].current \in Readings /\ round[q].current # r
    BY <2>2 DEF EscalationInv, NoticesFollow, Telling
  <2>11. Telling(round[p])'
    BY <1>2, <1>5, <2>2, <2>3, <2>4, <2>6, <2>7 DEF Telling, Untouched
  <2>12. Alone(p)'
    BY <2>3, <2>4, <2>10 DEF Alone
  <2>13. ASSUME NEW q \in Rounds
         PROVE  /\ round'[q].at # "idle" => round'[q].to \in Admins
                /\ round'[q].at = "notices" => Telling(round[q])' /\ Alone(q)'
    <3>1. CASE q = p
      BY <2>3, <2>4, <2>11, <2>12, <3>1
    <3>2. CASE q # p
      <4>1. round'[q] = round[q]
        BY <2>4, <3>2
      <4>2. /\ round[q].at # "idle" => round[q].to \in Admins
            /\ round[q].at = "notices" => Telling(round[q]) /\ Alone(q)
        BY DEF EscalationInv, NoticesFollow
      <4>3. round[q].at = "notices" => Telling(round[q])'
        BY <1>2, <2>6, <2>10, <4>1, <4>2 DEF Telling
      <4>4. round[q].at = "notices" => Alone(q)'
        BY <2>3, <2>4, <2>10, <4>1, <4>2 DEF Alone
      <4> QED
        BY <4>1, <4>2, <4>3, <4>4
    <3> QED
      BY <3>1, <3>2
  <2>14. NoticesFollow'
    BY <2>9, <2>13 DEF NoticesFollow, Telling
  <2>15. Escalating!NoticesAreOfEscalations'
    BY <1>2, <2>6, <2>7 DEF EscalationInv, Escalating!NoticesAreOfEscalations
  <2> QED
    BY <2>8, <2>14, <2>15 DEF EscalationInv
<1> QED
  BY <1>7, <1>8

LEMMA TellStep ==
  ASSUME EscalationHypotheses, EscalationInv, NEW p \in Rounds, Escalating!Notify(p)
  PROVE  EscalationInv'
<1> DEFINE v == round[p]
           r == round[p].current
<1>1. v \in Escalating!PassRecord /\ v.at = "notices" /\ v.to \in Admins /\ Telling(v) /\ Alone(p)
  BY RoundTypes DEF EscalationInv, NoticesFollow, Escalating!Notify
<1>2. UNCHANGED <<grants, active, reading, overdue, assignee>>
  BY DEF Escalating!Notify, Escalating!grantVars
<1>3. PICK u \in v.tell, report \in Escalating!Send(Sender) :
        /\ notes' = IF report.status = "NONE" THEN notes
                    ELSE [notes EXCEPT ![r][u] = Escalating!OneMore(@)]
        /\ round' = IF report.err = "panic" THEN [round EXCEPT ![p] = Escalating!Idle]
                    ELSE [round EXCEPT ![p] = [v EXCEPT !.tell = v.tell \ {u}]]
        /\ roundFaults' = IF report.err = "insert" THEN roundFaults + 1 ELSE roundFaults
        /\ roundFaults' <= MaxFaults
  BY RoundTypes DEF Escalating!Notify
<1>4. roundFaults' \in 0..MaxFaults
  BY <1>3 DEF EscalationInv, Escalating!TypeOK,
              EscalationHypotheses, Escalating!EscalationAssumption
<1>5. u \in Admins /\ r \in Readings /\ notes[r][u] = 0 /\ assignee[r] # None
      /\ reading[r] \notin {"NONE", "PENDING"}
  BY <1>1 DEF Escalating!PassRecord, Telling
<1>6. round \in [Rounds -> Escalating!PassRecord] /\ notes \in [Readings -> [Admins -> 0..2]]
  BY RoundTypes DEF EscalationInv, Escalating!TypeOK
<1>7. /\ notes' \in [Readings -> [Admins -> 0..2]]
      /\ \A x \in Readings : \A y \in Admins :
           \/ notes'[x][y] = notes[x][y]
           \/ x = r /\ y = u /\ notes'[x][y] = 1
  <2>1. CASE notes' = notes
    BY <1>6, <2>1
  <2>2. CASE notes' = [notes EXCEPT ![r][u] = Escalating!OneMore(@)]
    <3>1. Escalating!OneMore(notes[r][u]) = 1
      BY <1>5 DEF Escalating!OneMore
    <3> HIDE DEF r
    <3>2. notes' = [notes EXCEPT ![r] = [notes[r] EXCEPT ![u] = 1]]
      BY <1>5, <1>6, <2>2, <3>1
    <3> QED
      BY <1>5, <1>6, <3>2
  <2> QED
    BY <1>3, <2>1, <2>2
<1> DEFINE w == [v EXCEPT !.tell = v.tell \ {u}]
<1>8. PICK z \in {w, Escalating!Idle} : round' = [round EXCEPT ![p] = z]
  BY <1>3
<1>9. \A q \in Rounds : round'[q] = IF q = p THEN z ELSE round[q]
  BY <1>6, <1>8
<1> HIDE DEF v, r
<1>10. /\ z \in Escalating!PassRecord
       /\ z.at # "idle" => z.to \in Admins
       /\ z.at = "notices" => z.current = r /\ z.tell = v.tell \ {u}
  <2>1. CASE z = w
    BY <1>1, <2>1 DEF Escalating!PassRecord, r, v
  <2>2. CASE z = Escalating!Idle
    BY <2>2 DEF Escalating!Idle, Escalating!PassRecord, Escalating!Points
  <2> QED
    BY <2>1, <2>2
<1> HIDE DEF w
<1>11. Escalating!TypeOK'
  <2>1. round' \in [Rounds -> Escalating!PassRecord]
    BY <1>6, <1>8, <1>10
  <2> QED
    BY <1>2, <1>4, <1>7, <2>1 DEF EscalationInv, Escalating!TypeOK, Escalating!GrantsTypeOK
<1>12. \A x \in Readings : reading'[x] \in {"NONE", "PENDING"} => Untouched(x)'
  <2> SUFFICES ASSUME NEW x \in Readings, reading'[x] \in {"NONE", "PENDING"}
               PROVE  Untouched(x)'
    OBVIOUS
  <2>1. Untouched(x) /\ x # r
    BY <1>2, <1>5 DEF EscalationInv, NoticesFollow
  <2> QED
    BY <1>2, <1>7, <2>1 DEF Untouched
<1>13. ASSUME NEW q \in Rounds
       PROVE  /\ round'[q].at # "idle" => round'[q].to \in Admins
              /\ round'[q].at = "notices" => Telling(round[q])' /\ Alone(q)'
  <2>1. CASE q = p
    <3>1. z.at = "notices" => Telling(round[p])'
      <4>1. \A y \in v.tell : y \in Admins /\ notes[r][y] = 0
        BY <1>1 DEF Telling, r, v, Escalating!PassRecord
      <4>2. \A y \in v.tell \ {u} : notes'[r][y] = 0
        BY <1>5, <1>7, <4>1
      <4> QED
        BY <1>2, <1>5, <1>9, <1>10, <4>2 DEF Telling
    <3>2. z.at = "notices" => Alone(p)'
      BY <1>1, <1>9, <1>10 DEF Alone, r
    <3> QED
      BY <1>9, <1>10, <2>1, <3>1, <3>2
  <2>2. CASE q # p
    <3>1. round'[q] = round[q]
      BY <1>9, <2>2
    <3>2. /\ round[q].at # "idle" => round[q].to \in Admins
          /\ round[q].at = "notices" => Telling(round[q]) /\ Alone(q)
      BY DEF EscalationInv, NoticesFollow
    <3>3. round[q].at = "notices" => round[q].current # r
      BY <1>1, <2>2 DEF Alone, r
    <3>4. round[q].at = "notices" => Telling(round[q])'
      <4>1. \A y \in round[q].tell : y \in Admins
        BY RoundTypes
      <4> QED
        BY <1>2, <1>7, <3>1, <3>2, <3>3, <4>1 DEF Telling
    <3>5. round[q].at = "notices" => Alone(q)'
      BY <1>9, <1>10, <3>1, <3>2, <3>3 DEF Alone
    <3> QED
      BY <3>1, <3>2, <3>4, <3>5
  <2> QED
    BY <2>1, <2>2
<1>14. NoticesFollow'
  BY <1>12, <1>13 DEF NoticesFollow, Telling
<1>15. Escalating!NoticesAreOfEscalations'
  <2>1. \A x \in Readings : \A y \in Admins :
          notes[x][y] <= 1 /\ (notes[x][y] > 0 => assignee[x] # None)
    BY DEF EscalationInv, Escalating!NoticesAreOfEscalations
  <2> QED
    BY <1>2, <1>5, <1>7, <2>1 DEF Escalating!NoticesAreOfEscalations
<1> QED
  BY <1>11, <1>14, <1>15 DEF EscalationInv

LEMMA EscalationSteps ==
  ASSUME EscalationHypotheses, EscalationInv, [Escalating!Next]_(Escalating!vars)
  PROVE  EscalationInv'
<1>1. CASE \E r \in Readings : \/ Escalating!CreateWeightBridge(r)
                               \/ Escalating!ApproveWeightBridge(r)
                               \/ Escalating!Age(r)
  BY <1>1, ReadingsChange
<1>2. CASE \E p \in Rounds : Escalating!Run(p) \/ Escalating!Break(p)
  BY <1>2, ReadAdminsStep, ReadOverdueStep, EscalateStep, TellStep, NextReadingStep, RoundEnds
     DEF Escalating!Run
<1>3. CASE Escalating!Administer /\ UNCHANGED Escalating!jobVars
  <2>1. Escalating!GrantsTypeOK'
    BY <1>3, AdministerTypes DEF EscalationInv, Escalating!TypeOK
  <2> QED
    BY <1>3, <2>1 DEF Escalating!jobVars, EscalationInv, Escalating!TypeOK, NoticesFollow,
                      Untouched, Telling, Alone, Escalating!NoticesAreOfEscalations
<1>4. CASE UNCHANGED Escalating!vars
  BY <1>4 DEF Escalating!vars, Escalating!grantVars, Escalating!jobVars, EscalationInv,
              Escalating!TypeOK, Escalating!GrantsTypeOK, NoticesFollow, Untouched, Telling,
              Alone, Escalating!NoticesAreOfEscalations
<1> QED
  BY <1>1, <1>2, <1>3, <1>4 DEF Escalating!Next

LEMMA EscalationInvariant ==
  EscalationHypotheses => (Escalating!Spec => []EscalationInv)
<1> SUFFICES ASSUME EscalationHypotheses PROVE Escalating!Spec => []EscalationInv
  OBVIOUS
<1>1. Escalating!Init => EscalationInv
  BY EscalationStarts
<1>2. EscalationInv /\ [Escalating!Next]_(Escalating!vars) => EscalationInv'
  BY EscalationSteps
<1> QED
  BY <1>1, <1>2, PTL DEF Escalating!Spec

\* An administrator gets at most one row for a reading, and only for one that
\* was escalated, however many workers run the job at once and wherever they
\* break off: it is the condition of the update in
\* EscalateWeightBridgeReading that lets one pass only tell of a reading.
THEOREM NoticesFollowEscalations ==
  EscalationHypotheses => (Escalating!Spec => []NoticesAreOfEscalations)
<1> SUFFICES ASSUME EscalationHypotheses
             PROVE  Escalating!Spec => []NoticesAreOfEscalations
  OBVIOUS
<1>1. EscalationInv => NoticesAreOfEscalations
  BY DEF EscalationInv, NoticesAreOfEscalations
<1> QED
  BY <1>1, EscalationInvariant, PTL

-----------------------------------------------------------------------------
\* The variables of all jobs keep their types, passes and logs included.
THEOREM WorkerTypes == WorkerAssumption => (WorkerSpec => []TypesOK)
<1> SUFFICES ASSUME WorkerAssumption PROVE WorkerSpec => []TypesOK
  OBVIOUS
<1>1. Spec => []DeviationInv
  BY DeviationInvariant DEF WorkerAssumption
<1>2. Expiry!Spec => []ExpiryInv
  <2>1. Expiry!Init => ExpiryInv
    BY ExpiryStarts DEF WorkerAssumption
  <2>2. ExpiryInv /\ [Expiry!Next]_(Expiry!vars) => ExpiryInv'
    BY ExpirySteps DEF WorkerAssumption
  <2> QED
    BY <2>1, <2>2, PTL DEF Expiry!Spec
<1>3. Escalating!Spec => []EscalationInv
  BY EscalationInvariant DEF WorkerAssumption
<1>4. DeviationInv /\ ExpiryInv /\ EscalationInv => TypesOK
  BY DEF DeviationInv, ExpiryInv, EscalationInv, TypesOK
<1> QED
  BY <1>1, <1>2, <1>3, <1>4, PTL DEF WorkerSpec
===============================================================================
