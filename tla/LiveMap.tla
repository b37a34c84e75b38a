------------------------------- MODULE LiveMap -------------------------------
(***************************************************************************)
(* The live map: GPS points published on ws:trip:* (internal/handler/      *)
(* gps.go), the bridge that broadcasts them (internal/ws), and the pages   *)
(* that draw them: seeded by the server (internal/handler/dashboard.go),   *)
(* updated and reconnected by static/js/map.js.                            *)
(*                                                                         *)
(* One goroutine of the API receives the messages and writes each to every *)
(* registered socket, one after the other, in the order of a Go map, that  *)
(* is in any order.  It holds the read lock of the hub while it does.      *)
(* Sockets join and leave under the write lock.  A write waits while the   *)
(* buffers to a page are full: no deadline is set on it.                   *)
(***************************************************************************)
EXTENDS Naturals, Sequences, FiniteSets

CONSTANTS
  Trips,
  Pages,        \* browser pages with a map
  Conns,        \* sockets; a page that reconnects takes another one
  FacilityOf,   \* [Trips -> facilities]: origin_facility_id
  ScopesOf,     \* what each page may be opened for: facilities, "company"
  Points,       \* the points of a trip, numbered by event_timestamp
  Exact,        \* the points whose coordinates a binary float holds exactly
  Sleepers,     \* pages that may stop reading and stay connected
  Buffer,       \* messages that fit between the API and a page
  MaxFaults     \* bound: broken sockets, lost subscriptions, failed publishing

\* Of the constants; MCPositions assumes it of theirs.
MapAssumption ==
  /\ Points \subseteq Nat \ {0}
  /\ IsFiniteSet(Conns)
  /\ Buffer \in Nat
  /\ MaxFaults \in Nat

VARIABLES
  status,       \* "before", "active" or "over", per trip
  rows,         \* gps_events: the points stored, per trip
  unpublished,  \* stored, and about to be published
  channel,      \* messages on their way from Valkey to the bridge
  bridge,       \* the broadcast under way: [msg, left]
  conn,         \* the sockets
  wire,         \* messages on their way to a page, per socket
  page,         \* what each page knows and draws
  owed,         \* history: broadcasts a page has still to handle
  faults        \* faults so far

feedVars == <<status, rows, unpublished>>
vars == <<feedVars, channel, bridge, conn, wire, page, owed, faults>>

Message == [trip : Trips, point : Points]
NoConn == [stage |-> "free", alive |-> FALSE, page |-> "none"]
NoPage == [loaded |-> FALSE, scope |-> "none", awake |-> TRUE, known |-> {}, marker |-> [t \in Trips |-> 0]]
Waiting == [msg |-> <<>>, left |-> <<>>]

TypeOK ==
  /\ status \in [Trips -> {"before", "active", "over"}]
  /\ rows \in [Trips -> SUBSET Points]
  /\ unpublished \subseteq {m \in Message : m.point \in rows[m.trip]}
  /\ channel \in Seq(Message)
  /\ bridge = Waiting \/ (bridge.msg \in Message /\ bridge.left \in Seq(Conns))
  /\ conn \in [Conns -> [stage : {"free", "upgraded", "registered"}, alive : BOOLEAN,
                         page : Pages \cup {"none"}]]
  /\ \A c \in Conns : Len(wire[c]) <= Buffer /\ wire[c] \in Seq(Message)
  /\ page \in [Pages -> [loaded : BOOLEAN, scope : {"none"} \cup UNION {ScopesOf[p] : p \in Pages},
                         awake : BOOLEAN, known : SUBSET Trips,
                         marker : [Trips -> Points \cup {0}]]]
  /\ owed \in SUBSET (Message \X Conns)
  /\ faults \in 0..MaxFaults

Init ==
  /\ status = [t \in Trips |-> "before"]
  /\ rows = [t \in Trips |-> {}]
  /\ unpublished = {}
  /\ channel = <<>>
  /\ bridge = Waiting
  /\ conn = [c \in Conns |-> NoConn]
  /\ wire = [c \in Conns |-> <<>>]
  /\ page = [p \in Pages |-> NoPage]
  /\ owed = {}
  /\ faults = 0

Fault == faults < MaxFaults /\ faults' = faults + 1

-------------------------------------------------------------------------------
(* Trips and their points. *)

StartTrip(t) ==
  /\ status[t] = "before"
  /\ status' = [status EXCEPT ![t] = "active"]
  /\ UNCHANGED <<rows, unpublished, channel, bridge, conn, wire, page, owed, faults>>

EndTrip(t) ==
  /\ status[t] = "active"
  /\ status' = [status EXCEPT ![t] = "over"]
  /\ UNCHANGED <<rows, unpublished, channel, bridge, conn, wire, page, owed, faults>>

\* Points arrive in any order: a phone sends what it kept when it is online
\* again.  The status of the trip is not looked at.
InsertGPSEvent(m) ==
  /\ m.point \notin rows[m.trip]
  /\ rows' = [rows EXCEPT ![m.trip] = @ \cup {m.point}]
  /\ unpublished' = unpublished \cup {m}
  /\ UNCHANGED <<status, channel, bridge, conn, wire, page, owed, faults>>

Publish(m) ==
  /\ m \in unpublished
  /\ unpublished' = unpublished \ {m}
  /\ channel' = Append(channel, m)
  /\ UNCHANGED <<status, rows, bridge, conn, wire, page, owed, faults>>

PublishFails(m) ==
  /\ m \in unpublished
  /\ Fault
  /\ unpublished' = unpublished \ {m}
  /\ UNCHANGED <<status, rows, channel, bridge, conn, wire, page, owed>>

\* The client subscribes again; what was under way is gone.
LoseSubscription ==
  /\ channel # <<>>
  /\ Fault
  /\ channel' = <<>>
  /\ UNCHANGED <<feedVars, bridge, conn, wire, page, owed>>

-------------------------------------------------------------------------------
(* The hub. *)

Clients == {c \in Conns : conn[c].stage = "registered"}
ReadLocked == bridge # Waiting
Orders(S) == {o \in [1..Cardinality(S) -> S] : \A i, j \in DOMAIN o : i # j => o[i] # o[j]}

\* The callback of RunValkeyBridge: the next message is received when the
\* broadcast of the one before has returned.
BroadcastText ==
  /\ ~ReadLocked
  /\ channel # <<>>
  /\ channel' = Tail(channel)
  /\ IF Clients = {} THEN UNCHANGED bridge
     ELSE \E o \in Orders(Clients) : bridge' = [msg |-> Head(channel), left |-> o]
  /\ owed' = owed \cup {<<Head(channel), c>> : c \in {k \in Clients : conn[k].alive}}
  /\ UNCHANGED <<feedVars, conn, wire, page, faults>>

\* Slip: when a write fails, the message is given up.
GiveUp(left) == <<>>
AfterError(left) == Tail(left)

Unlock(left) == bridge' = IF left = <<>> THEN Waiting ELSE [bridge EXCEPT !.left = left]

\* The error of a write is ignored.
WriteMessage ==
  /\ ReadLocked
  /\ LET c == Head(bridge.left) IN
       \/ /\ conn[c].alive
          /\ Len(wire[c]) < Buffer
          /\ wire' = [wire EXCEPT ![c] = Append(@, bridge.msg)]
          /\ Unlock(Tail(bridge.left))
       \/ /\ ~conn[c].alive
          /\ Unlock(AfterError(bridge.left))
          /\ UNCHANGED wire
  /\ UNCHANGED <<feedVars, channel, conn, page, owed, faults>>

WriteLockFree == ~ReadLocked

\* The rest of HandleUpgrade.
Register(c) ==
  /\ conn[c].stage = "upgraded"
  /\ WriteLockFree
  /\ conn' = [conn EXCEPT ![c].stage = "registered"]
  /\ UNCHANGED <<feedVars, channel, bridge, wire, page, owed, faults>>

\* Slip: a broken socket is noticed when something is to be sent.
WriteEnds(c) == ~conn[c].alive /\ channel # <<>>
ReadEnds(c) == ~conn[c].alive

\* The read loop of a socket ends with the error of ReadMessage.
Remove(c) ==
  /\ conn[c].stage = "registered"
  /\ ReadEnds(c)
  /\ WriteLockFree
  /\ conn' = [conn EXCEPT ![c] = NoConn]
  /\ UNCHANGED <<feedVars, channel, bridge, wire, page, owed, faults>>

-------------------------------------------------------------------------------
(* The pages. *)

HasSocket(p) == \E c \in Conns : conn[c].alive /\ conn[c].page = p
Latest(t) == CHOOSE n \in rows[t] \cup {0} : \A k \in rows[t] : k <= n

\* The query of the seed: the latest row of the trips under way.
ListActiveTripsWithLatestGPS == {t \in Trips : status[t] = "active"}
\* Slip: a facility's page is seeded with every trip.
EveryTrip(scope) == ListActiveTripsWithLatestGPS
filterDashboardTripsByFacility(scope) ==
  {t \in ListActiveTripsWithLatestGPS : scope \in {"company", FacilityOf[t]}}

\* A coordinate that a binary float does not hold exactly is left out.
numericToFloat64(n) == IF n \in Exact THEN n ELSE 0

Load(p) ==
  /\ ~page[p].loaded
  /\ \E scope \in ScopesOf[p] : LET seed == filterDashboardTripsByFacility(scope) IN
       page' = [page EXCEPT ![p] =
         [loaded |-> TRUE, scope |-> scope, awake |-> TRUE, known |-> seed,
          marker |-> [t \in Trips |-> IF t \in seed THEN numericToFloat64(Latest(t)) ELSE 0]]]
  /\ UNCHANGED <<feedVars, channel, bridge, conn, wire, owed, faults>>

\* connect() of map.js, at once and two seconds after a close.
Connect(p) ==
  /\ page[p].loaded /\ page[p].awake
  /\ ~HasSocket(p)
  /\ \E c \in Conns :
       /\ conn[c].stage = "free"
       /\ conn' = [conn EXCEPT ![c] = [stage |-> "upgraded", alive |-> TRUE, page |-> p]]
  /\ UNCHANGED <<feedVars, channel, bridge, wire, page, owed, faults>>

Drawn(p, m) == page[p].scope = "company" \/ m.trip \in page[p].known

upsertTrip(p, m) ==
  IF Drawn(p, m)
  THEN page' = [page EXCEPT ![p].known = @ \cup {m.trip}, ![p].marker[m.trip] = m.point]
  ELSE UNCHANGED page

\* The message handler of map.js.
OnMessage(c) ==
  /\ conn[c].alive /\ wire[c] # <<>>
  /\ page[conn[c].page].awake
  /\ wire' = [wire EXCEPT ![c] = Tail(@)]
  /\ upsertTrip(conn[c].page, Head(wire[c]))
  /\ owed' = owed \ {<<Head(wire[c]), c>>}
  /\ UNCHANGED <<feedVars, channel, bridge, conn, faults>>

\* A suspended laptop or a frozen tab: the socket stays, nobody reads.
Sleep(p) ==
  /\ p \in Sleepers /\ page[p].loaded /\ page[p].awake
  /\ page' = [page EXCEPT ![p].awake = FALSE]
  /\ UNCHANGED <<feedVars, channel, bridge, conn, wire, owed, faults>>

Closed(S) ==
  /\ conn' = [c \in Conns |-> IF c \in S THEN [conn[c] EXCEPT !.alive = FALSE] ELSE conn[c]]
  /\ wire' = [c \in Conns |-> IF c \in S THEN <<>> ELSE wire[c]]
  /\ owed' = {o \in owed : o[2] \notin S}

Break(c) ==
  /\ conn[c].alive
  /\ Fault
  /\ Closed({c})
  /\ UNCHANGED <<feedVars, channel, bridge, page>>

Leave(p) ==
  /\ page[p].loaded
  /\ page' = [page EXCEPT ![p] = NoPage]
  /\ Closed({c \in Conns : conn[c].page = p})
  /\ UNCHANGED <<feedVars, channel, bridge, faults>>

-------------------------------------------------------------------------------

Next ==
  \/ \E t \in Trips : StartTrip(t) \/ EndTrip(t)
  \/ \E m \in Message : InsertGPSEvent(m) \/ Publish(m) \/ PublishFails(m)
  \/ LoseSubscription \/ BroadcastText \/ WriteMessage
  \/ \E c \in Conns : Register(c) \/ Remove(c) \/ OnMessage(c) \/ Break(c)
  \/ \E p \in Pages : Load(p) \/ Connect(p) \/ Sleep(p) \/ Leave(p)

Spec == Init /\ [][Next]_vars

\* The goroutines of the API and the pages that are awake go on.  Nothing is
\* assumed of a page that sleeps, nor of trips, points and users.
Fairness ==
  /\ WF_vars(BroadcastText \/ WriteMessage)
  /\ \A c \in Conns : SF_vars(Register(c) \/ Remove(c)) /\ WF_vars(OnMessage(c))
FairSpec == Spec /\ Fairness

-------------------------------------------------------------------------------
(* What the map shows. *)

\* A marker stands where a stored point of its trip is (gps.go publishes what it
\* has stored; the seed reads the table), and on a facility's map only for a trip
\* that starts there: the hub sends every message to every page, and only the
\* seed's filter and map.js's together keep the others out.  Through reconnects,
\* lost messages and trips that end.
MarkersAreTrue ==
  \A p \in Pages, t \in Trips : page[p].marker[t] # 0 =>
    /\ page[p].marker[t] \in rows[t]
    /\ page[p].scope \in {"company", FacilityOf[t]}

\* A position that the bridge receives is drawn on every page that is connected
\* and knows the trip, unless its socket breaks: whatever happens to the sockets
\* of other pages, as long as no page sleeps for ever.  One that does fills its
\* buffer and stops all maps, because hub.go sets no deadline (SKILL.md:
\* "Ping interval: 30s. Read deadline: 60s.").
PublishedIsShown == <>[](\A p \in Pages : page[p].awake) => []<>(owed = {})

\* A socket that breaks is taken out of the hub, under the same condition.
DeadSocketsAreRemoved ==
  <>[](\A p \in Pages : page[p].awake) =>
    \A c \in Conns : []<>~(conn[c].stage = "registered" /\ ~conn[c].alive)
===============================================================================
