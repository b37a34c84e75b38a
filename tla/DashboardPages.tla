---------------------------- MODULE DashboardPages ----------------------------
(***************************************************************************)
(* Who sees what on the dashboard (internal/handler/dashboard*.go) and in  *)
(* the API's scoped lists and routes (vehicle.go, station.go, trip.go,     *)
(* middleware/rbac.go).                                                    *)
(*                                                                         *)
(* The rules are written several times over in the code: a page that shows *)
(* one item asks whether any grant of the session covers it, a page that   *)
(* lists items picks the best grant and runs the query of its scope, the   *)
(* navigation asks for roles alone, the landing page takes the first grant *)
(* of a kind, and the API has its own copy of the lists.  This module has  *)
(* each rule as the code states it, over a small network of facilities,    *)
(* stations, vehicles and trips, and compares them.                        *)
(*                                                                         *)
(* A session holds the grants its user had at login, in the order of       *)
(* GetActiveRolesForUser.  A change of the grants and the next login are   *)
(* one step here; Sessions has what happens in between.                    *)
(***************************************************************************)
EXTENDS Integers, FiniteSets, Sequences, FiniteSetsExt, SequencesExt

CONSTANTS
  Facilities, Stations, Depots, Vehicles,
  Orders,          \* delivery orders, each with its trip
  RefineryOf,      \* the refinery of a facility
  DepotFacility,   \* the primary facility of a depot
  VehicleOf,       \* the vehicle of an order's trip
  Offered,         \* the grants administrators give
  MaxGrants,       \* bound: grants of one user
  None

Rank ==
  [DRIVER |-> 1, STATION_MANAGER |-> 2, DEPOT_STAFF |-> 3, FACILITY_OPERATOR |-> 4,
   FACILITY_MANAGER |-> 5, REFINERY_ADMIN |-> 6, SYSTEM_ADMIN |-> 7, NOBODY |-> 0]

UserRole ==
  <<"SYSTEM_ADMIN", "REFINERY_ADMIN", "FACILITY_MANAGER", "FACILITY_OPERATOR",
    "DEPOT_STAFF", "STATION_MANAGER", "DRIVER">>
RoleScope == <<"COMPANY", "REGION", "REFINERY", "FACILITY", "DEPOT", "STATION">>

Grant(role, scope, id) == [role |-> role, scope |-> scope, id |-> id]
Nobody == Grant("NOBODY", "COMPANY", None)

\* Of the constants; MCAccess assumes it of its own.  A grant has one of the
\* roles of the enumeration; only a COMPANY grant may have no id, and the
\* handlers store 0 for it.
PagesAssumption ==
  \A g \in Offered :
    /\ \E i \in DOMAIN UserRole : g.role = UserRole[i]
    /\ g.id # None

VARIABLES
  session,    \* the grants of the logged-in user, in order, or None
  primary,    \* a station's primary facility
  whitelist,  \* the pairs <<facility, station>> that may be served
  parked,     \* a vehicle's current depot, or None
  origin,     \* an order's origin facility
  dest,       \* an order's destination station, or None for a facility
  live        \* stations and vehicles that are active, trips that are on

network == <<primary, whitelist, parked, origin, dest, live>>
vars == <<session, network>>

-------------------------------------------------------------------------------
(* Grants and sessions. *)

Place(seq, x) == CHOOSE i \in DOMAIN seq : seq[i] = x

\* ORDER BY role, scope_type; rows that agree in both come in any order.
ActiveRoles(grants) ==
  {s \in SetToSeqs(grants) : \A i, j \in DOMAIN s : i < j =>
     \/ Place(UserRole, s[i].role) < Place(UserRole, s[j].role)
     \/ /\ s[i].role = s[j].role
        /\ Place(RoleScope, s[i].scope) <= Place(RoleScope, s[j].scope)}

TypeOK ==
  /\ session # None => ToSet(session) \subseteq Offered
  /\ primary \in [Stations -> Facilities]
  /\ whitelist \subseteq Facilities \X Stations
  /\ parked \in [Vehicles -> Depots \cup {None}]
  /\ origin \in [Orders -> Facilities]
  /\ dest \in [Orders -> Stations \cup {None}]
  /\ live \subseteq Stations \cup Vehicles \cup Orders

Init ==
  /\ session = None
  /\ primary \in [Stations -> Facilities]
  /\ whitelist \in SUBSET (Facilities \X Stations)
  /\ parked \in [Vehicles -> Depots \cup {None}]
  /\ origin \in [Orders -> Facilities]
  /\ dest \in [Orders -> Stations \cup {None}]
  /\ live \in {Stations \cup Vehicles \cup Orders, Stations, {}}

Held == IF session = None THEN {} ELSE ToSet(session)

\* A session is a copy: a change of grants is seen with the login that follows
\* (how stale a copy may be is the subject of Sessions).
LoginDashboard(grants) ==
  /\ session' \in ActiveRoles(grants)
  /\ UNCHANGED network

GrantRole(g) == g \notin Held /\ Cardinality(Held) < MaxGrants /\ LoginDashboard(Held \cup {g})

RevokeRole(g) == g \in Held /\ LoginDashboard(Held \ {g})

Logout == session # None /\ session' = None /\ UNCHANGED network

Next == (\E g \in Offered : GrantRole(g) \/ RevokeRole(g)) \/ Logout
Spec == Init /\ [][Next]_vars

-------------------------------------------------------------------------------
(* What a grant covers. *)

HasRole(s, roles) == \E i \in DOMAIN s : s[i].role \in roles
AdminRoles == {"SYSTEM_ADMIN", "REFINERY_ADMIN"}
FacilityRoles == {"FACILITY_MANAGER", "FACILITY_OPERATOR"}

IsSystem(g) == g.role = "SYSTEM_ADMIN"
OfRefinery(g) == g.role = "REFINERY_ADMIN" /\ g.scope = "REFINERY"
OfFacility(g) == g.role \in FacilityRoles /\ g.scope = "FACILITY"
OfDepot(g) == g.role = "DEPOT_STAFF" /\ g.scope = "DEPOT"
OfStation(g) == g.role = "STATION_MANAGER" /\ g.scope = "STATION"

BestRole(s) ==
  IF s = <<>> THEN Nobody
  ELSE s[Min({i \in DOMAIN s : \A j \in DOMAIN s : Rank[s[i].role] >= Rank[s[j].role]})]

FirstOf(s, Covers(_)) ==
  LET at == {i \in DOMAIN s : Covers(s[i])}
  IN  IF at = {} THEN Nobody ELSE s[Min(at)]

CanViewFacility(s, f) ==
  \/ HasRole(s, AdminRoles)
  \/ \E i \in DOMAIN s : OfFacility(s[i]) /\ s[i].id = f

CanViewStation(s, t) ==
  \/ HasRole(s, AdminRoles)
  \/ \E i \in DOMAIN s : OfStation(s[i]) /\ s[i].id = t

CanViewStationPages(s) == HasRole(s, AdminRoles \cup FacilityRoles \cup {"STATION_MANAGER"})
CanViewFleet(s) == HasRole(s, AdminRoles \cup FacilityRoles \cup {"DEPOT_STAFF"})
CanManageUsers(s) == HasRole(s, {"SYSTEM_ADMIN"})
CanViewDeliveryOrderPages(s) == HasRole(s, AdminRoles \cup FacilityRoles)
CanViewTripPages(s) == HasRole(s, AdminRoles \cup FacilityRoles \cup {"STATION_MANAGER"})

CanViewTripDetail(s, o) ==
  CanViewFacility(s, origin[o]) \/ (dest[o] # None /\ CanViewStation(s, dest[o]))

-------------------------------------------------------------------------------
(* The scoped queries. *)

ListAllActiveStations == Stations \cap live
ListStationsByRefinery(r) == {t \in Stations \cap live : RefineryOf[primary[t]] = r}
ListStationsServedByFacility(f) == {t \in Stations \cap live : <<f, t>> \in whitelist}
ListStationsByStation(t) == {t} \cap Stations \cap live

ListVehicles == Vehicles \cap live
ListVehiclesByDepot(d) == {v \in ListVehicles : parked[v] = d}
ListVehiclesByFacility(f) == {v \in ListVehicles : parked[v] # None /\ DepotFacility[parked[v]] = f}
ListVehiclesByRefinery(r) ==
  {v \in ListVehicles : parked[v] # None /\ RefineryOf[DepotFacility[parked[v]]] = r}

ListActiveTrips == Orders \cap live
ListTripsByRefinery(r) == {o \in ListActiveTrips : RefineryOf[origin[o]] = r}
ListTripsByFacility(f) == {o \in ListActiveTrips : origin[o] = f}
ListTripsByStation(t) == {o \in ListActiveTrips : dest[o] = t}

ListDOsByOriginFacility(f) == {o \in Orders : origin[o] = f}
ListTripsByVehicle(v) == {o \in Orders : VehicleOf[o] = v}
StationDeliveries(t) == {o \in Orders : dest[o] = t}

-------------------------------------------------------------------------------
(* The lists of the dashboard: refused, or the rows of the best grant. *)

Refused == [open |-> FALSE, rows |-> {}]
Rows(set) == [open |-> TRUE, rows |-> set]

StationRows(s) ==
  LET best == BestRole(s) IN
  CASE IsSystem(best)   -> Rows(ListAllActiveStations)
    [] OfRefinery(best) -> Rows(ListStationsByRefinery(best.id))
    [] OfFacility(best) -> Rows(ListStationsServedByFacility(best.id))
    [] OfStation(best)  -> Rows(ListStationsByStation(best.id))
    [] OTHER            -> Refused

FleetRows(s) ==
  LET best == BestRole(s) IN
  CASE IsSystem(best)   -> Rows(ListVehicles)
    [] OfRefinery(best) -> Rows(ListVehiclesByRefinery(best.id))
    [] OfFacility(best) -> Rows(ListVehiclesByFacility(best.id))
    [] OfDepot(best)    -> Rows(ListVehiclesByDepot(best.id))
    [] OTHER            -> Refused

TripRows(s) ==
  LET best == BestRole(s) IN
  CASE IsSystem(best)   -> Rows(ListActiveTrips)
    [] OfRefinery(best) -> Rows(ListTripsByRefinery(best.id))
    [] OfFacility(best) -> Rows(ListTripsByFacility(best.id))
    [] OfStation(best)  -> Rows(ListTripsByStation(best.id))
    [] OTHER            -> Refused

-------------------------------------------------------------------------------
(* The same lists as the API answers them, and its scoped routes. *)

DisallowDriver(s) == HasRole(s, {"DRIVER"}) => \E i \in DOMAIN s : Rank[s[i].role] > Rank.DRIVER

ApiStations(s) ==
  LET best == BestRole(s) IN
  CASE IsSystem(best)   -> Rows(ListAllActiveStations)
    [] OfRefinery(best) -> Rows(ListStationsByRefinery(best.id))
    [] OfFacility(best) -> Rows(ListStationsServedByFacility(best.id))
    [] OfDepot(best)    -> Rows(ListStationsServedByFacility(DepotFacility[best.id]))
    [] OfStation(best)  -> Rows(ListStationsByStation(best.id))
    [] OTHER            -> Refused

ApiVehicles(s) ==
  LET best == BestRole(s) IN
  CASE IsSystem(best)   -> Rows(ListVehicles)
    [] OfRefinery(best) -> Rows(ListVehiclesByRefinery(best.id))
    [] OfFacility(best) -> Rows(ListVehiclesByFacility(best.id))
    [] OfDepot(best)    -> Rows(ListVehiclesByDepot(best.id))
    [] OTHER            -> Refused

\* A driver's own trips are left out: the network has no drivers.
ApiTrips(s) ==
  LET best == BestRole(s) IN
  CASE IsSystem(best)   -> Rows(ListActiveTrips)
    [] OfRefinery(best) -> Rows(ListTripsByRefinery(best.id))
    [] OfFacility(best) -> Rows(ListTripsByFacility(best.id))
    [] OfDepot(best)    -> Rows(ListTripsByFacility(DepotFacility[best.id]))
    [] OfStation(best)  -> Rows(ListTripsByStation(best.id))
    [] OTHER            -> Refused

FacilityOf(scope, id) ==
  CASE scope = "FACILITY" -> id
    [] scope = "DEPOT"    -> DepotFacility[id]
    [] scope = "STATION"  -> primary[id]

\* Slip: the scope's kind is compared and its identifier is not.
RequiredRoleAnyScope(s, role, scope, id) ==
  \E i \in DOMAIN s : Rank[s[i].role] >= Rank[role] /\ (IsSystem(s[i]) \/ s[i].scope = scope)

RequiredRole(s, role, scope, id) ==
  \E i \in DOMAIN s :
    LET g == s[i] IN
    \/ IsSystem(g)
    \/ /\ Rank[g.role] >= Rank[role]
       /\ \/ g.scope = scope /\ g.id = id
          \/ OfRefinery(g) /\ scope # "REFINERY" /\ RefineryOf[FacilityOf(scope, id)] = g.id
          \/ g.scope = "FACILITY" /\ scope \in {"DEPOT", "STATION"} /\ FacilityOf(scope, id) = g.id

-------------------------------------------------------------------------------
(* The pages: which open, where they redirect, what they link to. *)

Page(kind, id) == [kind |-> kind, id |-> id]
Home == Page("home", None)
StationList == Page("stations", None)
FleetList == Page("fleet", None)
TripList == Page("trips", None)
OrderQueues == Page("delivery-orders", None)
UserList == Page("users", None)
ItemPages ==
  [kind : {"facility", "queue"}, id : Facilities] \cup [kind : {"station"}, id : Stations]
    \cup [kind : {"vehicle"}, id : Vehicles] \cup [kind : {"order", "trip", "weigh"}, id : Orders]

LandingPath(s) ==
  IF HasRole(s, AdminRoles) THEN Home
  ELSE IF FirstOf(s, OfFacility) # Nobody THEN Page("facility", FirstOf(s, OfFacility).id)
  ELSE IF FirstOf(s, OfStation) # Nobody THEN Page("station", FirstOf(s, OfStation).id)
  ELSE IF HasRole(s, {"DEPOT_STAFF"}) THEN FleetList
  ELSE Home

FacilityScope(s) == FirstOf(s, OfFacility)

\* Where the handler of a page sends the browser: elsewhere, or nowhere.
Redirect(s, p) ==
  CASE p = Home -> LandingPath(s)
    [] p = OrderQueues /\ FacilityScope(s) # Nobody -> Page("queue", FacilityScope(s).id)
    [] OTHER -> p

\* Slip: only the primary facility's staff may open a station.
CanViewStationPagePrimary(s, t) ==
  \E i \in DOMAIN s :
    \/ IsSystem(s[i])
    \/ OfRefinery(s[i]) /\ RefineryOf[primary[t]] = s[i].id
    \/ OfFacility(s[i]) /\ primary[t] = s[i].id
    \/ OfStation(s[i]) /\ s[i].id = t

CanViewStationPage(s, t) ==
  \E i \in DOMAIN s :
    \/ IsSystem(s[i])
    \/ OfRefinery(s[i]) /\ RefineryOf[primary[t]] = s[i].id
    \/ OfFacility(s[i]) /\ (primary[t] = s[i].id \/ t \in ListStationsServedByFacility(s[i].id))
    \/ OfStation(s[i]) /\ s[i].id = t

\* Slip: the vehicle's page goes by the best grant, as the list does.
CanViewVehiclePageBest(s, v) ==
  LET best == BestRole(s) IN
  \/ IsSystem(best)
  \/ /\ parked[v] # None
     /\ \/ OfDepot(best) /\ parked[v] = best.id
        \/ OfFacility(best) /\ DepotFacility[parked[v]] = best.id
        \/ OfRefinery(best) /\ RefineryOf[DepotFacility[parked[v]]] = best.id

CanViewVehiclePage(s, v) ==
  \E i \in DOMAIN s :
    \/ IsSystem(s[i])
    \/ /\ parked[v] # None
       /\ \/ OfDepot(s[i]) /\ parked[v] = s[i].id
          \/ OfFacility(s[i]) /\ DepotFacility[parked[v]] = s[i].id
          \/ OfRefinery(s[i]) /\ RefineryOf[DepotFacility[parked[v]]] = s[i].id

Opens(s, p) ==
  CASE p.kind = "home" -> LandingPath(s) = Home
    [] p.kind = "stations" -> CanViewStationPages(s) /\ StationRows(s).open
    [] p.kind = "fleet" -> FleetRows(s).open
    [] p.kind = "trips" -> TripRows(s).open
    [] p.kind = "delivery-orders" -> CanViewDeliveryOrderPages(s)
    [] p.kind = "users" -> CanManageUsers(s)
    [] p.kind \in {"facility", "queue"} -> CanViewFacility(s, p.id)
    [] p.kind = "station" -> CanViewStationPage(s, p.id)
    [] p.kind = "vehicle" -> CanViewFleet(s) /\ CanViewVehiclePage(s, p.id)
    [] p.kind = "order" -> CanViewFacility(s, origin[p.id])
    [] p.kind \in {"trip", "weigh"} -> CanViewTripDetail(s, p.id)

Nav(s) ==
  LET landing == LandingPath(s) IN
  {landing}
    \cup {p \in {StationList} : CanViewStationPages(s) /\ landing.kind # "station"}
    \cup {p \in {FleetList} : CanViewFleet(s)}
    \cup {p \in {UserList} : CanManageUsers(s)}
    \cup {p \in {OrderQueues} : CanViewDeliveryOrderPages(s)}
    \cup {p \in {TripList} : CanViewTripPages(s)}

\* The links of the templates, the trail above the heading (topbar.html)
\* included.  What the summary of the company lists is every facility.
HomeLinks == {Page("facility", f) : f \in Facilities}
FacilityLinks == {Home}
StationListLinks(s) == {Page("station", t) : t \in StationRows(s).rows}
FleetLinks(s) == {Page("vehicle", v) : v \in FleetRows(s).rows}
TripListLinks(s) == {Page("trip", o) : o \in TripRows(s).rows}
QueuesLinks == {Page("queue", f) : f \in Facilities}
QueueLinks(f) == {OrderQueues} \cup {Page("order", o) : o \in ListDOsByOriginFacility(f)}
OrderLinks(o) == {OrderQueues, Page("queue", origin[o]), Page("trip", o)}
TripLinks(o) == {TripList, Page("order", o), Page("weigh", o)}
WeighLinks(o) == {TripList, Page("trip", o)}
VehicleLinks(v) == {FleetList} \cup {Page("trip", o) : o \in ListTripsByVehicle(v)}
StationLinks(t) == {StationList} \cup {Page("trip", o) : o \in StationDeliveries(t)}

Links(s, p) ==
  CASE p.kind = "home" -> HomeLinks
    [] p.kind = "facility" -> FacilityLinks
    [] p.kind = "stations" -> StationListLinks(s)
    [] p.kind = "fleet" -> FleetLinks(s)
    [] p.kind = "trips" -> TripListLinks(s)
    [] p.kind = "delivery-orders" -> QueuesLinks
    [] p.kind = "queue" -> QueueLinks(p.id)
    [] p.kind = "order" -> OrderLinks(p.id)
    [] p.kind = "trip" -> TripLinks(p.id)
    [] p.kind = "weigh" -> WeighLinks(p.id)
    [] p.kind = "vehicle" -> VehicleLinks(p.id)
    [] p.kind = "station" -> StationLinks(p.id)
    [] OTHER -> {}

-------------------------------------------------------------------------------
(* What the rules owe each other. *)

LoggedIn == session # None
ListPages == {Home, StationList, FleetList, TripList, OrderQueues}
Arrives(s, p) == Opens(s, Redirect(s, p))

\* The roles with the scope that their pages and queries expect; a driver has
\* no page of the dashboard, whatever the scope.
WellScoped(s) ==
  \A i \in DOMAIN s :
    \/ IsSystem(s[i]) \/ OfRefinery(s[i]) \/ OfFacility(s[i]) \/ OfDepot(s[i]) \/ OfStation(s[i])
    \/ s[i].role = "DRIVER"

\* The links that some users are shown and refused: the company's facilities by
\* one who is a driver and nothing else, and lands on the overview; the order of
\* a trip by its station's manager; the trips of a vehicle or a station by one
\* who serves neither end; the way back to the stations or the trips by depot
\* staff, who opened the page with another grant.
KnownRefusal(s, p, q) ==
  \/ p = Home /\ \A i \in DOMAIN s : s[i].role = "DRIVER"
  \/ p.kind = "trip" /\ q.kind = "order" /\ HasRole(s, {"STATION_MANAGER"})
  \/ p.kind \in {"vehicle", "station"} /\ q.kind = "trip" /\ ~HasRole(s, AdminRoles)
  \/ q \in {StationList, TripList} /\ OfDepot(BestRole(s))

\* Every other link of every page leads to a page that opens, although lists go
\* by the best grant's query, pages by any grant's coverage, and redirections by
\* the first grant of a kind (buildStationRowsForSession, canViewStationPage,
\* dashboardFacilityScope and so on).
LinksOpen ==
  LoggedIn /\ WellScoped(session) =>
    \A p \in ListPages \cup ItemPages :
      Opens(session, p) /\ Redirect(session, p) = p =>
        \A q \in Links(session, p) :
          Arrives(session, q) \/ KnownRefusal(session, p, q)

\* A login ends on a page that opens and does not send the user on
\* (dashboardLoginRedirectPath, Home).
LandingOpens ==
  LoggedIn /\ WellScoped(session) =>
    LET p == LandingPath(session) IN Redirect(session, p) = p /\ Opens(session, p)

\* One more grant never takes an item's page away (canViewFacility,
\* canViewStationPage, canViewVehiclePage, canViewTripDetail).
GrantsOnlyOpenItems ==
  [][session # None /\ session' # None /\ ToSet(session) \subseteq ToSet(session') =>
       \A p \in ItemPages : Opens(session, p) => Opens(session', p)]_vars

\* With one grant, every entry of the navigation opens.
OneGrantNavigates ==
  LoggedIn /\ Len(session) = 1 /\ WellScoped(session) =>
    \A p \in Nav(session) : Arrives(session, p)

\* What a user is shown or sent to can be opened: the links of the pages, the
\* page a login lands on and, with a single grant, the navigation.
ShownOpens == LinksOpen /\ LandingOpens /\ OneGrantNavigates

ApiOpens(s, role, scope, id) == DisallowDriver(s) /\ RequiredRole(s, role, scope, id)

\* A facility and a station open on the dashboard for whom the API's routes
\* answer, and for two kinds of users more: administrators of any refinery see
\* every facility, and a facility's staff the stations it serves without being
\* their primary facility (RequiredRole against canViewFacility and
\* canViewStationPage).
RoutesAgree ==
  LoggedIn /\ WellScoped(session) =>
    /\ \A f \in Facilities :
         Opens(session, Page("facility", f)) <=>
           \/ ApiOpens(session, "FACILITY_OPERATOR", "FACILITY", f)
           \/ HasRole(session, {"REFINERY_ADMIN"})
    /\ \A t \in Stations :
         Opens(session, Page("station", t)) <=>
           \/ ApiOpens(session, "STATION_MANAGER", "STATION", t)
           \/ \E i \in DOMAIN session :
                OfFacility(session[i]) /\ t \in ListStationsServedByFacility(session[i].id)

\* The lists are the same on both sides, but for depot staff, to whom the API
\* gives stations and trips that the dashboard refuses.
ListsAgree ==
  LoggedIn =>
    LET depot == OfDepot(BestRole(session)) IN
    /\ FleetRows(session) = ApiVehicles(session)
    /\ StationRows(session) = IF depot THEN Refused ELSE ApiStations(session)
    /\ TripRows(session) = IF depot THEN Refused ELSE ApiTrips(session)

\* The API and the dashboard give a user the same, but for the differences named.
ApiAgrees == RoutesAgree /\ ListsAgree
===============================================================================
