-------------------------------- MODULE Access --------------------------------
(* Who may do what: logins and passwords (Sessions, the module extended), the *)
(* middlewares' cache (AuthCache), and the rules of the pages                *)
(* (DashboardPages).  Each takes the others' part as given, a table that     *)
(* changes or a login at once, so that the three share no variable.          *)
EXTENDS Sessions

CONSTANTS
  Requests, Admins, CacheTTL, FillSpan,     \* AuthCache
  CacheTime, CacheWrites,                   \* its bounds
  Facilities, Stations, Depots, Vehicles,   \* DashboardPages
  Orders, RefineryOf, DepotFacility, VehicleOf,
  Offered, MaxGrants

VARIABLES
  clock, base, cache, req, admin, replaced, heard,
  session, primary, whitelist, parked, origin, dest, live

cacheVars == <<clock, base, cache, req, admin, replaced, heard>>
pageVars == <<session, primary, whitelist, parked, origin, dest, live>>

Cache == INSTANCE AuthCache WITH
  TTL <- CacheTTL, Span <- FillSpan, MaxTime <- CacheTime, MaxWrites <- CacheWrites,
  now <- clock, table <- base, past <- replaced, told <- heard

Pages == INSTANCE DashboardPages

AccessAssumption ==
  SessionAssumption /\ Cache!LifetimeAssumption /\ Pages!PagesAssumption

AccessSpec == Spec /\ Cache!Spec /\ Pages!Spec

-------------------------------------------------------------------------------
\* The type invariants of the three modules.
TypesOK == TypeOK /\ Cache!TypeOK /\ Pages!TypeOK

\* auth.go, JWTAuth: a request is told a fact that holds, or one replaced less
\* than a cached copy's lifetime and one fill ago.
AnswersAreFresh == Cache!AnswersAreFresh

\* dashboard*.go: what a page, the navigation or the landing page shows a user
\* opens when the user follows it.
ShownOpens == Pages!ShownOpens

\* The API's lists and routes (vehicle.go, station.go, trip.go, rbac.go) give
\* what the pages give.
ApiAgrees == Pages!ApiAgrees

\* A user who is granted more opens what opened before, and more.
GrantsOnlyOpenItems == Pages!GrantsOnlyOpenItems
===============================================================================
