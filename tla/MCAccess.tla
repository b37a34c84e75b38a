------------------------------- MODULE MCAccess -------------------------------
(* Who may do what, for TLC.  The three parts have nothing to do with each   *)
(* other, so that a behaviour follows one of them (`area`).  Logins come      *)
(* three times: with the clock and grants that change, one job at a time; and  *)
(* with two jobs that work on passwords, or on refresh tokens, while the      *)
(* clock stands still.                                                        *)
EXTENDS Access, TLC

CONSTANTS
  j1, j2, k1, k2,                            \* jobs, temporary passwords
  north, south, f1, f2, d1, d2, st, v1, o1   \* of the pages

VARIABLE area

\* The nine grants, over two refineries with a facility and a depot each.
Grant(role, scope, id) == [role |-> role, scope |-> scope, id |-> id]
NineGrants ==
  {Grant("SYSTEM_ADMIN", "COMPANY", 0), Grant("REFINERY_ADMIN", "REFINERY", north),
   Grant("FACILITY_MANAGER", "FACILITY", f1), Grant("FACILITY_MANAGER", "FACILITY", f2),
   Grant("FACILITY_OPERATOR", "FACILITY", f2), Grant("DEPOT_STAFF", "DEPOT", d1),
   Grant("STATION_MANAGER", "STATION", st), Grant("DRIVER", "COMPANY", 0),
   Grant("FACILITY_MANAGER", "REGION", 1)}

MCRefineryOf == (f1 :> north) @@ (f2 :> south)
MCDepotFacility == (d1 :> f1) @@ (d2 :> f2)
MCVehicleOf == o1 :> v1

ASSUME AccessAssumption

-------------------------------------------------------------------------------
(* One area moves, the others stay in one of their initial states. *)

CacheRests == \A u \in Users : base[<<u, "grants">>] = {}
LoginRests == \A u \in Users : table[<<u, "grants">>] = {} /\ account[u].password = k1
PagesRest ==
  /\ primary[st] = f1 /\ whitelist = {} /\ parked[v1] = None
  /\ origin[o1] = f1 /\ dest[o1] = None /\ live = {}

MCInit ==
  /\ Init /\ Cache!Init /\ Pages!Init
  /\ area \in {"cache", "logins", "passwords", "tokens", "pages"}
  /\ area = "cache" \/ CacheRests
  /\ area = "pages" \/ PagesRest
  /\ CASE area = "logins" -> \A u \in Users : account[u].password = k1
       [] area = "passwords" -> \A u \in Users : table[<<u, "grants">>] = {}
       [] OTHER -> LoginRests

OneJob ==
  /\ \E j \in Jobs : job'[j] = Idle
  /\ refreshes' = refreshes /\ k2 \notin used'
ClockStands == now' = now /\ table' = table /\ past' = past /\ told' = told
OnTokens == \A j \in Jobs : job'[j].at \in {"idle", "roles", "token", "exchange"}

MCNext ==
  \/ area = "cache" /\ Cache!Next /\ UNCHANGED <<area, vars, pageVars>>
  \/ area = "logins" /\ Next /\ OneJob /\ UNCHANGED <<area, cacheVars, pageVars>>
  \/ area = "passwords" /\ Next /\ ClockStands /\ UNCHANGED <<area, refreshes, cacheVars, pageVars>>
  \/ area = "tokens" /\ Next /\ ClockStands /\ OnTokens /\ UNCHANGED <<area, cacheVars, pageVars>>
  \/ area = "pages" /\ Pages!Next /\ UNCHANGED <<area, cacheVars, vars>>

\* Requests differ from each other, and jobs, in nothing but their names.
Interchangeable == Permutations(Requests) \cup Permutations(Jobs)

MCSpec == MCInit /\ [][MCNext]_<<area, cacheVars, vars, pageVars>>
===============================================================================
