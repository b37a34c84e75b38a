------------------------------ MODULE RoleGrants ------------------------------
(***************************************************************************)
(* user_role_grants and who reads it.  A row is known by its user, role,   *)
(* scope type and scope id (a UNIQUE constraint, in which NULL equals      *)
(* nothing).  The handlers of internal/handler/user_management.go store    *)
(* scope id 0 for the COMPANY scope; the seed data store NULL.  A          *)
(* comparison with NULL is never true in SQL, and the readers of the table *)
(* differ in what they ask of the scope id.                                *)
(***************************************************************************)
EXTENDS Naturals, FiniteSets

CONSTANTS
  Users, Roles,
  Null,        \* SQL NULL
  Places,      \* ids of refineries, facilities, depots or stations
  Seeds        \* the rows that were not made by the handlers

ScopeTypes == {"COMPANY", "LOCAL"}   \* LOCAL stands for each of the placed scopes
ScopeIds == {Null, 0} \cup Places
Keys == [user : Users, role : Roles, scope : ScopeTypes, id : ScopeIds]

\* Of the constants; MCWorker and MCAccess assume it of theirs.
GrantsAssumption ==
  /\ 0 \notin Places /\ Null \notin Places \cup {0}
  /\ Seeds \subseteq {k \in Keys : k.scope = "COMPANY" <=> k.id = Null}

VARIABLES
  grants,     \* the rows whose revoked_at is NULL
  active      \* accounts with active = TRUE

grantVars == <<grants, active>>

GrantsTypeOK ==
  /\ grants \in SUBSET Keys
  /\ active \in SUBSET Users

GrantsInit ==
  /\ grants = Seeds
  /\ active = Users

\* A request names a place, except for the COMPANY scope.
GrantRequests ==
  {q \in [user : Users, role : Roles, scope : ScopeTypes, place : {0} \cup Places] :
     q.scope = "COMPANY" <=> q.place = 0}

ScopeId(q) == q.place

Matching(q) == [user |-> q.user, role |-> q.role, scope |-> q.scope, id |-> ScopeId(q)]
Stored(q) == [user |-> q.user, role |-> q.role, scope |-> q.scope, id |-> q.place]

GrantRole(q) ==
  /\ grants' = grants \cup {Stored(q)}
  /\ UNCHANGED active

\* UPDATE ... WHERE scope_id = $4: a row with NULL is never matched, and the
\* answer is "role revoked" whatever was matched.
RevokeRole(q) ==
  /\ grants' = {k \in grants : k # Matching(q) \/ k.id = Null}
  /\ UNCHANGED active

SetUserActive(u, a) ==
  /\ active' = IF a THEN active \cup {u} ELSE active \ {u}
  /\ UNCHANGED grants

Administer ==
  \/ \E q \in GrantRequests : GrantRole(q) \/ RevokeRole(q)
  \/ \E u \in Users, a \in BOOLEAN : SetUserActive(u, a)

GrantsSpec == GrantsInit /\ [][Administer]_grantVars

-------------------------------------------------------------------------------
(* The readers. *)

GetActiveRolesForUser(u) == {k \in grants : k.user = u}

ListUsersWithCompanyRole(role) ==
  {u \in active : [user |-> u, role |-> role, scope |-> "COMPANY", id |-> Null] \in grants}
===============================================================================
