--------------------------- MODULE MCAfterResponse ---------------------------
(* An approval on the dashboard with two recipients and, of the API, a    *)
(* reset of a password whose second statement may fail unseen and a       *)
(* revocation that may match no grant.                                    *)
EXTENDS AfterResponse

CONSTANTS approval, reset, revoke

Paths == [r \in Requests |-> IF r = approval THEN "dashboard" ELSE "api"]
Changes == [r \in Requests |-> IF r = reset THEN 2 ELSE 1]
Dropped == {<<reset, 2>>}
Exec == {<<revoke, 1>>}
Told == [r \in Requests |-> IF r = approval THEN 2 ELSE 0]
===============================================================================
