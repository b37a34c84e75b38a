---------------------------- MODULE MCTelegramLink ----------------------------
(* A token for each of two users, who may use each other's.                   *)
EXTENDS TelegramLink

CONSTANTS ann, ben, k1, k2

MCOwnerOf == [k \in Tokens |-> IF k = k1 THEN ann ELSE ben]
===============================================================================
