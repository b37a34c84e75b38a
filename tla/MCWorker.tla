------------------------------- MODULE MCWorker -------------------------------
(* The worker for TLC.  Its jobs have nothing to do with each other, so that *)
(* a behaviour follows one of them (`job`) and leaves the others at rest.    *)
EXTENDS Worker

CONSTANTS
  ann, ben,                       \* users
  licence, keur1, keur2,          \* notices
  trip                            \* a trip of a facility with two managers

VARIABLE job

\* ann drives and, like ben, is on the staff of the depot.
To(u, n) == [user |-> u, notice |-> n]
WorkOf == [j \in {"licence", "keur"} |->
             IF j = "licence" THEN <<To(ann, licence)>>
             ELSE <<To(ann, keur1), To(ben, keur1), To(ann, keur2)>>]

\* ann was made an administrator by hand, as the seed migration enters its own.
ByHand == {[user |-> ann, role |-> "REFINERY_ADMIN", scope |-> "COMPANY", id |-> Null]}

MCManagers == [t \in Trips |-> <<ann, ben>>]

ASSUME WorkerAssumption

-------------------------------------------------------------------------------
MCInit ==
  /\ Init /\ Expiry!Init /\ Escalating!Init
  /\ \/ job = "expiry"
     \/ job \in {"escalation", "deviation"} /\ linked = {}

MCNext ==
  \/ job = "expiry" /\ Expiry!Next /\ UNCHANGED <<job, roundVars, vars>>
  \/ job = "escalation" /\ Escalating!Next /\ UNCHANGED <<job, expiryVars, vars>>
  \/ job = "deviation" /\ Next /\ UNCHANGED <<job, expiryVars, roundVars>>

MCSpec ==
  /\ MCInit /\ [][MCNext]_<<job, expiryVars, roundVars, vars>>
  /\ \/ <>[](job = "expiry") /\ Expiry!Fairness
     \/ <>[](job = "escalation") /\ Escalating!Fairness
     \/ <>[](job = "deviation") /\ Fairness

-------------------------------------------------------------------------------
\* The notices of the expiry jobs are tried (see ExpiryNotices).
EveryoneTried == Expiry!EveryoneTried
\* Overdue readings are escalated (see Escalation).
OverdueIsEscalated == Escalating!OverdueIsEscalated
===============================================================================
