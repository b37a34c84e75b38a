---------------------------- MODULE AfterResponse ----------------------------
(***************************************************************************)
(* What a request that changes something leaves behind once it is          *)
(* answered: a row of audit_log, written by a goroutine with a context of  *)
(* its own (internal/middleware/audit.go, internal/auditlog), and notices, *)
(* sent by a goroutine with the context of the request                     *)
(* (internal/handler/trip.go and others).                                  *)
(*                                                                         *)
(* A handler runs one or two statements (UserHandler.UpdateUser), each a   *)
(* transaction.  Not every outcome of a statement reaches it: the error of *)
(* the second statement of ResetPassword is dropped, and a revocation that *)
(* matches no row is not told from one that does.                          *)
(*                                                                         *)
(* net/http cancels the context of a request when its handler returns; gin *)
(* then hands the *gin.Context to a later request, and a goroutine that    *)
(* reads c.Request after that finds the other one.                         *)
(*                                                                         *)
(* The routes of /api/v1 have the audit middleware; those of the dashboard *)
(* (RegisterDashboardRoutes) have none.                                    *)
(***************************************************************************)
EXTENDS Naturals, FiniteSets

CONSTANTS
  Requests,
  Path,         \* [Requests -> {"api", "dashboard"}]
  Statements,   \* [Requests -> 1..2]
  Ignored,      \* the statements <<r, n>> whose error the handler drops
  Uncounted,    \* the statements <<r, n>> that may match no row without an error
  Recipients,   \* [Requests -> Nat]: who is told, one after the other
  MaxFaults     \* bound: failed statements, failed sends, crashes and shutdowns

ASSUME EffectsAssumption ==
  /\ Path \in [Requests -> {"api", "dashboard"}]
  /\ Statements \in [Requests -> {1, 2}]
  /\ Ignored \subseteq Requests \X {1, 2}
  /\ Uncounted \subseteq Requests \X {1, 2}
  /\ Recipients \in [Requests -> Nat]
  /\ MaxFaults \in Nat

VARIABLES
  request,   \* how far the handler is, which statements changed rows, the status code
  audit,     \* the row of audit_log
  notice,    \* the goroutine that tells the recipients
  told,      \* who was told
  logged,    \* who has a row in notification_log
  server,    \* "up", "closing" or "down"
  faults     \* faults so far

vars == <<request, audit, notice, told, logged, server, faults>>

RequestRecord == [at : {"new", "running", "answered"}, done : 0..2, changed : SUBSET {1, 2},
                  status : {0, 200, 500}]
NoticeRecord == [at : {"none", "spawned", "telling", "recording", "over"},
                 context : Requests \cup {"none"}, next : Nat, outcome : {"sent", "failed"}]
NoNotice == [at |-> "none", context |-> "none", next |-> 1, outcome |-> "sent"]

TypeOK ==
  /\ request \in [Requests -> RequestRecord]
  /\ \A r \in Requests : request[r].done <= Statements[r]
  /\ audit \in [Requests -> {"none", "writing", "written", "failed"}]
  /\ notice \in [Requests -> NoticeRecord]
  /\ told \in [Requests -> SUBSET Nat] /\ logged \in [Requests -> SUBSET Nat]
  /\ \A r \in Requests : told[r] \cup logged[r] \subseteq 1..Recipients[r]
  /\ server \in {"up", "closing", "down"}
  /\ faults \in 0..MaxFaults

Init ==
  /\ request = [r \in Requests |-> [at |-> "new", done |-> 0, changed |-> {}, status |-> 0]]
  /\ audit = [r \in Requests |-> "none"]
  /\ notice = [r \in Requests |-> NoNotice]
  /\ told = [r \in Requests |-> {}]
  /\ logged = [r \in Requests |-> {}]
  /\ server = "up"
  /\ faults = 0

Fault == faults < MaxFaults /\ faults' = faults + 1

-------------------------------------------------------------------------------
(* The handler. *)

Running(r) == request[r].at = "running" /\ request[r].status = 0

Begin(r) ==
  /\ server = "up"
  /\ request[r].at = "new"
  /\ request' = [request EXCEPT ![r].at = "running"]
  /\ UNCHANGED <<audit, notice, told, logged, faults, server>>

\* The statement the handler is at.
Current(r) == request[r].done + 1
InStatements(r) == Running(r) /\ request[r].done < Statements[r]

Statement(r) ==
  /\ InStatements(r)
  /\ request' = [request EXCEPT ![r].done = @ + 1, ![r].changed = @ \cup {Current(r)}]
  /\ UNCHANGED <<audit, notice, told, logged, faults, server>>

\* An UPDATE or DELETE run with :exec, whose count of rows nobody sees.
MatchesNothing(r) ==
  /\ InStatements(r)
  /\ <<r, Current(r)>> \in Uncounted
  /\ request' = [request EXCEPT ![r].done = @ + 1]
  /\ UNCHANGED <<audit, notice, told, logged, faults, server>>

Spawned == [NoNotice EXCEPT !.at = "spawned"]

\* Slip: the notice of a failure is sent too.
SpawnAnyway(r) == notice' = [notice EXCEPT ![r] = IF Recipients[r] > 0 THEN Spawned ELSE @]
NoSpawn(r) == UNCHANGED notice

\* A dropped error lets the handler go on.
StatementFails(r) ==
  /\ InStatements(r)
  /\ Fault
  /\ request' = IF <<r, Current(r)>> \in Ignored
                THEN [request EXCEPT ![r].done = @ + 1]
                ELSE [request EXCEPT ![r].status = 500]
  /\ NoSpawn(r)
  /\ UNCHANGED <<audit, told, logged, server>>

\* SetAuditAction, the goroutine of the notice, c.JSON.
Succeed(r) ==
  /\ Running(r)
  /\ request[r].done = Statements[r]
  /\ request' = [request EXCEPT ![r].status = 200]
  /\ notice' = [notice EXCEPT ![r] = IF Recipients[r] > 0 THEN Spawned ELSE @]
  /\ UNCHANGED <<audit, told, logged, faults, server>>

\* Slip: the status is not looked at.
AnyStatus(r) == Path[r] = "api"
Audited(r) == Path[r] = "api" /\ request[r].status < 300

\* The handler returns through AuditTrail, which starts the writer.
Return(r) ==
  /\ request[r].at = "running"
  /\ request[r].status # 0
  /\ request' = [request EXCEPT ![r].at = "answered"]
  /\ audit' = [audit EXCEPT ![r] = IF Audited(r) THEN "writing" ELSE @]
  /\ UNCHANGED <<notice, told, logged, faults, server>>

-------------------------------------------------------------------------------
(* The goroutines. *)

\* The context of a request ends with its handler.
Live(r) == request[r].at = "running"

\* Slip: the writer uses the context of the request.
OfRequest(r) == Live(r)
OfItsOwn(r) == TRUE

\* The insert has three seconds; its error is dropped.
InsertAuditLog(r) ==
  /\ audit[r] = "writing"
  /\ \/ UNCHANGED faults /\ audit' = [audit EXCEPT ![r] = IF OfItsOwn(r) THEN "written" ELSE "failed"]
     \/ Fault /\ audit' = [audit EXCEPT ![r] = "failed"]
  /\ UNCHANGED <<request, notice, told, logged, server>>

\* c.Request is read by the goroutine: while the handler runs it is this
\* request, later this one or one that gin gave the recycled context to.
CouldRead(r) == {r} \cup (IF Live(r) THEN {} ELSE {other \in Requests : Live(other)})

StartNotice(r) ==
  /\ notice[r].at = "spawned"
  /\ \E c \in CouldRead(r) :
       notice' = [notice EXCEPT ![r].at = "telling", ![r].context = c]
  /\ UNCHANGED <<request, audit, told, logged, faults, server>>

Ended == [NoNotice EXCEPT !.at = "over"]
GoneOver(r) == notice' = [notice EXCEPT ![r] = Ended]

\* The queries of the coordinator and the call of Telegram.
Tell(r) ==
  /\ notice[r].at = "telling"
  /\ IF Live(notice[r].context)
     THEN \/ /\ told' = [told EXCEPT ![r] = @ \cup {notice[r].next}]
             /\ notice' = [notice EXCEPT ![r].at = "recording"]
             /\ UNCHANGED faults
          \/ /\ Fault
             /\ notice' = [notice EXCEPT ![r].at = "recording", ![r].outcome = "failed"]
             /\ UNCHANGED told
     ELSE GoneOver(r) /\ UNCHANGED <<told, faults>>
  /\ UNCHANGED <<request, audit, logged, server>>

AtTheLast(r) == notice[r].next = Recipients[r]

\* An error, of the send or of the insert, ends the round of recipients.
InsertNotification(r) ==
  /\ notice[r].at = "recording"
  /\ \/ /\ Live(notice[r].context)
        /\ logged' = [logged EXCEPT ![r] = @ \cup {notice[r].next}]
        /\ IF notice[r].outcome = "failed" \/ AtTheLast(r)
           THEN GoneOver(r)
           ELSE notice' = [notice EXCEPT ![r].at = "telling", ![r].next = @ + 1]
        /\ UNCHANGED faults
     \/ /\ IF Live(notice[r].context) THEN Fault ELSE UNCHANGED faults
        /\ GoneOver(r)
        /\ UNCHANGED logged
  /\ UNCHANGED <<request, audit, told, server>>

ProcessEnds ==
  /\ request' = [r \in Requests |->
                   IF Live(r) THEN [request[r] EXCEPT !.at = "answered", !.status = 0]
                   ELSE request[r]]
  /\ audit' = [r \in Requests |-> IF audit[r] = "writing" THEN "failed" ELSE audit[r]]
  /\ notice' = [r \in Requests |->
                  IF notice[r].at = "none" THEN NoNotice ELSE Ended]
  /\ UNCHANGED <<told, logged>>

Crash ==
  /\ server # "down" /\ server' = "down"
  /\ Fault
  /\ ProcessEnds

\* SIGTERM: srv.Shutdown closes the listener and begins to wait.
Shutdown ==
  /\ server = "up" /\ server' = "closing"
  /\ Fault
  /\ UNCHANGED <<request, audit, notice, told, logged>>

\* ListenAndServe returns when Shutdown begins, and main returns after it.
MainReturns ==
  /\ server = "closing" /\ server' = "down"
  /\ ProcessEnds
  /\ UNCHANGED faults

Start ==
  /\ server = "down" /\ server' = "up"
  /\ UNCHANGED <<request, audit, notice, told, logged, faults>>

Handle(r) == Begin(r) \/ Statement(r) \/ MatchesNothing(r) \/ Succeed(r) \/ Return(r)
Notify(r) == StartNotice(r) \/ Tell(r) \/ InsertNotification(r)

Next ==
  \/ \E r \in Requests : Handle(r) \/ StatementFails(r) \/ InsertAuditLog(r) \/ Notify(r)
  \/ Crash \/ Shutdown \/ MainReturns \/ Start

Spec == Init /\ [][Next]_vars

\* Handlers and goroutines go on.
FairSpec ==
  /\ Spec
  /\ \A r \in Requests : WF_vars(Handle(r)) /\ WF_vars(InsertAuditLog(r)) /\ WF_vars(Notify(r))

-------------------------------------------------------------------------------
(* What is left behind. *)

\* The statements whose outcome decides the answer.
Deciding(r) == {n \in 1..Statements[r] : <<r, n>> \notin Ignored \cup Uncounted}

\* A row of audit_log stands for an answer of success and for a change of which
\* every statement that decides the answer was made (audit.go skips every status
\* from 300).  Of a statement whose error is dropped (user_management.go:561), or
\* that may match no row (RevokeRole), the row says nothing.
AuditRowsAreOfChanges ==
  \A r \in Requests : audit[r] = "written" =>
    request[r].status = 200 /\ Deciding(r) \subseteq request[r].changed

\* Nobody is told, and nothing is logged as told, of what was not done, whichever
\* request's context the goroutine has.
NoticesAreOfChanges ==
  \A r \in Requests : told[r] \cup logged[r] # {} => Deciding(r) \subseteq request[r].changed

\* A change made through the API is in audit_log in the end, although the row is
\* written after the answer, unless something fails.
ApiChangesAreAudited ==
  \A r \in Requests :
    (Path[r] = "api" /\ request[r].status = 200) ~> (audit[r] = "written" \/ faults > 0)
===============================================================================
