-------------------------- MODULE AfterResponseProofs --------------------------
(***************************************************************************)
(* The audit log and the notices speak of changes of which every statement *)
(* that decides the answer was made, for any requests, any numbers of      *)
(* statements and recipients, any statements whose error is dropped or     *)
(* that may match nothing, and any faults.                                 *)
(*                                                                         *)
(* The audit row is written when its handler is over, so the invariant     *)
(* carries the status from the answer to the writer; a notice may begin    *)
(* before the answer, so it carries that the handler passed them all.  A   *)
(* statement that was passed changed rows, unless its error is dropped or  *)
(* it may match none.                                                      *)
(***************************************************************************)
EXTENDS AfterResponse, TLAPS

\* A statement that was passed changed rows, if it decides the answer.
PassedIsMade(r) == Deciding(r) \cap 1..request[r].done \subseteq request[r].changed

\* A handler that succeeded passed all its statements.
SuccessIsFull(r) == request[r].status = 200 => request[r].done = Statements[r]

\* A writer is started by an answer of success, which stays.
WriterOfSuccess(r) ==
  audit[r] # "none" => request[r].at = "answered"
WritingOfSuccess(r) ==
  audit[r] \in {"writing", "written"} => request[r].status = 200

\* A goroutine of notices belongs to a change made in full, and its recipient
\* is one of those of the request.
NoticeOfChange(r) ==
  notice[r].at # "none" =>
    request[r].done = Statements[r] /\ Recipients[r] > 0
NextIsRecipient(r) ==
  notice[r].at \in {"spawned", "telling", "recording"} => notice[r].next \in 1..Recipients[r]

ToldOfChange(r) == told[r] \cup logged[r] # {} => request[r].done = Statements[r]

IInv ==
  /\ TypeOK
  /\ \A r \in Requests :
       /\ PassedIsMade(r) /\ SuccessIsFull(r) /\ WriterOfSuccess(r) /\ WritingOfSuccess(r)
       /\ NoticeOfChange(r) /\ NextIsRecipient(r) /\ ToldOfChange(r)

\* The records a goroutine goes through.
LEMMA NoticeShapes ==
  /\ NoNotice \in NoticeRecord /\ NoNotice.at = "none"
  /\ Spawned \in NoticeRecord /\ Spawned.at = "spawned" /\ Spawned.next = 1
  /\ Ended \in NoticeRecord /\ Ended.at = "over"
BY DEF NoNotice, Spawned, Ended, NoticeRecord

LEMMA NoticeSteps ==
  ASSUME NEW n \in NoticeRecord, NEW c \in Requests
  PROVE  /\ [n EXCEPT !.at = "telling", !.context = c] \in NoticeRecord
         /\ [n EXCEPT !.at = "recording"] \in NoticeRecord
         /\ [n EXCEPT !.at = "recording", !.outcome = "failed"] \in NoticeRecord
         /\ [n EXCEPT !.at = "telling", !.next = @ + 1] \in NoticeRecord
         /\ [n EXCEPT !.at = "telling", !.context = c].next = n.next
         /\ [n EXCEPT !.at = "recording"].next = n.next
         /\ [n EXCEPT !.at = "recording", !.outcome = "failed"].next = n.next
         /\ [n EXCEPT !.at = "telling", !.next = @ + 1].next = n.next + 1
<1> USE DEF NoticeRecord
<1>1. [n EXCEPT !.at = "telling", !.context = c] \in NoticeRecord
  OBVIOUS
<1>2. [n EXCEPT !.at = "recording"] \in NoticeRecord
  OBVIOUS
<1>3. [n EXCEPT !.at = "recording", !.outcome = "failed"] \in NoticeRecord
  OBVIOUS
<1>4. [n EXCEPT !.at = "telling", !.next = @ + 1] \in NoticeRecord
  <2>1. n.next + 1 \in Nat
    OBVIOUS
  <2>2. \A k \in Nat : [n EXCEPT !.at = "telling", !.next = k] \in NoticeRecord
    OBVIOUS
  <2> QED
    BY <2>1, <2>2
<1>5. /\ [n EXCEPT !.at = "telling", !.context = c].next = n.next
      /\ [n EXCEPT !.at = "recording"].next = n.next
  OBVIOUS
<1>6. [n EXCEPT !.at = "recording", !.outcome = "failed"].next = n.next
  OBVIOUS
<1>7. [n EXCEPT !.at = "telling", !.next = @ + 1].next = n.next + 1
  OBVIOUS
<1> QED
  BY <1>1, <1>2, <1>3, <1>4, <1>5, <1>6, <1>7

\* The record of a request whose statement k changed rows.
Changed(q, k) == [q EXCEPT !.done = k, !.changed = q.changed \cup {k}]

LEMMA RequestSteps ==
  ASSUME NEW q \in RequestRecord, NEW k \in 1..2
  PROVE  /\ Changed(q, k) \in RequestRecord
         /\ Changed(q, k).at = q.at /\ Changed(q, k).status = q.status
         /\ Changed(q, k).done = k /\ Changed(q, k).changed = q.changed \cup {k}
<1>1. q.changed \cup {k} \in SUBSET {1, 2} /\ k \in 0..2
  BY DEF RequestRecord
<1>2. ASSUME NEW c \in SUBSET {1, 2}, NEW d \in 0..2
      PROVE  /\ [q EXCEPT !.done = d, !.changed = c] \in RequestRecord
             /\ [q EXCEPT !.done = d, !.changed = c].at = q.at
             /\ [q EXCEPT !.done = d, !.changed = c].status = q.status
             /\ [q EXCEPT !.done = d, !.changed = c].done = d
             /\ [q EXCEPT !.done = d, !.changed = c].changed = c
  BY DEF RequestRecord
<1>3. /\ [q EXCEPT !.done = k, !.changed = q.changed \cup {k}] \in RequestRecord
      /\ [q EXCEPT !.done = k, !.changed = q.changed \cup {k}].at = q.at
      /\ [q EXCEPT !.done = k, !.changed = q.changed \cup {k}].status = q.status
      /\ [q EXCEPT !.done = k, !.changed = q.changed \cup {k}].done = k
      /\ [q EXCEPT !.done = k, !.changed = q.changed \cup {k}].changed = q.changed \cup {k}
  BY <1>1, <1>2, Zenon
<1> QED
  BY <1>3 DEF Changed

LEMMA CutRequest ==
  ASSUME NEW q \in RequestRecord
  PROVE  /\ [q EXCEPT !.at = "answered", !.status = 0] \in RequestRecord
         /\ [q EXCEPT !.at = "answered", !.status = 0].at = "answered"
         /\ [q EXCEPT !.at = "answered", !.status = 0].status = 0
         /\ [q EXCEPT !.at = "answered", !.status = 0].done = q.done
         /\ [q EXCEPT !.at = "answered", !.status = 0].changed = q.changed
BY DEF RequestRecord

LEMMA InitIInv == Init => IInv
<1> SUFFICES ASSUME Init PROVE IInv
  OBVIOUS
<1> USE EffectsAssumption DEF Init
<1>1. TypeOK
  BY DEF TypeOK, RequestRecord, NoticeRecord, NoNotice
<1>2. ASSUME NEW r \in Requests
      PROVE  /\ PassedIsMade(r) /\ SuccessIsFull(r) /\ WriterOfSuccess(r) /\ WritingOfSuccess(r)
             /\ NoticeOfChange(r) /\ NextIsRecipient(r) /\ ToldOfChange(r)
  BY DEF PassedIsMade, Deciding, SuccessIsFull, WriterOfSuccess, WritingOfSuccess, NoticeOfChange, NextIsRecipient,
         ToldOfChange, NoNotice
<1> QED
  BY <1>1, <1>2 DEF IInv

\* The steps of a handler.
LEMMA HandlerKeeps ==
  ASSUME IInv, NEW q \in Requests, Handle(q) \/ StatementFails(q)
  PROVE  IInv'
<1> USE EffectsAssumption
<1>1. CASE Begin(q)
  BY <1>1 DEF Begin, IInv, TypeOK, RequestRecord, PassedIsMade, Deciding, SuccessIsFull, WriterOfSuccess,
              WritingOfSuccess, NoticeOfChange, NextIsRecipient, ToldOfChange
<1>2. CASE Statement(q) \/ MatchesNothing(q) \/ StatementFails(q)
  <2>1. /\ request[q] \in RequestRecord /\ request[q].at = "running" /\ request[q].status = 0
        /\ request[q].done < Statements[q] /\ Statements[q] \in {1, 2} /\ request[q].done \in 0..2
    BY <1>2 DEF Statement, MatchesNothing, StatementFails, InStatements, Running, IInv, TypeOK,
                RequestRecord
  <2>2. request[q].done + 1 \in 1..2
    BY <2>1
  <2>3. PICK next \in RequestRecord :
          /\ request' = [request EXCEPT ![q] = next]
          /\ next.at = "running" /\ next.status \in {0, 500}
          /\ \/ next.done = request[q].done /\ next.changed = request[q].changed
             \/ /\ next.done = request[q].done + 1
                /\ next.changed = request[q].changed \cup {request[q].done + 1}
             \/ /\ next.done = request[q].done + 1 /\ next.changed = request[q].changed
                /\ <<q, request[q].done + 1>> \in Ignored \cup Uncounted
    <3>1. CASE Statement(q)
      <4> DEFINE n == Changed(request[q], request[q].done + 1)
      <4>1. n \in RequestRecord /\ n.at = "running" /\ n.status = 0
            /\ n.done = request[q].done + 1
            /\ n.changed = request[q].changed \cup {request[q].done + 1}
        BY <2>1, <2>2, RequestSteps
      <4>2. request' = [request EXCEPT ![q] = n]
        BY <3>1 DEF Statement, Current, Changed
      <4> QED
        BY <4>1, <4>2
    <3>2. CASE MatchesNothing(q) \/ (StatementFails(q) /\ <<q, Current(q)>> \in Ignored)
      <4> DEFINE n == [request[q] EXCEPT !.done = request[q].done + 1]
      <4>1. n \in RequestRecord /\ n.at = "running" /\ n.status = 0
            /\ n.done = request[q].done + 1 /\ n.changed = request[q].changed
        BY <2>1, <2>2 DEF RequestRecord
      <4>2. request' = [request EXCEPT ![q] = n]
        BY <3>2 DEF MatchesNothing, StatementFails
      <4>3. <<q, request[q].done + 1>> \in Ignored \cup Uncounted
        BY <3>2 DEF MatchesNothing, Current
      <4> QED
        BY <4>1, <4>2, <4>3
    <3>3. CASE StatementFails(q) /\ <<q, Current(q)>> \notin Ignored
      <4> DEFINE n == [request[q] EXCEPT !.status = 500]
      <4>1. n \in RequestRecord /\ n.at = "running" /\ n.status = 500
            /\ n.done = request[q].done /\ n.changed = request[q].changed
        BY <2>1 DEF RequestRecord
      <4>2. request' = [request EXCEPT ![q] = n]
        BY <3>3 DEF StatementFails
      <4> QED
        BY <4>1, <4>2
    <3> QED
      BY <1>2, <3>1, <3>2, <3>3
  <2>4. UNCHANGED <<audit, notice, told, logged, server>> /\ faults' \in 0..MaxFaults
    BY <1>2 DEF Statement, MatchesNothing, StatementFails, NoSpawn, Fault, IInv, TypeOK
  <2>5. next.done \in 0..2 /\ next.done <= Statements[q]
    BY <2>1, <2>3
  <2>6. TypeOK'
    BY <2>3, <2>4, <2>5 DEF IInv, TypeOK
  <2>7. audit[q] = "none" /\ notice'[q] = notice[q]
    BY <2>1, <2>4 DEF IInv, TypeOK, WriterOfSuccess
  <2>8. notice[q].at = "none" /\ told[q] \cup logged[q] = {}
    BY <2>1 DEF IInv, NoticeOfChange, ToldOfChange
  <2>9. ASSUME NEW r \in Requests
        PROVE  (/\ PassedIsMade(r) /\ SuccessIsFull(r) /\ WriterOfSuccess(r) /\ WritingOfSuccess(r)
                /\ NoticeOfChange(r) /\ NextIsRecipient(r) /\ ToldOfChange(r))'
    <3>1. CASE r # q
      <4>1. request'[r] = request[r]
        BY <2>3, <3>1 DEF IInv, TypeOK
      <4> QED
        BY <2>4, <4>1 DEF IInv, PassedIsMade, Deciding, SuccessIsFull, WriterOfSuccess,
             WritingOfSuccess, NoticeOfChange, NextIsRecipient, ToldOfChange
    <3>2. CASE r = q
      <4>1. request'[q] = next
        BY <2>3 DEF IInv, TypeOK
      <4>2. Deciding(q) \cap 1..next.done \subseteq next.changed
        <5>1. SUFFICES ASSUME NEW n \in Deciding(q) \cap 1..next.done PROVE n \in next.changed
          OBVIOUS
        <5>2. <<q, n>> \notin Ignored \cup Uncounted /\ n \in Deciding(q)
          BY DEF Deciding
        <5>3. n \in 1..request[q].done => n \in request[q].changed
          BY <5>2 DEF IInv, PassedIsMade
        <5>4. n \in 1..request[q].done \/ n = request[q].done + 1
          BY <2>1, <2>3, <2>5
        <5> QED
          BY <2>3, <5>2, <5>3, <5>4
      <4> QED
        BY <2>3, <2>4, <2>7, <2>8, <3>2, <4>1, <4>2 DEF PassedIsMade, Deciding, SuccessIsFull,
             WriterOfSuccess, WritingOfSuccess, NoticeOfChange, NextIsRecipient, ToldOfChange
    <3> QED
      BY <3>1, <3>2
  <2> QED
    BY <2>6, <2>9 DEF IInv
<1>4. CASE Succeed(q)
  <2>1. TypeOK'
    BY <1>4, NoticeShapes DEF Succeed, Running, IInv, TypeOK, RequestRecord
  <2>2. ASSUME NEW r \in Requests
        PROVE  (/\ PassedIsMade(r) /\ SuccessIsFull(r) /\ WriterOfSuccess(r) /\ WritingOfSuccess(r)
                /\ NoticeOfChange(r) /\ NextIsRecipient(r) /\ ToldOfChange(r))'
    BY <1>4, <2>2, NoticeShapes DEF Succeed, Running, IInv, TypeOK, RequestRecord,
         PassedIsMade, Deciding, SuccessIsFull, WriterOfSuccess, WritingOfSuccess, NoticeOfChange,
         NextIsRecipient, ToldOfChange
  <2> QED
    BY <2>1, <2>2 DEF IInv
<1>5. CASE Return(q)
  BY <1>5 DEF Return, Audited, IInv, TypeOK, RequestRecord, PassedIsMade, Deciding, SuccessIsFull, WriterOfSuccess,
              WritingOfSuccess, NoticeOfChange, NextIsRecipient, ToldOfChange
<1> QED
  BY <1>1, <1>2, <1>4, <1>5 DEF Handle

\* The steps of the goroutines.
LEMMA GoroutinesKeep ==
  ASSUME IInv, NEW q \in Requests, InsertAuditLog(q) \/ Notify(q)
  PROVE  IInv'
<1> USE EffectsAssumption
<1>1. CASE InsertAuditLog(q)
  BY <1>1 DEF InsertAuditLog, OfItsOwn, Fault, IInv, TypeOK, PassedIsMade, Deciding, SuccessIsFull, WriterOfSuccess,
              WritingOfSuccess, NoticeOfChange, NextIsRecipient, ToldOfChange
<1>2. CASE StartNotice(q)
  <2>1. PICK c \in Requests :
          notice' = [notice EXCEPT ![q].at = "telling", ![q].context = c]
    BY <1>2 DEF StartNotice, CouldRead
  <2>2. notice[q] \in NoticeRecord /\ notice[q].at = "spawned"
    BY <1>2 DEF StartNotice, IInv, TypeOK
  <2>3. notice' \in [Requests -> NoticeRecord]
    BY <2>1, <2>2, NoticeSteps DEF IInv, TypeOK
  <2>4. ASSUME NEW r \in Requests
        PROVE  (NoticeOfChange(r) /\ NextIsRecipient(r))'
    <3>1. r # q => notice'[r] = notice[r]
      BY <2>1 DEF IInv, TypeOK
    <3>2. r = q => notice'[r].next = notice[r].next
      <4>1. [notice[q] EXCEPT !.at = "telling", !.context = c].next = notice[q].next
        BY <2>2, NoticeSteps
      <4>2. notice'[q] = [notice[q] EXCEPT !.at = "telling", !.context = c]
        BY <2>1 DEF IInv, TypeOK
      <4> QED
        BY <4>1, <4>2
    <3>3. request' = request
      BY <1>2 DEF StartNotice
    <3> QED
      BY <2>2, <3>1, <3>2, <3>3 DEF IInv, NoticeOfChange, NextIsRecipient
  <2> QED
    BY <1>2, <2>3, <2>4 DEF StartNotice, IInv, TypeOK, PassedIsMade, Deciding, SuccessIsFull, WriterOfSuccess,
                            WritingOfSuccess, ToldOfChange
<1>3. CASE Tell(q)
  <2>1. /\ notice[q] \in NoticeRecord /\ notice[q].at = "telling"
        /\ notice[q].next \in 1..Recipients[q] /\ request[q].done = Statements[q]
    BY <1>3 DEF Tell, IInv, TypeOK, NextIsRecipient, NoticeOfChange
  <2>2. told' = [told EXCEPT ![q] = @ \cup {notice[q].next}] \/ told' = told
    BY <1>3 DEF Tell
  <2>3. \/ notice' = [notice EXCEPT ![q].at = "recording"]
        \/ notice' = [notice EXCEPT ![q].at = "recording", ![q].outcome = "failed"]
        \/ notice' = [notice EXCEPT ![q] = Ended]
    BY <1>3 DEF Tell, GoneOver
  <2>4. faults' \in 0..MaxFaults
    BY <1>3 DEF Tell, Fault, IInv, TypeOK
  <2>5. notice' \in [Requests -> NoticeRecord]
    BY <2>1, <2>3, NoticeSteps, NoticeShapes DEF IInv, TypeOK
  <2>6. ASSUME NEW r \in Requests
        PROVE  (NoticeOfChange(r) /\ NextIsRecipient(r) /\ ToldOfChange(r))'
    <3>1. request' = request /\ logged' = logged
      BY <1>3 DEF Tell
    <3>2. r # q => notice'[r] = notice[r] /\ told'[r] = told[r]
      BY <2>2, <2>3 DEF IInv, TypeOK
    <3>3. r = q => notice'[r].next = notice[r].next \/ notice'[r].at = "over"
      BY <2>1, <2>3, NoticeSteps, NoticeShapes DEF IInv, TypeOK
    <3>4. (NoticeOfChange(r) /\ ToldOfChange(r))'
      BY <2>1, <3>1, <3>2 DEF IInv, NoticeOfChange, ToldOfChange
    <3>5. NextIsRecipient(r)'
      <4>1. CASE r # q
        BY <3>2, <4>1 DEF IInv, NextIsRecipient
      <4>2. CASE r = q
        BY <2>1, <3>3, <4>2, EffectsAssumption DEF NextIsRecipient
      <4> QED
        BY <4>1, <4>2
    <3> QED
      BY <3>4, <3>5
  <2>7. told' \in [Requests -> SUBSET Nat] /\ \A r \in Requests : told'[r] \subseteq 1..Recipients[r]
    BY <2>1, <2>2 DEF IInv, TypeOK
  <2> QED
    BY <1>3, <2>4, <2>5, <2>6, <2>7 DEF Tell, IInv, TypeOK, PassedIsMade, Deciding, SuccessIsFull, WriterOfSuccess,
                                        WritingOfSuccess
<1>4. CASE InsertNotification(q)
  <2>1. /\ notice[q] \in NoticeRecord /\ notice[q].at = "recording"
        /\ notice[q].next \in 1..Recipients[q] /\ request[q].done = Statements[q]
    BY <1>4 DEF InsertNotification, IInv, TypeOK, NextIsRecipient, NoticeOfChange
  <2>2. logged' = [logged EXCEPT ![q] = @ \cup {notice[q].next}] \/ logged' = logged
    BY <1>4 DEF InsertNotification
  <2>3. \/ /\ notice' = [notice EXCEPT ![q].at = "telling", ![q].next = @ + 1]
           /\ notice[q].next # Recipients[q]
        \/ notice' = [notice EXCEPT ![q] = Ended]
    BY <1>4 DEF InsertNotification, GoneOver, AtTheLast
  <2>4. faults' \in 0..MaxFaults
    BY <1>4 DEF InsertNotification, Fault, IInv, TypeOK
  <2>5. notice' \in [Requests -> NoticeRecord]
    BY <2>1, <2>3, NoticeSteps, NoticeShapes DEF IInv, TypeOK
  <2>6. ASSUME NEW r \in Requests
        PROVE  (NoticeOfChange(r) /\ NextIsRecipient(r) /\ ToldOfChange(r))'
    <3>1. request' = request /\ told' = told
      BY <1>4 DEF InsertNotification
    <3>2. r # q => notice'[r] = notice[r] /\ logged'[r] = logged[r]
      BY <2>2, <2>3 DEF IInv, TypeOK
    <3>3. r = q => notice'[r].at = "over" \/ (notice'[r].next = notice[r].next + 1 /\ notice[r].next # Recipients[r])
      BY <2>1, <2>3, NoticeSteps, NoticeShapes DEF IInv, TypeOK
    <3>4. (NoticeOfChange(r) /\ ToldOfChange(r))'
      BY <2>1, <3>1, <3>2 DEF IInv, NoticeOfChange, ToldOfChange
    <3>5. NextIsRecipient(r)'
      <4>1. CASE r # q
        BY <3>2, <4>1 DEF IInv, NextIsRecipient
      <4>2. CASE r = q
        BY <2>1, <3>3, <4>2, EffectsAssumption DEF NextIsRecipient
      <4> QED
        BY <4>1, <4>2
    <3> QED
      BY <3>4, <3>5
  <2>7. logged' \in [Requests -> SUBSET Nat] /\ \A r \in Requests : logged'[r] \subseteq 1..Recipients[r]
    BY <2>1, <2>2 DEF IInv, TypeOK
  <2> QED
    BY <1>4, <2>4, <2>5, <2>6, <2>7 DEF InsertNotification, IInv, TypeOK, PassedIsMade, Deciding, SuccessIsFull,
                                        WriterOfSuccess, WritingOfSuccess
<1> QED
  BY <1>1, <1>2, <1>3, <1>4 DEF Notify

\* A request that is cut off has neither writer nor status; what was answered
\* stays as it was.
LEMMA CutOff ==
  ASSUME IInv, ProcessEnds, NEW r \in Requests
  PROVE  /\ request'[r] \in RequestRecord
         /\ request'[r].done = request[r].done /\ request'[r].changed = request[r].changed
         /\ request'[r] = request[r] \/ (request[r].at = "running" /\ request'[r].status = 0)
         /\ request'[r].at \in {"new", "answered"} /\ (request[r].at = "answered" => request'[r].at = "answered")
         /\ audit'[r] = audit[r] \/ (audit[r] = "writing" /\ audit'[r] = "failed")
<1>1. request[r] \in RequestRecord
  BY DEF IInv, TypeOK
<1>2. audit'[r] = audit[r] \/ (audit[r] = "writing" /\ audit'[r] = "failed")
  BY DEF ProcessEnds
<1>3. CASE request[r].at = "running"
  <2>1. request'[r] = [request[r] EXCEPT !.at = "answered", !.status = 0]
    BY <1>3 DEF ProcessEnds, Live
  <2> QED
    BY <1>1, <1>2, <1>3, <2>1, CutRequest
<1>4. CASE request[r].at # "running"
  <2>1. request'[r] = request[r]
    BY <1>4 DEF ProcessEnds, Live
  <2> QED
    BY <1>1, <1>2, <1>4, <2>1 DEF RequestRecord
<1> QED
  BY <1>3, <1>4

LEMMA EndKeeps ==
  ASSUME IInv, ProcessEnds, server' \in {"up", "closing", "down"}, faults' \in 0..MaxFaults
  PROVE  IInv'
<1> USE EffectsAssumption
<1>1. request' \in [Requests -> RequestRecord]
  <2>1. \A r \in Requests : request'[r] \in RequestRecord
    BY CutOff
  <2> QED
    BY <2>1 DEF ProcessEnds
<1>2. notice' \in [Requests -> NoticeRecord]
  BY NoticeShapes DEF ProcessEnds, IInv, TypeOK
<1>3. TypeOK'
  BY <1>1, <1>2, CutOff DEF ProcessEnds, IInv, TypeOK
<1>4. ASSUME NEW r \in Requests
      PROVE  (PassedIsMade(r) /\ SuccessIsFull(r) /\ WriterOfSuccess(r) /\ WritingOfSuccess(r))'
  <2>1. PassedIsMade(r) /\ SuccessIsFull(r) /\ WriterOfSuccess(r) /\ WritingOfSuccess(r)
    BY DEF IInv
  <2>2. PassedIsMade(r)' /\ SuccessIsFull(r)'
    BY <2>1, CutOff DEF PassedIsMade, Deciding, SuccessIsFull
  <2>3. WriterOfSuccess(r)' /\ WritingOfSuccess(r)'
    BY <2>1, CutOff DEF WriterOfSuccess, WritingOfSuccess
  <2> QED
    BY <2>2, <2>3
<1>5. ASSUME NEW r \in Requests
      PROVE  (NoticeOfChange(r) /\ NextIsRecipient(r) /\ ToldOfChange(r))'
  <2>1. NoticeOfChange(r) /\ NextIsRecipient(r) /\ ToldOfChange(r) /\ request'[r].done = request[r].done
    BY CutOff DEF IInv
  <2>2. /\ notice'[r].at \in {"none", "over"} /\ (notice'[r].at = "over" => notice[r].at # "none")
        /\ told' = told /\ logged' = logged
    BY NoticeShapes DEF ProcessEnds
  <2> QED
    BY <2>1, <2>2 DEF NoticeOfChange, NextIsRecipient, ToldOfChange
<1> QED
  BY <1>3, <1>4, <1>5 DEF IInv

LEMMA NextKeeps == IInv /\ [Next]_vars => IInv'
<1> SUFFICES ASSUME IInv, [Next]_vars PROVE IInv'
  OBVIOUS
<1>1. CASE \E r \in Requests : Handle(r) \/ StatementFails(r) \/ InsertAuditLog(r) \/ Notify(r)
  BY <1>1, HandlerKeeps, GoroutinesKeep
<1>2. CASE Crash \/ MainReturns
  BY <1>2, EndKeeps, EffectsAssumption DEF Crash, MainReturns, Fault, IInv, TypeOK
<1>3. CASE Shutdown \/ Start \/ UNCHANGED vars
  BY <1>3, EffectsAssumption DEF Shutdown, Start, Fault, vars, IInv, TypeOK, PassedIsMade, Deciding, SuccessIsFull,
     WriterOfSuccess, WritingOfSuccess, NoticeOfChange, NextIsRecipient, ToldOfChange
<1> QED
  BY <1>1, <1>2, <1>3 DEF Next

LEMMA Invariance == Spec => []IInv
BY InitIInv, NextKeeps, PTL DEF Spec

\* The records of the requests, writers and goroutines keep their shape, and
\* nobody is told who is not a recipient.
THEOREM TypeCorrect == Spec => []TypeOK
<1>1. IInv => TypeOK
  BY DEF IInv
<1> QED
  BY <1>1, Invariance, PTL

\* The statements a handler passed, all of them, changed what the answer says.
LEMMA FullIsMade ==
  ASSUME IInv, NEW r \in Requests, request[r].done = Statements[r]
  PROVE  Deciding(r) \subseteq request[r].changed
BY DEF IInv, PassedIsMade, Deciding

\* A row of audit_log stands for an answer of success and for a change of which
\* every statement that decides the answer was made.
THEOREM AuditIsTrue == Spec => []AuditRowsAreOfChanges
<1>1. IInv => AuditRowsAreOfChanges
  BY FullIsMade DEF IInv, AuditRowsAreOfChanges, PassedIsMade, Deciding, SuccessIsFull, WritingOfSuccess
<1> QED
  BY <1>1, Invariance, PTL

\* Nobody is told of what was not done, whichever request's context is used.
THEOREM NoticesAreTrue == Spec => []NoticesAreOfChanges
<1>1. IInv => NoticesAreOfChanges
  BY FullIsMade DEF IInv, NoticesAreOfChanges, ToldOfChange
<1> QED
  BY <1>1, Invariance, PTL
===============================================================================
