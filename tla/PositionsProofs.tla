--------------------------- MODULE PositionsProofs ---------------------------
(***************************************************************************)
(* The two halves of a position's way, proved for any phones, batches,     *)
(* trips, sockets, maps and faults.  LiveMap: markers are true, because    *)
(* whatever is on its way to a page is stored already, and a page adds     *)
(* only trips it loaded under its own rights.  MobileSync: what the phone  *)
(* drops is stored, because the counts of a request account for every      *)
(* sample it has handled; and a sample is stored twice only when a check   *)
(* failed or was overtaken.                                                *)
(***************************************************************************)
EXTENDS Positions, SequenceTheorems, FiniteSetTheorems, TLAPS

-----------------------------------------------------------------------------
(* LiveMap.  Everything on its way to a page is a stored point, a page knows *)
(* only trips it may show, and the points of a trip have a latest one, which *)
(* is what the CHOOSE of Latest finds.                                       *)

StoredMessages == {m \in Message : m.point \in rows[m.trip]}

OnTheWay ==
  /\ channel \in Seq(StoredMessages)
  /\ wire \in [Conns -> Seq(StoredMessages)]
  /\ bridge = Waiting
       \/ /\ bridge \in [msg : StoredMessages, left : Seq(Conns)]
          /\ bridge.left # <<>>

HaveLatest ==
  \A t \in Trips : \E n \in rows[t] \cup {0} : \A k \in rows[t] : k <= n

MayShow(w, t) == w.scope \in {"company", FacilityOf[t]}
KnowsItsOwn == \A p \in Pages : \A t \in page[p].known : MayShow(page[p], t)

SocketsHavePages == \A c \in Conns : conn[c].alive => conn[c].page \in Pages

MapInv ==
  /\ TypeOK /\ OnTheWay /\ HaveLatest
  /\ KnowsItsOwn /\ SocketsHavePages /\ MarkersAreTrue

\* What one more row does to what is stored: nothing is lost.
LEMMA StoredGrow ==
  ASSUME TypeOK, rows' \in [Trips -> SUBSET Points],
         \A t \in Trips : rows[t] \subseteq rows'[t]
  PROVE  StoredMessages \subseteq StoredMessages'
BY DEF StoredMessages, Message, TypeOK

LEMMA SeqGrows ==
  ASSUME NEW S, NEW T, S \subseteq T, NEW s \in Seq(S)
  PROVE  s \in Seq(T)
OBVIOUS

\* OnTheWay, of a step that sends nothing.
LEMMA NothingSent ==
  ASSUME TypeOK, OnTheWay, UNCHANGED <<channel, wire, bridge>>,
         StoredMessages \subseteq StoredMessages'
  PROVE  OnTheWay'
<1>1. channel' \in Seq(StoredMessages')
  BY SeqGrows DEF OnTheWay
<1>2. wire' \in [Conns -> Seq(StoredMessages')]
  BY SeqGrows DEF OnTheWay
<1>3. \/ bridge' = Waiting
      \/ /\ bridge' \in [msg : StoredMessages', left : Seq(Conns)]
         /\ bridge'.left # <<>>
  BY DEF OnTheWay
<1>4. Waiting' = Waiting
  BY DEF Waiting
<1> QED
  BY <1>1, <1>2, <1>3, <1>4 DEF OnTheWay

LEMMA MapInitInv == MapAssumption /\ Init => MapInv
<1> SUFFICES ASSUME MapAssumption, Init PROVE MapInv
  OBVIOUS
<1> USE DEF Init
<1>1. TypeOK
  <2>1. conn \in [Conns -> [stage : {"free", "upgraded", "registered"}, alive : BOOLEAN,
                            page : Pages \cup {"none"}]]
    BY DEF NoConn
  <2>2. page \in [Pages -> [loaded : BOOLEAN,
                            scope : {"none"} \cup UNION {ScopesOf[p] : p \in Pages},
                            awake : BOOLEAN, known : SUBSET Trips,
                            marker : [Trips -> Points \cup {0}]]]
    BY DEF NoPage
  <2>3. \A c \in Conns : Len(wire[c]) <= Buffer /\ wire[c] \in Seq(Message)
    BY DEF MapAssumption
  <2>4. status \in [Trips -> {"before", "active", "over"}] /\ rows \in [Trips -> SUBSET Points]
        /\ unpublished \subseteq {m \in Message : m.point \in rows[m.trip]}
        /\ channel \in Seq(Message) /\ bridge = Waiting
        /\ owed \in SUBSET (Message \X Conns)
    OBVIOUS
  <2>5. faults \in 0..MaxFaults
    BY DEF MapAssumption
  <2> QED
    BY <2>1, <2>2, <2>3, <2>4, <2>5 DEF TypeOK
<1>2. OnTheWay
  BY DEF OnTheWay
<1>3. HaveLatest
  BY DEF HaveLatest
<1>4. KnowsItsOwn /\ SocketsHavePages
  BY DEF KnowsItsOwn, SocketsHavePages, NoPage, NoConn
<1>5. MarkersAreTrue
  BY DEF MarkersAreTrue, NoPage
<1> QED
  BY <1>1, <1>2, <1>3, <1>4, <1>5 DEF MapInv

\* A trip starts or ends.
LEMMA StatusInv ==
  ASSUME MapInv, NEW t \in Trips, StartTrip(t) \/ EndTrip(t)
  PROVE  MapInv'
<1> USE DEF MapInv
<1>1. /\ status' \in [Trips -> {"before", "active", "over"}]
      /\ UNCHANGED <<rows, unpublished, channel, bridge, conn, wire, page, owed, faults>>
  BY DEF StartTrip, EndTrip, TypeOK
<1>2. TypeOK'
  BY <1>1 DEF TypeOK, Waiting, Message
<1>3. OnTheWay'
  BY <1>1, NothingSent DEF StoredMessages, Message
<1>4. HaveLatest' /\ KnowsItsOwn' /\ SocketsHavePages' /\ MarkersAreTrue'
  BY <1>1 DEF HaveLatest, KnowsItsOwn, MayShow, SocketsHavePages, MarkersAreTrue
<1> QED
  BY <1>2, <1>3, <1>4

\* A point is stored: the latest of its trip is the old latest or the point.
LEMMA StorePointInv ==
  ASSUME MapAssumption, MapInv, NEW m \in Message, InsertGPSEvent(m)
  PROVE  MapInv'
<1> USE DEF MapInv
<1>1. /\ rows' = [rows EXCEPT ![m.trip] = @ \cup {m.point}]
      /\ unpublished' = unpublished \cup {m}
      /\ UNCHANGED <<status, channel, bridge, conn, wire, page, owed, faults>>
  BY DEF InsertGPSEvent
<1>2. m.trip \in Trips /\ m.point \in Points /\ rows \in [Trips -> SUBSET Points]
  BY DEF Message, TypeOK
<1>3. /\ rows' \in [Trips -> SUBSET Points]
      /\ \A t \in Trips : rows'[t] = IF t = m.trip THEN rows[t] \cup {m.point} ELSE rows[t]
  BY <1>1, <1>2
<1>4. StoredMessages \subseteq StoredMessages'
  BY <1>3, StoredGrow
<1>5. unpublished' \subseteq StoredMessages'
  BY <1>1, <1>2, <1>3, <1>4 DEF TypeOK, StoredMessages
<1>6. TypeOK'
  BY <1>1, <1>3, <1>5 DEF TypeOK, StoredMessages, Waiting, Message
<1>7. OnTheWay'
  BY <1>1, <1>4, NothingSent
<1>8. HaveLatest'
  <2> SUFFICES ASSUME NEW t \in Trips PROVE \E n \in rows'[t] \cup {0} : \A k \in rows'[t] : k <= n
    BY DEF HaveLatest
  <2>1. PICK n \in rows[t] \cup {0} : \A k \in rows[t] : k <= n
    BY DEF HaveLatest
  <2>2. rows[t] \subseteq Nat
    BY <1>2 DEF MapAssumption
  <2>3. n \in Nat /\ m.point \in Nat
    <3>1. n = 0 \/ n \in rows[t]
      BY <2>1
    <3>2. m.point \in Nat
      BY <1>2 DEF MapAssumption
    <3> QED
      BY <2>2, <3>1, <3>2
  <2>4. CASE t = m.trip /\ n < m.point
    <3>1. \A k \in rows'[t] : k <= m.point
      BY <1>3, <2>1, <2>2, <2>3, <2>4
    <3> QED
      BY <1>3, <2>4, <3>1
  <2>5. CASE ~(t = m.trip /\ n < m.point)
    <3>1. \A k \in rows'[t] : k <= n
      BY <1>3, <2>1, <2>2, <2>3, <2>5
    <3> QED
      BY <1>3, <2>1, <3>1
  <2> QED
    BY <2>4, <2>5
<1>9. KnowsItsOwn' /\ SocketsHavePages'
  BY <1>1 DEF KnowsItsOwn, MayShow, SocketsHavePages
<1>10. MarkersAreTrue'
  BY <1>1, <1>3 DEF MarkersAreTrue
<1> QED
  BY <1>6, <1>7, <1>8, <1>9, <1>10

\* A point goes to the channel, or is lost on the way.
LEMMA PublishPointInv ==
  ASSUME MapAssumption, MapInv, NEW m \in Message, Publish(m) \/ PublishFails(m)
  PROVE  MapInv'
<1> USE DEF MapInv
<1>1. /\ m \in unpublished /\ unpublished' = unpublished \ {m}
      /\ channel' \in {channel, Append(channel, m)}
      /\ UNCHANGED <<status, rows, bridge, conn, wire, page, owed>>
      /\ faults' \in 0..MaxFaults
  BY DEF Publish, PublishFails, Fault, TypeOK, MapAssumption
<1>2. m \in StoredMessages /\ StoredMessages' = StoredMessages
  BY <1>1 DEF TypeOK, StoredMessages, Message
<1>3. channel' \in Seq(StoredMessages)
  BY <1>1, <1>2 DEF OnTheWay
<1>4. OnTheWay'
  BY <1>1, <1>2, <1>3 DEF OnTheWay, Waiting
<1>5. TypeOK'
  <2>1. StoredMessages \subseteq Message
    BY DEF StoredMessages
  <2>2. channel' \in Seq(Message)
    BY <1>3, <2>1, SeqGrows
  <2> QED
    BY <1>1, <2>2 DEF TypeOK, Waiting, Message
<1>6. HaveLatest' /\ KnowsItsOwn' /\ SocketsHavePages' /\ MarkersAreTrue'
  BY <1>1 DEF HaveLatest, KnowsItsOwn, MayShow, SocketsHavePages, MarkersAreTrue
<1> QED
  BY <1>4, <1>5, <1>6

LEMMA LoseSubscriptionInv ==
  ASSUME MapAssumption, MapInv, LoseSubscription
  PROVE  MapInv'
<1> USE DEF MapInv
<1>1. /\ channel' = <<>> /\ faults' \in 0..MaxFaults
      /\ UNCHANGED <<status, rows, unpublished, bridge, conn, wire, page, owed>>
  BY DEF LoseSubscription, Fault, feedVars, TypeOK, MapAssumption
<1>2. StoredMessages' = StoredMessages
  BY <1>1 DEF StoredMessages, Message
<1>3. OnTheWay'
  BY <1>1, <1>2 DEF OnTheWay, Waiting
<1>4. TypeOK'
  <2>1. channel' \in Seq(Message)
    BY <1>1
  <2> QED
    BY <1>1, <2>1 DEF TypeOK, Waiting, Message
<1>5. HaveLatest' /\ KnowsItsOwn' /\ SocketsHavePages' /\ MarkersAreTrue'
  BY <1>1 DEF HaveLatest, KnowsItsOwn, MayShow, SocketsHavePages, MarkersAreTrue
<1> QED
  BY <1>3, <1>4, <1>5

-----------------------------------------------------------------------------
(* The steps of the hub. *)

\* A set of sockets can be gone through in some order, and no order is empty
\* but that of nobody.
LEMMA OrdersAreSequences ==
  ASSUME MapAssumption, NEW S \in SUBSET Conns, S # {}, NEW o \in Orders(S)
  PROVE  o \in Seq(Conns) /\ o # <<>>
<1> DEFINE n == Cardinality(S)
<1>1. IsFiniteSet(S)
  BY FS_Subset DEF MapAssumption
<1>2. n \in Nat /\ n # 0
  BY <1>1, FS_CardinalityType, FS_EmptySet
<1>3. o \in [1..n -> S]
  BY DEF Orders
<1> HIDE DEF n
<1>4. o \in Seq(S)
  BY <1>2, <1>3, SeqDef
<1>5. o \in Seq(Conns)
  BY <1>4, SeqGrows
<1>6. 1 \in DOMAIN o
  BY <1>2, <1>3
<1>7. o # <<>>
  BY <1>6
<1> QED
  BY <1>5, <1>7

LEMMA BroadcastInv ==
  ASSUME MapAssumption, MapInv, BroadcastText
  PROVE  MapInv'
<1> USE DEF MapInv
<1>1. /\ channel # <<>> /\ channel' = Tail(channel)
      /\ \/ bridge' = bridge
         \/ \E o \in Orders(Clients) : Clients # {} /\ bridge' = [msg |-> Head(channel), left |-> o]
      /\ owed' = owed \cup {<<Head(channel), c>> : c \in {k \in Clients : conn[k].alive}}
      /\ UNCHANGED <<status, rows, unpublished, conn, wire, page, faults>>
  BY DEF BroadcastText, feedVars
<1>2. StoredMessages' = StoredMessages /\ StoredMessages \subseteq Message
  BY <1>1 DEF StoredMessages, Message
<1> DEFINE M == StoredMessages
<1>3. channel \in Seq(M)
  BY DEF OnTheWay
<1>4. Clients \in SUBSET Conns
  BY DEF Clients
<1>5. M \subseteq Message
  BY <1>2
<1> HIDE DEF M
<1>6. Head(channel) \in M /\ channel' \in Seq(M)
  BY <1>1, <1>3
<1>7. \/ bridge' = bridge
      \/ bridge' \in [msg : M, left : Seq(Conns)] /\ bridge'.left # <<>>
  <2>1. CASE bridge' = bridge
    BY <2>1
  <2>2. ASSUME NEW o \in Orders(Clients), Clients # {}, bridge' = [msg |-> Head(channel), left |-> o]
        PROVE  bridge' \in [msg : M, left : Seq(Conns)] /\ bridge'.left # <<>>
    BY <1>4, <1>6, <2>2, OrdersAreSequences
  <2> QED
    BY <1>1, <2>1, <2>2
<1>8. OnTheWay'
  <2>1. /\ channel' \in Seq(StoredMessages')
        /\ \/ bridge' = bridge
           \/ bridge' \in [msg : StoredMessages', left : Seq(Conns)] /\ bridge'.left # <<>>
    BY <1>2, <1>6, <1>7 DEF M
  <2> QED
    BY <1>1, <1>2, <2>1 DEF OnTheWay, Waiting
<1>9. TypeOK'
  <2>1. channel' \in Seq(Message)
    BY <1>5, <1>6, SeqGrows
  <2>2. bridge' = Waiting \/ (bridge'.msg \in Message /\ bridge'.left \in Seq(Conns))
    BY <1>5, <1>7 DEF TypeOK
  <2>3. owed' \in SUBSET (Message \X Conns)
    BY <1>1, <1>4, <1>5, <1>6 DEF TypeOK
  <2> QED
    BY <1>1, <2>1, <2>2, <2>3 DEF TypeOK, Waiting, Message
<1>10. HaveLatest' /\ KnowsItsOwn' /\ SocketsHavePages' /\ MarkersAreTrue'
  BY <1>1 DEF HaveLatest, KnowsItsOwn, MayShow, SocketsHavePages, MarkersAreTrue
<1> QED
  BY <1>8, <1>9, <1>10

LEMMA WriteMessageInv ==
  ASSUME MapAssumption, MapInv, WriteMessage
  PROVE  MapInv'
<1> USE DEF MapInv
<1> DEFINE M == StoredMessages
           c == Head(bridge.left)
<1>1. /\ UNCHANGED <<status, rows, unpublished, channel, conn, page, owed, faults>>
      /\ bridge # Waiting
      /\ \/ Len(wire[c]) < Buffer /\ wire' = [wire EXCEPT ![c] = Append(@, bridge.msg)]
         \/ wire' = wire
      /\ bridge' = IF Tail(bridge.left) = <<>> THEN Waiting
                   ELSE [bridge EXCEPT !.left = Tail(bridge.left)]
  BY DEF WriteMessage, feedVars, ReadLocked, Unlock, AfterError
<1>2. bridge.msg \in M /\ bridge.left \in Seq(Conns) /\ bridge.left # <<>>
      /\ bridge \in [msg : M, left : Seq(Conns)]
  BY <1>1 DEF OnTheWay
<1>3. wire \in [Conns -> Seq(M)] /\ \A d \in Conns : Len(wire[d]) <= Buffer
  BY DEF OnTheWay, TypeOK
<1>4. M' = M /\ M \subseteq Message
  BY <1>1 DEF StoredMessages, Message
<1> HIDE DEF M
<1>5. c \in Conns /\ Tail(bridge.left) \in Seq(Conns)
  BY <1>2
<1>6. /\ wire' \in [Conns -> Seq(M)]
      /\ \A d \in Conns : Len(wire'[d]) <= Buffer
  <2>1. CASE wire' = wire
    BY <1>3, <2>1
  <2>2. CASE Len(wire[c]) < Buffer /\ wire' = [wire EXCEPT ![c] = Append(@, bridge.msg)]
    <3>1. wire[c] \in Seq(M) /\ Len(wire[c]) \in Nat
      BY <1>3, <1>5
    <3>2. Append(wire[c], bridge.msg) \in Seq(M)
          /\ Len(Append(wire[c], bridge.msg)) = Len(wire[c]) + 1
      BY <1>2, <3>1
    <3>3. Len(wire[c]) + 1 <= Buffer
      BY <2>2, <3>1 DEF MapAssumption
    <3> HIDE DEF c
    <3> QED
      BY <1>3, <1>5, <2>2, <3>2, <3>3
  <2> QED
    BY <1>1, <2>1, <2>2
<1>7. \/ bridge' = Waiting
      \/ bridge' \in [msg : M, left : Seq(Conns)] /\ bridge'.left # <<>>
  BY <1>1, <1>2, <1>5
<1>8. OnTheWay'
  <2>1. Waiting' = Waiting
    BY DEF Waiting
  <2>2. channel' \in Seq(M)
    BY <1>1 DEF OnTheWay, M
  <2> QED
    BY <1>4, <1>6, <1>7, <2>1, <2>2 DEF OnTheWay, M
<1>9. TypeOK'
  <2>1. \A d \in Conns : wire'[d] \in Seq(Message)
    BY <1>4, <1>6, SeqGrows
  <2>2. bridge' = Waiting \/ (bridge'.msg \in Message /\ bridge'.left \in Seq(Conns))
    BY <1>4, <1>7
  <2> QED
    BY <1>1, <1>6, <2>1, <2>2 DEF TypeOK, Waiting, Message
<1>10. HaveLatest' /\ KnowsItsOwn' /\ SocketsHavePages' /\ MarkersAreTrue'
  BY <1>1 DEF HaveLatest, KnowsItsOwn, MayShow, SocketsHavePages, MarkersAreTrue
<1> QED
  BY <1>8, <1>9, <1>10

ConnRecord ==
  [stage : {"free", "upgraded", "registered"}, alive : BOOLEAN, page : Pages \cup {"none"}]

\* A step that only changes the sockets.
LEMMA SocketsInv ==
  ASSUME MapInv, UNCHANGED <<status, rows, unpublished, channel, bridge, wire, page, owed, faults>>,
         conn' \in [Conns -> ConnRecord], SocketsHavePages'
  PROVE  MapInv'
<1> USE DEF MapInv
<1>1. OnTheWay'
  BY NothingSent DEF StoredMessages, Message
<1>2. TypeOK'
  BY DEF TypeOK, Waiting, Message, ConnRecord
<1>3. HaveLatest' /\ KnowsItsOwn' /\ MarkersAreTrue'
  BY DEF HaveLatest, KnowsItsOwn, MayShow, MarkersAreTrue
<1> QED
  BY <1>1, <1>2, <1>3

LEMMA RegisterInv ==
  ASSUME MapInv, NEW c \in Conns, Register(c)
  PROVE  MapInv'
<1>1. conn \in [Conns -> ConnRecord] /\ SocketsHavePages
  BY DEF MapInv, TypeOK, ConnRecord
<1>2. conn' \in [Conns -> ConnRecord]
  BY <1>1 DEF Register, ConnRecord
<1>3. SocketsHavePages'
  BY <1>1 DEF Register, SocketsHavePages, ConnRecord
<1> QED
  BY <1>2, <1>3, SocketsInv DEF Register, feedVars

LEMMA RemoveInv ==
  ASSUME MapInv, NEW c \in Conns, Remove(c)
  PROVE  MapInv'
<1>1. conn \in [Conns -> ConnRecord] /\ SocketsHavePages
  BY DEF MapInv, TypeOK, ConnRecord
<1>2. conn' \in [Conns -> ConnRecord]
  BY <1>1 DEF Remove, ConnRecord, NoConn
<1>3. SocketsHavePages'
  BY <1>1 DEF Remove, SocketsHavePages, ConnRecord, NoConn
<1> QED
  BY <1>2, <1>3, SocketsInv DEF Remove, feedVars

LEMMA ConnectInv ==
  ASSUME MapInv, NEW p \in Pages, Connect(p)
  PROVE  MapInv'
<1>1. conn \in [Conns -> ConnRecord] /\ SocketsHavePages
  BY DEF MapInv, TypeOK, ConnRecord
<1>2. PICK c \in Conns :
        conn' = [conn EXCEPT ![c] = [stage |-> "upgraded", alive |-> TRUE, page |-> p]]
  BY DEF Connect
<1>3. conn' \in [Conns -> ConnRecord]
  BY <1>1, <1>2 DEF ConnRecord
<1>4. SocketsHavePages'
  BY <1>1, <1>2 DEF SocketsHavePages, ConnRecord
<1> QED
  BY <1>3, <1>4, SocketsInv DEF Connect, feedVars

-----------------------------------------------------------------------------
(* The steps of the pages. *)

PageRecord ==
  [loaded : BOOLEAN, scope : {"none"} \cup UNION {ScopesOf[p] : p \in Pages},
   awake : BOOLEAN, known : SUBSET Trips, marker : [Trips -> Points \cup {0}]]

Shows(w) ==
  /\ \A t \in w.known : MayShow(w, t)
  /\ \A t \in Trips : w.marker[t] # 0 => w.marker[t] \in rows[t] /\ MayShow(w, t)

LEMMA PagesShow ==
  ASSUME MapInv
  PROVE  /\ page \in [Pages -> PageRecord]
         /\ \A p \in Pages : Shows(page[p])
BY DEF MapInv, TypeOK, PageRecord, Shows, KnowsItsOwn, MarkersAreTrue, MayShow

\* A step of the pages and of what is on its way to them.
LEMMA PagesInv ==
  ASSUME MapInv, UNCHANGED <<status, rows, unpublished, channel, bridge>>,
         faults' \in 0..MaxFaults, owed' \subseteq owed,
         conn' \in [Conns -> ConnRecord], SocketsHavePages',
         wire' \in [Conns -> Seq(StoredMessages)], \A c \in Conns : Len(wire'[c]) <= Buffer,
         page' \in [Pages -> PageRecord], \A p \in Pages : Shows(page'[p])
  PROVE  MapInv'
<1> USE DEF MapInv
<1>1. StoredMessages' = StoredMessages /\ StoredMessages \subseteq Message
  BY DEF StoredMessages, Message
<1>2. OnTheWay'
  <2>1. Waiting' = Waiting
    BY DEF Waiting
  <2> QED
    BY <1>1, <2>1 DEF OnTheWay
<1>3. TypeOK'
  <2>1. \A c \in Conns : wire'[c] \in Seq(Message)
    BY <1>1, SeqGrows
  <2>2. /\ conn' \in [Conns -> [stage : {"free", "upgraded", "registered"}, alive : BOOLEAN,
                                page : Pages \cup {"none"}]]
        /\ page' \in [Pages -> [loaded : BOOLEAN,
                                scope : {"none"} \cup UNION {ScopesOf[p] : p \in Pages},
                                awake : BOOLEAN, known : SUBSET Trips,
                                marker : [Trips -> Points \cup {0}]]]
    BY DEF ConnRecord, PageRecord
  <2>3. owed' \in SUBSET (Message \X Conns)
    BY DEF TypeOK
  <2> QED
    BY <2>1, <2>2, <2>3 DEF TypeOK, Waiting, Message
<1>4. HaveLatest'
  BY DEF HaveLatest
<1>5. KnowsItsOwn' /\ MarkersAreTrue'
  BY DEF KnowsItsOwn, MarkersAreTrue, Shows, MayShow
<1> QED
  BY <1>2, <1>3, <1>4, <1>5

\* One page becomes w.
LEMMA OnePageInv ==
  ASSUME MapInv, UNCHANGED <<status, rows, unpublished, channel, bridge, conn, faults>>,
         owed' \subseteq owed,
         wire' \in [Conns -> Seq(StoredMessages)], \A c \in Conns : Len(wire'[c]) <= Buffer,
         NEW p \in Pages, NEW w \in PageRecord, Shows(w), page' = [page EXCEPT ![p] = w]
  PROVE  MapInv'
<1>1. page' \in [Pages -> PageRecord] /\ \A q \in Pages : Shows(page'[q])
  BY PagesShow
<1>2. conn' \in [Conns -> ConnRecord] /\ SocketsHavePages' /\ faults' \in 0..MaxFaults
  BY DEF MapInv, TypeOK, ConnRecord, SocketsHavePages
<1> QED
  BY <1>1, <1>2, PagesInv

\* The latest point of a trip is stored, or there is none.
LEMMA LatestIsStored ==
  ASSUME MapInv, NEW t \in Trips
  PROVE  Latest(t) \in rows[t] \cup {0} /\ rows[t] \subseteq Points
<1>1. \E n \in rows[t] \cup {0} : \A k \in rows[t] : k <= n
  BY DEF MapInv, HaveLatest
<1>2. Latest(t) \in rows[t] \cup {0}
  BY <1>1 DEF Latest
<1> QED
  BY <1>2 DEF MapInv, TypeOK

LEMMA WiresStay ==
  ASSUME MapInv
  PROVE  wire \in [Conns -> Seq(StoredMessages)] /\ \A c \in Conns : Len(wire[c]) <= Buffer
BY DEF MapInv, TypeOK, OnTheWay

LEMMA LoadInv ==
  ASSUME MapInv, NEW p \in Pages, Load(p)
  PROVE  MapInv'
<1>1. PICK scope \in ScopesOf[p] :
        LET seed == filterDashboardTripsByFacility(scope) IN
        page' = [page EXCEPT ![p] =
          [loaded |-> TRUE, scope |-> scope, awake |-> TRUE, known |-> seed,
           marker |-> [t \in Trips |-> IF t \in seed THEN numericToFloat64(Latest(t)) ELSE 0]]]
  BY DEF Load
<1> DEFINE seed == filterDashboardTripsByFacility(scope)
           marker == [t \in Trips |-> IF t \in seed THEN numericToFloat64(Latest(t)) ELSE 0]
           w == [loaded |-> TRUE, scope |-> scope, awake |-> TRUE, known |-> seed, marker |-> marker]
<1>2. page' = [page EXCEPT ![p] = w]
  BY <1>1
<1>3. seed \subseteq Trips /\ \A t \in seed : scope \in {"company", FacilityOf[t]}
  BY DEF filterDashboardTripsByFacility, ListActiveTripsWithLatestGPS
<1> HIDE DEF seed
<1>4. \A t \in Trips : marker[t] \in Points \cup {0}
                       /\ (marker[t] # 0 => marker[t] \in rows[t] /\ t \in seed)
  BY LatestIsStored DEF numericToFloat64
<1>5. marker \in [Trips -> Points \cup {0}]
  BY <1>4
<1> HIDE DEF marker
<1>6. w \in PageRecord
  BY <1>3, <1>5 DEF PageRecord
<1>7. Shows(w)
  BY <1>3, <1>4 DEF Shows, MayShow
<1> HIDE DEF w
<1>8. wire' \in [Conns -> Seq(StoredMessages)] /\ \A c \in Conns : Len(wire'[c]) <= Buffer
  BY WiresStay DEF Load
<1> QED
  BY <1>2, <1>6, <1>7, <1>8, OnePageInv DEF Load, feedVars

LEMMA SleepInv ==
  ASSUME MapInv, NEW p \in Pages, Sleep(p)
  PROVE  MapInv'
<1> DEFINE v == page[p]
           w == [v EXCEPT !.awake = FALSE]
<1>1. v \in PageRecord /\ Shows(v)
  BY PagesShow
<1>2. page' = [page EXCEPT ![p] = w]
  BY DEF Sleep
<1> HIDE DEF v
<1>3. w \in PageRecord /\ w.known = v.known /\ w.marker = v.marker /\ w.scope = v.scope
  BY <1>1 DEF PageRecord
<1> HIDE DEF w
<1>4. Shows(w)
  BY <1>1, <1>3 DEF Shows, MayShow
<1>5. wire' \in [Conns -> Seq(StoredMessages)] /\ \A c \in Conns : Len(wire'[c]) <= Buffer
  BY WiresStay DEF Sleep
<1> QED
  BY <1>2, <1>3, <1>4, <1>5, OnePageInv DEF Sleep, feedVars

\* What is drawn was stored, and its trip may be shown.
LEMMA OnMessageInv ==
  ASSUME MapAssumption, MapInv, NEW c \in Conns, OnMessage(c)
  PROVE  MapInv'
<1> DEFINE M == StoredMessages
           m == Head(wire[c])
           p == conn[c].page
           v == page[p]
<1>1. /\ conn[c].alive /\ wire[c] # <<>> /\ wire' = [wire EXCEPT ![c] = Tail(@)]
      /\ upsertTrip(p, m) /\ owed' \subseteq owed
      /\ UNCHANGED <<status, rows, unpublished, channel, bridge, conn, faults>>
  BY DEF OnMessage, feedVars
<1>2. p \in Pages
  BY <1>1 DEF MapInv, SocketsHavePages
<1>3. v \in PageRecord /\ Shows(v) /\ page \in [Pages -> PageRecord]
  BY <1>2, PagesShow
<1>4. wire \in [Conns -> Seq(M)] /\ \A d \in Conns : Len(wire[d]) <= Buffer
  BY WiresStay
<1> HIDE DEF M
<1>5. wire[c] \in Seq(M) /\ m \in M /\ Tail(wire[c]) \in Seq(M)
      /\ Len(Tail(wire[c])) = Len(wire[c]) - 1 /\ Len(wire[c]) \in Nat
  BY <1>1, <1>4
<1>6. wire' \in [Conns -> Seq(M)] /\ \A d \in Conns : Len(wire'[d]) <= Buffer
  <2>1. Len(Tail(wire[c])) <= Buffer
    BY <1>4, <1>5 DEF MapAssumption
  <2> QED
    BY <1>1, <1>4, <1>5, <2>1
<1>7. m \in Message /\ m.point \in rows[m.trip] /\ m.trip \in Trips /\ m.point \in Points
  BY <1>5 DEF M, StoredMessages, Message
<1> HIDE DEF m, p
<1>8. CASE Drawn(p, m)
  <2> DEFINE w == [v EXCEPT !.known = @ \cup {m.trip}, !.marker[m.trip] = m.point]
  <2>1. page' = [page EXCEPT ![p] = w]
    BY <1>1, <1>2, <1>3, <1>8 DEF upsertTrip, PageRecord
  <2>2. MayShow(v, m.trip)
    BY <1>3, <1>8 DEF Drawn, Shows, MayShow
  <2> HIDE DEF v
  <2>3. v.marker \in [Trips -> Points \cup {0}] /\ v.known \subseteq Trips
    BY <1>3 DEF PageRecord
  <2>4. w.scope = v.scope /\ w.known = v.known \cup {m.trip}
        /\ w.marker = [v.marker EXCEPT ![m.trip] = m.point]
    BY <1>3 DEF PageRecord
  <2>5. w \in PageRecord
    BY <1>3, <1>7, <2>3 DEF PageRecord
  <2> HIDE DEF w
  <2>6. Shows(w)
    BY <1>3, <1>7, <2>2, <2>3, <2>4 DEF Shows, MayShow
  <2> QED
    BY <1>1, <1>2, <1>6, <2>1, <2>5, <2>6, OnePageInv DEF M
<1>9. CASE ~Drawn(p, m)
  <2>1. page' = [page EXCEPT ![p] = v]
    BY <1>1, <1>3, <1>9 DEF upsertTrip
  <2> HIDE DEF v
  <2> QED
    BY <1>1, <1>2, <1>3, <1>6, <2>1, OnePageInv DEF M
<1> QED
  BY <1>8, <1>9

\* Sockets that close lose what was on its way.
LEMMA ClosedSockets ==
  ASSUME MapAssumption, MapInv, NEW S, Closed(S)
  PROVE  /\ conn' \in [Conns -> ConnRecord] /\ SocketsHavePages' /\ owed' \subseteq owed
         /\ wire' \in [Conns -> Seq(StoredMessages)] /\ \A c \in Conns : Len(wire'[c]) <= Buffer
<1>1. conn \in [Conns -> ConnRecord] /\ SocketsHavePages
  BY DEF MapInv, TypeOK, ConnRecord
<1>2. /\ conn' = [c \in Conns |-> IF c \in S THEN [conn[c] EXCEPT !.alive = FALSE] ELSE conn[c]]
      /\ wire' = [c \in Conns |-> IF c \in S THEN <<>> ELSE wire[c]]
      /\ owed' \subseteq owed
  BY DEF Closed
<1>3. conn' \in [Conns -> ConnRecord]
  BY <1>1, <1>2 DEF ConnRecord
<1>4. SocketsHavePages'
  BY <1>1, <1>2 DEF SocketsHavePages, ConnRecord
<1>5. \A c \in Conns : wire'[c] = <<>> \/ wire'[c] = wire[c]
  BY <1>2
<1>6. wire' \in [Conns -> Seq(StoredMessages)]
  BY <1>2, WiresStay
<1>7. \A c \in Conns : Len(wire'[c]) <= Buffer
  BY <1>5, WiresStay DEF MapAssumption
<1> QED
  BY <1>2, <1>3, <1>4, <1>6, <1>7

LEMMA BreakInv ==
  ASSUME MapAssumption, MapInv, NEW c \in Conns, Break(c)
  PROVE  MapInv'
<1>1. faults' \in 0..MaxFaults /\ Closed({c})
      /\ UNCHANGED <<status, rows, unpublished, channel, bridge, page>>
  BY DEF Break, Fault, feedVars, MapInv, TypeOK, MapAssumption
<1>2. page' \in [Pages -> PageRecord] /\ \A p \in Pages : Shows(page'[p])
  BY <1>1, PagesShow
<1> QED
  BY <1>1, <1>2, ClosedSockets, PagesInv

LEMMA LeaveInv ==
  ASSUME MapAssumption, MapInv, NEW p \in Pages, Leave(p)
  PROVE  MapInv'
<1> DEFINE S == {c \in Conns : conn[c].page = p}
<1>1. Closed(S) /\ page' = [page EXCEPT ![p] = NoPage]
      /\ UNCHANGED <<status, rows, unpublished, channel, bridge, faults>>
  BY DEF Leave, feedVars
<1>2. NoPage \in PageRecord /\ Shows(NoPage)
  BY DEF NoPage, PageRecord, Shows
<1>3. page' \in [Pages -> PageRecord] /\ \A q \in Pages : Shows(page'[q])
  BY <1>1, <1>2, PagesShow
<1>4. faults' \in 0..MaxFaults
  BY <1>1 DEF MapInv, TypeOK
<1> HIDE DEF S
<1> QED
  BY <1>1, <1>3, <1>4, ClosedSockets, PagesInv

LEMMA MapNextInv ==
  ASSUME MapAssumption, MapInv, [Next]_vars
  PROVE  MapInv'
<1>1. CASE UNCHANGED vars
  <2>1. UNCHANGED <<status, rows, unpublished, channel, bridge, conn, wire, page, owed, faults>>
    BY <1>1 DEF vars, feedVars
  <2>2. conn' \in [Conns -> ConnRecord] /\ SocketsHavePages'
    BY <2>1 DEF MapInv, TypeOK, ConnRecord, SocketsHavePages
  <2> QED
    BY <2>1, <2>2, SocketsInv
<1>2. ASSUME NEW t \in Trips, StartTrip(t) \/ EndTrip(t) PROVE MapInv'
  BY <1>2, StatusInv
<1>3. ASSUME NEW m \in Message, InsertGPSEvent(m) \/ Publish(m) \/ PublishFails(m) PROVE MapInv'
  BY <1>3, StorePointInv, PublishPointInv
<1>4. CASE LoseSubscription \/ BroadcastText \/ WriteMessage
  BY <1>4, LoseSubscriptionInv, BroadcastInv, WriteMessageInv
<1>5. ASSUME NEW c \in Conns, Register(c) \/ Remove(c) \/ OnMessage(c) \/ Break(c) PROVE MapInv'
  BY <1>5, RegisterInv, RemoveInv, OnMessageInv, BreakInv
<1>6. ASSUME NEW p \in Pages, Load(p) \/ Connect(p) \/ Sleep(p) \/ Leave(p) PROVE MapInv'
  BY <1>6, LoadInv, ConnectInv, SleepInv, LeaveInv
<1> QED
  BY <1>1, <1>2, <1>3, <1>4, <1>5, <1>6 DEF Next

LEMMA MapInvariant == MapAssumption => (Spec => []MapInv)
<1> SUFFICES ASSUME MapAssumption PROVE Spec => []MapInv
  OBVIOUS
<1>1. Init => MapInv
  BY MapInitInv
<1>2. MapInv /\ [Next]_vars => MapInv'
  BY MapNextInv
<1> QED
  BY <1>1, <1>2, PTL DEF Spec

\* The hub, the sockets and the pages keep their shape; no buffer overflows.
THEOREM MapTypes == MapAssumption => (Spec => []TypeOK)
<1> SUFFICES ASSUME MapAssumption PROVE Spec => []TypeOK
  OBVIOUS
<1>1. MapInv => TypeOK
  BY DEF MapInv
<1> QED
  BY <1>1, MapInvariant, PTL

\* Every marker stands where a stored point of its trip is, on a map that may
\* show the trip: for any pages, sockets, points and faults, although the hub
\* (internal/ws) sends every message to every page.
THEOREM MarkersStandOnPoints == MapAssumption => (Spec => []MarkersAreTrue)
<1> SUFFICES ASSUME MapAssumption PROVE Spec => []MarkersAreTrue
  OBVIOUS
<1>1. MapInv => MarkersAreTrue
  BY DEF MapInv
<1> QED
  BY <1>1, MapInvariant, PTL

-----------------------------------------------------------------------------
(* MobileSync, as Positions instantiates it.  A request is sound when its    *)
(* counts cover no more than it has handled, and when, if they cover all of  *)
(* that, all of it is stored.                                                *)

Handled(w) == IF w.at = "publish" THEN w.next ELSE w.next - 1

Sound(S, w) ==
  /\ IF w.at = "idle" THEN w = Phone!Idle ELSE w.batch \in Batches
  /\ w.next >= 1
  /\ w.next <= Len(w.batch) + 1
  /\ w.at \in {"insert", "publish"} => w.next <= Len(w.batch)
  /\ w.accepted + w.duplicates <= Handled(w)
  /\ w.accepted + w.duplicates = Handled(w) => \A i \in 1..Handled(w) : S[w.batch[i]] > 0

RequestsAreSound == \A r \in Requests : Sound(stored, request[r])

\* Between the check and the insert of a point that is not risked, nobody else
\* stands there and the point is not stored.
Inserting(w, p) == w.at = "insert" /\ w.batch[w.next] = p
InsertsAlone ==
  \A p \in Samples \ risked, r \in Requests : Inserting(request[r], p) =>
    /\ stored[p] = 0
    /\ \A s \in Requests : Inserting(request[s], p) => s = r

PhoneInv ==
  /\ Phone!TypeOK /\ RequestsAreSound /\ InsertsAlone
  /\ Phone!KeptUntilStored /\ Phone!StoredOnce

LEMMA BatchTypes ==
  ASSUME Phone!SyncAssumption, NEW b \in Batches \cup {<<>>}
  PROVE  b \in Seq(Samples)
<1>1. CASE b \in Batches
  BY <1>1 DEF Phone!SyncAssumption
<1>2. CASE b = <<>>
  <2>1. <<>> \in Seq(Samples)
    OBVIOUS
  <2> QED
    BY <1>2, <2>1
<1> QED
  BY <1>1, <1>2

LEMMA SentTypes ==
  ASSUME Phone!SyncAssumption, Phone!TypeOK, NEW r \in Requests
  PROVE  /\ request[r] \in Phone!RequestRecord
         /\ request[r].batch \in Seq(Samples)
         /\ request[r].next \in Nat
         /\ request[r].accepted \in Nat /\ request[r].duplicates \in Nat
         /\ Len(request[r].batch) \in Nat
         /\ DOMAIN request[r].batch = 1..Len(request[r].batch)
<1>1. request[r] \in Phone!RequestRecord
  BY DEF Phone!TypeOK
<1>2. request[r].batch \in Batches \cup {<<>>} /\ request[r].next \in Nat
      /\ request[r].accepted \in Nat /\ request[r].duplicates \in Nat
  BY <1>1 DEF Phone!RequestRecord
<1>4. request[r].batch \in Seq(Samples)
  BY <1>2, BatchTypes
<1> QED
  BY <1>1, <1>2, <1>4

\* What is handled of a request lies in its batch.
LEMMA HandledPoints ==
  ASSUME Phone!SyncAssumption, Phone!TypeOK, RequestsAreSound, NEW r \in Requests
  PROVE  /\ request[r].at # "idle" => Len(request[r].batch) >= 1
         /\ Handled(request[r]) \in 0..Len(request[r].batch)
         /\ \A i \in 1..Handled(request[r]) : request[r].batch[i] \in Samples
<1> USE SentTypes
<1>1. Sound(stored, request[r])
  BY DEF RequestsAreSound
<1>2. Handled(request[r]) \in 0..Len(request[r].batch)
  BY <1>1 DEF Sound, Handled
<1>3. ASSUME NEW i \in 1..Handled(request[r]) PROVE request[r].batch[i] \in Samples
  BY <1>2
<1>4. ASSUME request[r].at # "idle" PROVE Len(request[r].batch) >= 1
  <2>1. request[r].batch \in Batches
    BY <1>1, <1>4 DEF Sound
  <2>2. request[r].batch # <<>>
    BY <2>1 DEF Phone!SyncAssumption
  <2> QED
    BY <2>2
<1> QED
  BY <1>2, <1>3, <1>4

\* The point a request stands at.
LEMMA PointType ==
  ASSUME Phone!SyncAssumption, Phone!TypeOK, NEW r \in Requests,
         request[r].next >= 1, request[r].next <= Len(request[r].batch)
  PROVE  Phone!Point(r) \in Samples /\ Phone!Point(r) = request[r].batch[request[r].next]
<1>1. request[r].next \in DOMAIN request[r].batch
  BY SentTypes
<1>2. request[r].batch[request[r].next] \in Samples
  BY SentTypes, <1>1
<1> QED
  BY <1>2 DEF Phone!Point

\* A step that takes one request to w and stores no less keeps the requests sound.
LEMMA OneRequestMoves ==
  ASSUME Phone!SyncAssumption, Phone!TypeOK, RequestsAreSound,
         NEW r \in Requests, NEW w, request' = [request EXCEPT ![r] = w],
         \A p \in Samples : stored[p] > 0 => stored'[p] > 0,
         Sound(stored', w)
  PROVE  RequestsAreSound'
<1> SUFFICES ASSUME NEW s \in Requests PROVE Sound(stored', request'[s])
  BY DEF RequestsAreSound
<1>1. CASE s = r
  <2>1. request'[s] = w
    BY <1>1 DEF Phone!TypeOK
  <2> QED
    BY <2>1
<1>2. CASE s # r
  <2>1. request'[s] = request[s]
    BY <1>2 DEF Phone!TypeOK
  <2>2. Sound(stored, request[s])
    BY DEF RequestsAreSound
  <2>3. \A i \in 1..Handled(request[s]) : request[s].batch[i] \in Samples
    BY HandledPoints
  <2>4. Sound(stored', request[s])
    BY <2>2, <2>3 DEF Sound
  <2> QED
    BY <2>1, <2>4
<1> QED
  BY <1>1, <1>2

\* ... and one that is not about to insert disturbs no insert.
LEMMA NoNewInsert ==
  ASSUME Phone!TypeOK, InsertsAlone,
         NEW r \in Requests, NEW w, request' = [request EXCEPT ![r] = w], w.at # "insert",
         UNCHANGED stored, risked \subseteq risked'
  PROVE  InsertsAlone'
<1> SUFFICES ASSUME NEW p \in Samples \ risked', NEW q \in Requests, Inserting(request'[q], p)
             PROVE  stored'[p] = 0 /\ \A s \in Requests : Inserting(request'[s], p) => s = q
  BY DEF InsertsAlone
<1>1. \A s \in Requests : request'[s] = IF s = r THEN w ELSE request[s]
  BY DEF Phone!TypeOK
<1>2. \A s \in Requests : Inserting(request'[s], p) => Inserting(request[s], p)
  BY <1>1 DEF Inserting
<1>3. p \in Samples \ risked
  OBVIOUS
<1> QED
  BY <1>2, <1>3 DEF InsertsAlone

LEMMA PhoneInitInv == Phone!SyncAssumption /\ Phone!Init => PhoneInv
<1> SUFFICES ASSUME Phone!SyncAssumption, Phone!Init PROVE PhoneInv
  OBVIOUS
<1>1. \A r \in Requests : request[r] = Phone!Idle
  BY DEF Phone!Init
<1>2. Phone!Idle \in Phone!RequestRecord
  BY DEF Phone!Idle, Phone!RequestRecord
<1>3. Phone!TypeOK
  <2>1. request \in [Requests -> Phone!RequestRecord]
    BY <1>2 DEF Phone!Init
  <2>2. \A r \in Requests : request[r].accepted + request[r].duplicates <= Len(request[r].batch)
    BY <1>1 DEF Phone!Idle
  <2> QED
    BY <2>1, <2>2 DEF Phone!Init, Phone!TypeOK, Phone!Counts, Phone!SyncAssumption
<1>4. RequestsAreSound
  BY <1>1 DEF RequestsAreSound, Sound, Handled, Phone!Idle
<1>5. InsertsAlone
  BY <1>1 DEF InsertsAlone, Inserting, Phone!Idle
<1>6. Phone!KeptUntilStored /\ Phone!StoredOnce
  BY DEF Phone!Init, Phone!KeptUntilStored, Phone!StoredOnce
<1> QED
  BY <1>3, <1>4, <1>5, <1>6 DEF PhoneInv

\* A request that goes on to w, sound and well typed, and stores nothing.
LEMMA QuietMove ==
  ASSUME Phone!SyncAssumption, PhoneInv,
         NEW r \in Requests, NEW w \in Phone!RequestRecord, request' = [request EXCEPT ![r] = w],
         Sound(stored, w), w.at # "insert",
         UNCHANGED <<stored, risked, outbox, Phone!eventVars>>, syncFaults' \in 0..MaxSyncFaults
  PROVE  PhoneInv'
<1> USE DEF PhoneInv
<1>1. RequestsAreSound'
  BY OneRequestMoves
<1>2. InsertsAlone'
  BY NoNewInsert
<1>3. w.accepted + w.duplicates <= Len(w.batch)
  <2>1. w.next \in Nat /\ w.accepted \in Nat /\ w.duplicates \in Nat
    BY DEF Phone!RequestRecord
  <2>2. w.batch \in Seq(Samples)
    BY BatchTypes DEF Phone!RequestRecord
  <2>3. Len(w.batch) \in Nat
    BY <2>2
  <2> QED
    BY <2>1, <2>3 DEF Sound, Handled
<1>4. Phone!TypeOK'
  BY <1>3 DEF Phone!TypeOK, Phone!eventVars
<1>5. Phone!KeptUntilStored' /\ Phone!StoredOnce'
  BY DEF Phone!KeptUntilStored, Phone!StoredOnce, Phone!eventVars
<1> QED
  BY <1>1, <1>2, <1>4, <1>5

-----------------------------------------------------------------------------
(* The steps of a request. *)

LEMMA RecordTypes ==
  ASSUME NEW w \in Phone!RequestRecord
  PROVE  /\ w.at \in {"idle", "point", "insert", "publish"}
         /\ w.batch \in Batches \cup {<<>>}
         /\ w.next \in Nat /\ w.accepted \in Nat /\ w.duplicates \in Nat
         /\ w = [at |-> w.at, batch |-> w.batch, next |-> w.next,
                 accepted |-> w.accepted, duplicates |-> w.duplicates]
BY DEF Phone!RequestRecord

\* A point that is counted is stored, if all before it were counted.
LEMMA CountedIsStored ==
  ASSUME Phone!SyncAssumption, NEW S, NEW v \in Phone!RequestRecord, Sound(S, v),
         v.at = "point", v.next <= Len(v.batch),
         v.accepted + v.duplicates = v.next - 1 => S[v.batch[v.next]] > 0,
         NEW w, w = [v EXCEPT !.next = @ + 1, !.duplicates = @ + 1]
  PROVE  w \in Phone!RequestRecord /\ w.at = "point" /\ Sound(S, w)
<1>1. /\ v.batch \in Batches \cup {<<>>} /\ v.next \in Nat
      /\ v.accepted \in Nat /\ v.duplicates \in Nat
  BY RecordTypes
<1>2. v.batch \in Seq(Samples)
  BY <1>1, BatchTypes
<1>3. Len(v.batch) \in Nat
  BY <1>2
<1>4. w = [at |-> "point", batch |-> v.batch, next |-> v.next + 1,
           accepted |-> v.accepted, duplicates |-> v.duplicates + 1]
  BY DEF Phone!RequestRecord
<1>5. w \in Phone!RequestRecord
  BY <1>1, <1>4 DEF Phone!RequestRecord
<1>6. /\ w.at = "point" /\ w.batch = v.batch /\ w.next = v.next + 1
      /\ w.accepted = v.accepted /\ w.duplicates = v.duplicates + 1
  BY <1>4
<1>7. Handled(v) = v.next - 1 /\ Handled(w) = v.next
  BY <1>1, <1>6 DEF Handled
<1>8. ASSUME w.accepted + w.duplicates = Handled(w), NEW k \in 1..Handled(w)
      PROVE  S[w.batch[k]] > 0
  <2>1. v.accepted + v.duplicates = Handled(v)
    BY <1>1, <1>6, <1>7, <1>8
  <2>2. \A n \in 1..(v.next - 1) : S[v.batch[n]] > 0
    BY <1>7, <2>1 DEF Sound
  <2>3. k \in 1..(v.next - 1) \/ k = v.next
    BY <1>1, <1>7, <1>8
  <2> QED
    BY <1>6, <1>7, <2>1, <2>2, <2>3
<1>9. w.accepted + w.duplicates <= Handled(w)
  BY <1>1, <1>6, <1>7 DEF Sound
<1> QED
  BY <1>1, <1>3, <1>5, <1>6, <1>8, <1>9 DEF Sound

LEMMA RepeatedInv ==
  ASSUME Phone!SyncAssumption, PhoneInv, NEW r \in Requests, Phone!Repeated(r)
  PROVE  PhoneInv'
<1> DEFINE v == request[r]
           w == [v EXCEPT !.next = @ + 1, !.duplicates = @ + 1]
<1>1. v \in Phone!RequestRecord /\ Sound(stored, v)
  BY SentTypes DEF PhoneInv, RequestsAreSound
<1>2. v.at = "point" /\ v.next <= Len(v.batch)
  BY DEF Phone!Repeated, Phone!AtPoint
<1>3. request' = [request EXCEPT ![r] = w]
  BY <1>1, <1>2 DEF Phone!Repeated, Phone!Duplicate, Phone!RequestRecord
<1>4. v.accepted + v.duplicates = v.next - 1 => stored[v.batch[v.next]] > 0
  <2>1. PICK i \in 1..(v.next - 1) : v.batch[i] = Phone!Point(r)
    BY DEF Phone!Repeated, Phone!Seen
  <2> QED
    BY <1>1, <1>2, <2>1 DEF Sound, Handled, Phone!Point
<1> HIDE DEF v
<1>5. w \in Phone!RequestRecord /\ w.at = "point" /\ Sound(stored, w)
  <2> HIDE DEF w
  <2> QED
    BY <1>1, <1>2, <1>4, CountedIsStored DEF w
<1> HIDE DEF w
<1>6. UNCHANGED <<stored, risked, outbox, Phone!eventVars>> /\ syncFaults' \in 0..MaxSyncFaults
  BY DEF Phone!Repeated, PhoneInv, Phone!TypeOK
<1> QED
  BY <1>3, <1>5, <1>6, QuietMove

LEMMA KnownInv ==
  ASSUME Phone!SyncAssumption, PhoneInv, NEW r \in Requests,
         Phone!AtPoint(r), Phone!CheckGPSEventUUIDExists(Phone!Point(r)), Phone!Duplicate(r),
         UNCHANGED <<outbox, stored, risked, Phone!eventVars, syncFaults>>
  PROVE  PhoneInv'
<1> DEFINE v == request[r]
           w == [v EXCEPT !.next = @ + 1, !.duplicates = @ + 1]
<1>1. v \in Phone!RequestRecord /\ Sound(stored, v)
  BY SentTypes DEF PhoneInv, RequestsAreSound
<1>2. v.at = "point" /\ v.next <= Len(v.batch)
  BY DEF Phone!AtPoint
<1>3. request' = [request EXCEPT ![r] = w]
  BY <1>1, <1>2 DEF Phone!Duplicate, Phone!RequestRecord
<1>4. stored[v.batch[v.next]] > 0
  BY DEF Phone!CheckGPSEventUUIDExists, Phone!Point
<1> HIDE DEF v
<1>5. w \in Phone!RequestRecord /\ w.at = "point" /\ Sound(stored, w)
  <2> HIDE DEF w
  <2> QED
    BY <1>1, <1>2, <1>4, CountedIsStored DEF w
<1> HIDE DEF w
<1>6. UNCHANGED <<stored, risked, outbox, Phone!eventVars>> /\ syncFaults' \in 0..MaxSyncFaults
  BY DEF PhoneInv, Phone!TypeOK
<1> QED
  BY <1>3, <1>5, <1>6, QuietMove

\* A point that is about to be inserted alone, or is risked.
LEMMA GoInsertInv ==
  ASSUME Phone!SyncAssumption, PhoneInv, NEW r \in Requests, NEW risky \in BOOLEAN,
         Phone!AtPoint(r), Phone!GoInsert(r, risky),
         ~risky => stored[Phone!Point(r)] = 0 /\ ~Phone!BeingInserted(Phone!Point(r)),
         UNCHANGED <<outbox, stored, Phone!eventVars>>, syncFaults' \in 0..MaxSyncFaults
  PROVE  PhoneInv'
<1> DEFINE v == request[r]
           w == [v EXCEPT !.at = "insert"]
<1>1. v \in Phone!RequestRecord /\ Sound(stored, v)
  BY SentTypes DEF PhoneInv, RequestsAreSound
<1>2. v.at = "point" /\ v.next <= Len(v.batch) /\ v.next >= 1
  BY <1>1 DEF Phone!AtPoint, Sound
<1>3. request' = [request EXCEPT ![r] = w]
  BY <1>1 DEF Phone!GoInsert, Phone!Goto, Phone!RequestRecord
<1>4. Phone!Point(r) \in Samples /\ Phone!Point(r) = v.batch[v.next]
  BY <1>2, PointType DEF PhoneInv
<1>5. risked' = IF risky THEN risked \cup {Phone!Point(r)} ELSE risked
  BY DEF Phone!GoInsert
<1>6. \A s \in Requests : \A p : Inserting(request[s], p) => request[s].at = "insert" /\ Phone!Point(s) = p
  BY DEF Inserting, Phone!Point
<1> DEFINE q == Phone!Point(r)
<1>7. ~risky => stored[q] = 0 /\ \A s \in Requests : ~Inserting(request[s], q)
  BY <1>6 DEF Phone!BeingInserted
<1>8. q \in Samples /\ q = v.batch[v.next]
  BY <1>4
<1>9. request[r] = v /\ request \in [Requests -> Phone!RequestRecord]
  BY DEF PhoneInv, Phone!TypeOK
<1>10. risked' = IF risky THEN risked \cup {q} ELSE risked
  BY <1>5
<1> HIDE DEF v, q
<1>11. /\ w \in Phone!RequestRecord /\ w.at = "insert" /\ w.batch = v.batch /\ w.next = v.next
       /\ w.accepted = v.accepted /\ w.duplicates = v.duplicates
  BY <1>1 DEF Phone!RequestRecord
<1> HIDE DEF w
<1>12. Sound(stored, w)
  BY <1>1, <1>2, <1>11 DEF Sound, Handled
<1>13. RequestsAreSound'
  BY <1>3, <1>12, OneRequestMoves DEF PhoneInv
<1>14. Phone!TypeOK'
  <2>1. v.accepted + v.duplicates <= Len(v.batch)
    BY <1>9 DEF PhoneInv, Phone!TypeOK
  <2>2. risked' \in SUBSET Samples
    BY <1>8, <1>10 DEF PhoneInv, Phone!TypeOK
  <2> QED
    BY <1>3, <1>9, <1>11, <2>1, <2>2 DEF PhoneInv, Phone!TypeOK, Phone!eventVars
<1>15. InsertsAlone'
  <2> SUFFICES ASSUME NEW p \in Samples \ risked', NEW a \in Requests, Inserting(request'[a], p)
               PROVE  stored[p] = 0 /\ \A s \in Requests : Inserting(request'[s], p) => s = a
    BY DEF InsertsAlone
  <2>1. \A s \in Requests : request'[s] = IF s = r THEN w ELSE request[s]
    BY <1>3, <1>9
  <2>2. Inserting(w, p) <=> p = q
    BY <1>8, <1>11 DEF Inserting
  <2>3. p \in Samples \ risked /\ (p = q => ~risky)
    BY <1>10
  <2>4. \A s, b \in Requests : Inserting(request[s], p) /\ Inserting(request[b], p) => s = b
    BY <2>3 DEF PhoneInv, InsertsAlone
  <2>5. \A s \in Requests : Inserting(request[s], p) => stored[p] = 0
    BY <2>3 DEF PhoneInv, InsertsAlone
  <2>6. CASE p = q
    BY <1>7, <2>1, <2>2, <2>3, <2>6
  <2>7. CASE p # q
    BY <2>1, <2>2, <2>4, <2>5, <2>7
  <2> QED
    BY <2>6, <2>7
<1>16. Phone!KeptUntilStored' /\ Phone!StoredOnce'
  <2>1. risked \subseteq risked'
    BY <1>10
  <2> QED
    BY <2>1 DEF PhoneInv, Phone!KeptUntilStored, Phone!StoredOnce, Phone!eventVars
<1> QED
  BY <1>13, <1>14, <1>15, <1>16 DEF PhoneInv

LEMMA CheckPointInv ==
  ASSUME Phone!SyncAssumption, PhoneInv, NEW r \in Requests, Phone!CheckPoint(r)
  PROVE  PhoneInv'
<1>1. Phone!AtPoint(r) /\ UNCHANGED <<outbox, stored, Phone!eventVars>>
  BY DEF Phone!CheckPoint
<1>2. Sound(stored, request[r])
  BY DEF PhoneInv, RequestsAreSound
<1>3. Phone!Point(r) \in Samples
  BY <1>1, <1>2, PointType DEF PhoneInv, Phone!AtPoint, Sound
<1>4. stored[Phone!Point(r)] \in Nat
  BY <1>3 DEF PhoneInv, Phone!TypeOK, Phone!Counts
<1>5. CASE Phone!NoFault /\ Phone!CheckGPSEventUUIDExists(Phone!Point(r)) /\ Phone!Duplicate(r) /\ UNCHANGED risked
  BY <1>1, <1>5, KnownInv DEF Phone!NoFault
<1>6. CASE /\ Phone!NoFault /\ ~Phone!CheckGPSEventUUIDExists(Phone!Point(r))
           /\ Phone!GoInsert(r, Phone!BeingInserted(Phone!Point(r)))
  <2> DEFINE risky == Phone!BeingInserted(Phone!Point(r))
  <2>1. risky \in BOOLEAN
    BY DEF Phone!BeingInserted
  <2>2. stored[Phone!Point(r)] = 0
    BY <1>4, <1>6 DEF Phone!CheckGPSEventUUIDExists
  <2>3. syncFaults' \in 0..MaxSyncFaults
    BY <1>6 DEF Phone!NoFault, PhoneInv, Phone!TypeOK
  <2> QED
    BY <1>1, <1>6, <2>1, <2>2, <2>3, GoInsertInv
<1>7. CASE Phone!Fault /\ Phone!GoInsert(r, TRUE)
  <2>1. syncFaults' \in 0..MaxSyncFaults
    BY <1>7 DEF Phone!Fault, PhoneInv, Phone!TypeOK, Phone!SyncAssumption
  <2> QED
    BY <1>1, <1>7, <2>1, GoInsertInv
<1> QED
  BY <1>5, <1>6, <1>7 DEF Phone!CheckPoint

LEMMA AcceptedRecord ==
  ASSUME NEW v \in Phone!RequestRecord, NEW w, w = [v EXCEPT !.at = "publish", !.accepted = @ + 1]
  PROVE  /\ w \in Phone!RequestRecord /\ w.at = "publish" /\ w.batch = v.batch /\ w.next = v.next
         /\ w.accepted = v.accepted + 1 /\ w.duplicates = v.duplicates
<1>1. w = [at |-> "publish", batch |-> v.batch, next |-> v.next,
           accepted |-> v.accepted + 1, duplicates |-> v.duplicates]
  BY DEF Phone!RequestRecord
<1> QED
  BY <1>1, RecordTypes DEF Phone!RequestRecord

LEMMA InsertInv ==
  ASSUME Phone!SyncAssumption, PhoneInv, NEW r \in Requests, Phone!InsertGPSEvent(r)
  PROVE  PhoneInv'
<1> DEFINE v == request[r]
           w == [v EXCEPT !.at = "publish", !.accepted = @ + 1]
           q == Phone!Point(r)
<1>1. v \in Phone!RequestRecord /\ Sound(stored, v)
  BY SentTypes DEF PhoneInv, RequestsAreSound
<1>2. v.at = "insert" /\ v.next <= Len(v.batch) /\ v.next >= 1
  BY <1>1 DEF Phone!InsertGPSEvent, Sound
<1>3. request' = [request EXCEPT ![r] = w]
  BY <1>1 DEF Phone!InsertGPSEvent, Phone!RequestRecord
<1>4. q \in Samples /\ q = v.batch[v.next]
  BY <1>2, PointType DEF PhoneInv
<1>5. stored' = [stored EXCEPT ![q] = Phone!OneMore(@)] /\ UNCHANGED <<outbox, risked, Phone!eventVars, syncFaults>>
  BY DEF Phone!InsertGPSEvent
<1>6. Len(v.batch) \in Nat /\ \A i \in 1..Handled(v) : v.batch[i] \in Samples
  BY SentTypes, HandledPoints DEF PhoneInv
<1>7. request[r] = v /\ request \in [Requests -> Phone!RequestRecord]
  BY DEF PhoneInv, Phone!TypeOK
<1> HIDE DEF v, q
<1>8. /\ w \in Phone!RequestRecord /\ w.at = "publish" /\ w.batch = v.batch /\ w.next = v.next
      /\ w.accepted = v.accepted + 1 /\ w.duplicates = v.duplicates
  <2> HIDE DEF w
  <2> QED
    BY <1>1, AcceptedRecord DEF w
<1> HIDE DEF w
<1>9. v.next \in Nat /\ v.accepted \in Nat /\ v.duplicates \in Nat
  BY <1>1, RecordTypes
<1>10. stored \in Phone!Counts
  BY DEF PhoneInv, Phone!TypeOK
<1>11. stored'[q] = Phone!OneMore(stored[q]) /\ \A p \in Samples \ {q} : stored'[p] = stored[p]
  BY <1>4, <1>5, <1>10 DEF Phone!Counts
<1>12. stored[q] \in 0..2 /\ stored'[q] > 0 /\ stored'[q] \in 0..2
  BY <1>4, <1>10, <1>11 DEF Phone!Counts, Phone!OneMore
<1>13. \A p \in Samples : stored[p] > 0 => stored'[p] > 0
  BY <1>11, <1>12
<1>14. Handled(v) = v.next - 1 /\ Handled(w) = v.next
  BY <1>2, <1>8 DEF Handled
<1>15. Sound(stored', w)
  <2>1. ASSUME w.accepted + w.duplicates = Handled(w), NEW k \in 1..Handled(w)
        PROVE  stored'[w.batch[k]] > 0
    <3>1. v.accepted + v.duplicates = Handled(v)
      BY <1>8, <1>9, <1>14, <2>1
    <3>2. \A n \in 1..(v.next - 1) : v.batch[n] \in Samples /\ stored[v.batch[n]] > 0
      BY <1>1, <1>6, <1>14, <3>1 DEF Sound
    <3>3. k \in 1..(v.next - 1) \/ k = v.next
      BY <1>9, <1>14, <2>1
    <3> QED
      BY <1>4, <1>8, <1>12, <1>13, <3>2, <3>3
  <2>2. w.accepted + w.duplicates <= Handled(w)
    BY <1>1, <1>8, <1>9, <1>14 DEF Sound
  <2> QED
    BY <1>1, <1>2, <1>6, <1>8, <1>9, <2>1, <2>2 DEF Sound
<1>16. RequestsAreSound'
  BY <1>3, <1>13, <1>15, OneRequestMoves DEF PhoneInv
<1>17. Phone!TypeOK'
  <2>1. stored' \in Phone!Counts
    BY <1>5, <1>10, <1>12 DEF Phone!Counts, Phone!OneMore
  <2>2. w.accepted + w.duplicates <= Len(w.batch)
    BY <1>2, <1>6, <1>8, <1>9, <1>14, <1>15 DEF Sound
  <2> QED
    BY <1>3, <1>5, <1>7, <1>8, <2>1, <2>2 DEF PhoneInv, Phone!TypeOK, Phone!eventVars
<1>18. InsertsAlone' /\ Phone!StoredOnce'
  <2>1. \A s \in Requests : request'[s] = IF s = r THEN w ELSE request[s]
    BY <1>3, <1>7
  <2>2. ~\E p : Inserting(w, p)
    BY <1>8 DEF Inserting
  <2>3. Inserting(request[r], q)
    BY <1>2, <1>4, <1>7 DEF Inserting
  <2>4. q \notin risked => stored[q] = 0 /\ \A s \in Requests : Inserting(request[s], q) => s = r
    BY <1>4, <2>3 DEF PhoneInv, InsertsAlone
  <2>5. \A p \in Samples \ risked, s \in Requests : Inserting(request'[s], p) =>
          p # q /\ s # r /\ Inserting(request[s], p)
    BY <2>1, <2>2, <2>4
  <2>6. InsertsAlone'
    <3> SUFFICES ASSUME NEW p \in Samples \ risked, NEW a \in Requests, Inserting(request'[a], p)
                 PROVE  stored'[p] = 0 /\ \A s \in Requests : Inserting(request'[s], p) => s = a
      BY <1>5 DEF InsertsAlone
    <3> QED
      BY <1>11, <2>5 DEF PhoneInv, InsertsAlone
  <2>7. Phone!StoredOnce'
    <3>1. q \notin risked => stored'[q] = 1
      BY <1>11, <2>4 DEF Phone!OneMore
    <3> QED
      BY <1>5, <1>11, <3>1 DEF PhoneInv, Phone!StoredOnce
  <2> QED
    BY <2>6, <2>7
<1>19. Phone!KeptUntilStored'
  BY <1>5, <1>13 DEF PhoneInv, Phone!KeptUntilStored, Phone!eventVars
<1> QED
  BY <1>16, <1>17, <1>18, <1>19 DEF PhoneInv

LEMMA NextRecord ==
  ASSUME NEW v \in Phone!RequestRecord, NEW w, w = [v EXCEPT !.at = "point", !.next = @ + 1]
  PROVE  /\ w \in Phone!RequestRecord /\ w.at = "point" /\ w.batch = v.batch /\ w.next = v.next + 1
         /\ w.accepted = v.accepted /\ w.duplicates = v.duplicates
<1>1. w = [at |-> "point", batch |-> v.batch, next |-> v.next + 1,
           accepted |-> v.accepted, duplicates |-> v.duplicates]
  BY DEF Phone!RequestRecord
<1> QED
  BY <1>1, RecordTypes DEF Phone!RequestRecord

\* Counting nothing and going on to the next point: after a publish, and after
\* an insert that failed.
LEMMA NextPointInv ==
  ASSUME Phone!SyncAssumption, PhoneInv, NEW r \in Requests, Phone!NextPoint(r),
         request[r].at \in {"insert", "publish"},
         UNCHANGED <<outbox, stored, risked, Phone!eventVars>>, syncFaults' \in 0..MaxSyncFaults
  PROVE  PhoneInv'
<1> DEFINE v == request[r]
           w == [v EXCEPT !.at = "point", !.next = @ + 1]
<1>1. v \in Phone!RequestRecord /\ Sound(stored, v)
  BY SentTypes DEF PhoneInv, RequestsAreSound
<1>2. v.at \in {"insert", "publish"} /\ Len(v.batch) \in Nat
  BY SentTypes DEF PhoneInv
<1>3. request' = [request EXCEPT ![r] = w]
  BY <1>1 DEF Phone!NextPoint, Phone!RequestRecord
<1> HIDE DEF v
<1>4. /\ w \in Phone!RequestRecord /\ w.at = "point" /\ w.batch = v.batch /\ w.next = v.next + 1
      /\ w.accepted = v.accepted /\ w.duplicates = v.duplicates
  <2> HIDE DEF w
  <2> QED
    BY <1>1, NextRecord DEF w
<1> HIDE DEF w
<1>5. v.next \in Nat /\ v.accepted \in Nat /\ v.duplicates \in Nat
  BY <1>1, RecordTypes
<1>6. Handled(w) = v.next /\ Handled(v) \in {v.next, v.next - 1}
      /\ (v.at = "publish" => Handled(v) = v.next) /\ (v.at = "insert" => Handled(v) = v.next - 1)
  BY <1>2, <1>4, <1>5 DEF Handled
<1>7. ASSUME w.accepted + w.duplicates = Handled(w), NEW k \in 1..Handled(w)
      PROVE  stored[w.batch[k]] > 0
  <2>1. v.accepted + v.duplicates <= Handled(v)
    BY <1>1 DEF Sound
  <2>2. Handled(v) = v.next
    BY <1>4, <1>5, <1>6, <1>7, <2>1
  <2> QED
    BY <1>1, <1>4, <1>6, <1>7, <2>2 DEF Sound
<1>8. Sound(stored, w)
  <2>1. w.accepted + w.duplicates <= Handled(w)
    BY <1>1, <1>4, <1>5, <1>6 DEF Sound
  <2> QED
    BY <1>1, <1>2, <1>4, <1>5, <1>7, <2>1 DEF Sound
<1> QED
  BY <1>3, <1>4, <1>8, QuietMove

LEMMA InsertFailsInv ==
  ASSUME Phone!SyncAssumption, PhoneInv, NEW r \in Requests, Phone!InsertFails(r)
  PROVE  PhoneInv'
<1>1. syncFaults' \in 0..MaxSyncFaults
  BY DEF Phone!InsertFails, Phone!Fault, Phone!NoFault, PhoneInv, Phone!TypeOK, Phone!SyncAssumption
<1> QED
  BY <1>1, NextPointInv DEF Phone!InsertFails, Phone!LeaveOut

LEMMA PublishInv ==
  ASSUME Phone!SyncAssumption, PhoneInv, NEW r \in Requests, Phone!Publish(r)
  PROVE  PhoneInv'
BY NextPointInv DEF Phone!Publish, PhoneInv, Phone!TypeOK

LEMMA IdleIsSound == Phone!Idle \in Phone!RequestRecord /\ Sound(stored, Phone!Idle) /\ Phone!Idle.at # "insert"
BY DEF Phone!Idle, Phone!RequestRecord, Sound, Handled

LEMMA AbandonInv ==
  ASSUME Phone!SyncAssumption, PhoneInv, NEW r \in Requests, Phone!Abandon(r)
  PROVE  PhoneInv'
<1>1. syncFaults' \in 0..MaxSyncFaults
  BY DEF Phone!Abandon, Phone!Fault, PhoneInv, Phone!TypeOK, Phone!SyncAssumption
<1> QED
  BY <1>1, IdleIsSound, QuietMove DEF Phone!Abandon

LEMMA FirstRecord ==
  ASSUME NEW b \in Batches, NEW w, w = [Phone!Idle EXCEPT !.at = "point", !.batch = b]
  PROVE  w = [at |-> "point", batch |-> b, next |-> 1, accepted |-> 0, duplicates |-> 0]
BY DEF Phone!Idle

LEMMA SendBatchInv ==
  ASSUME Phone!SyncAssumption, PhoneInv, NEW r \in Requests, NEW b \in Batches, Phone!SendBatch(r, b)
  PROVE  PhoneInv'
<1> DEFINE w == [Phone!Idle EXCEPT !.at = "point", !.batch = b]
<1>2. request' = [request EXCEPT ![r] = w]
  BY DEF Phone!SendBatch
<1> HIDE DEF w
<1>1. w = [at |-> "point", batch |-> b, next |-> 1, accepted |-> 0, duplicates |-> 0]
  BY FirstRecord DEF w
<1>3. w \in Phone!RequestRecord /\ w.at # "insert"
  BY <1>1 DEF Phone!RequestRecord
<1>4. Sound(stored, w)
  <2>1. b \in Seq(Samples) /\ Len(b) \in Nat
    BY BatchTypes
  <2> QED
    BY <1>1, <2>1 DEF Sound, Handled
<1> QED
  BY <1>2, <1>3, <1>4, QuietMove DEF Phone!SendBatch, PhoneInv, Phone!TypeOK

\* The phone drops a batch when the counts cover it all: then all of it is stored.
LEMMA RespondInv ==
  ASSUME Phone!SyncAssumption, PhoneInv, NEW r \in Requests, Phone!Respond(r)
  PROVE  PhoneInv'
<1>1. /\ request' = [request EXCEPT ![r] = Phone!Idle]
      /\ UNCHANGED <<stored, risked, Phone!eventVars>>
      /\ \/ outbox' = outbox
         \/ Phone!AccountsForAll(r) /\ outbox' = outbox \ Phone!PointsOf(request[r].batch)
      /\ syncFaults' \in 0..MaxSyncFaults
  BY DEF Phone!Respond, Phone!NoFault, Phone!Fault, PhoneInv, Phone!TypeOK, Phone!SyncAssumption
<1>2. Sound(stored, request[r])
  BY DEF PhoneInv, RequestsAreSound
<1>3. request[r].at = "point" /\ Handled(request[r]) = request[r].next - 1
  BY DEF Phone!Respond, Handled
<1>4. request[r].next - 1 = Len(request[r].batch)
  <2>1. request[r].next \in Nat /\ Len(request[r].batch) \in Nat
    BY SentTypes DEF PhoneInv
  <2>2. request[r].next > Len(request[r].batch) /\ request[r].next <= Len(request[r].batch) + 1
    BY <1>2 DEF Phone!Respond, Sound
  <2> QED
    BY <2>1, <2>2
<1>5. Phone!AccountsForAll(r) => \A p \in Phone!PointsOf(request[r].batch) : stored[p] > 0
  BY <1>2, <1>3, <1>4, SentTypes DEF Phone!AccountsForAll, Phone!PointsOf, Sound, PhoneInv
<1>6. RequestsAreSound'
  BY <1>1, IdleIsSound, OneRequestMoves DEF PhoneInv
<1>7. InsertsAlone'
  BY <1>1, IdleIsSound, NoNewInsert DEF PhoneInv
<1>8. Phone!TypeOK'
  <2>1. Phone!Idle.accepted + Phone!Idle.duplicates <= Len(Phone!Idle.batch)
    BY DEF Phone!Idle
  <2> QED
    BY <1>1, <2>1, IdleIsSound DEF PhoneInv, Phone!TypeOK, Phone!eventVars
<1>9. Phone!KeptUntilStored' /\ Phone!StoredOnce'
  BY <1>1, <1>5 DEF PhoneInv, Phone!KeptUntilStored, Phone!StoredOnce, Phone!eventVars
<1> QED
  BY <1>6, <1>7, <1>8, <1>9 DEF PhoneInv

LEMMA EventInv ==
  ASSUME Phone!SyncAssumption, PhoneInv, NEW e \in Events, Phone!CreateEvent(e) \/ Phone!CreateEventFails(e)
  PROVE  PhoneInv'
<1>1. UNCHANGED Phone!pointVars /\ syncFaults' \in 0..MaxSyncFaults
  BY DEF Phone!CreateEvent, Phone!CreateEventFails, Phone!Fault, Phone!NoFault, PhoneInv, Phone!TypeOK, Phone!SyncAssumption
<1>2. /\ unsent' \in SUBSET Events /\ recorded' \in SUBSET Events
      /\ answer' \in [Events -> {0, 201, 500}]
      /\ Events \subseteq unsent' \cup recorded'
  <2>1. CASE Phone!CreateEvent(e)
    BY <2>1 DEF Phone!CreateEvent, PhoneInv, Phone!TypeOK, Phone!KeptUntilStored
  <2>2. CASE Phone!CreateEventFails(e)
    BY <2>2 DEF Phone!CreateEventFails, PhoneInv, Phone!TypeOK, Phone!KeptUntilStored
  <2> QED
    BY <2>1, <2>2
<1>3. Phone!TypeOK'
  BY <1>1, <1>2 DEF PhoneInv, Phone!TypeOK, Phone!pointVars
<1>4. RequestsAreSound' /\ InsertsAlone'
  BY <1>1 DEF PhoneInv, RequestsAreSound, InsertsAlone, Phone!pointVars
<1>5. Phone!KeptUntilStored' /\ Phone!StoredOnce'
  BY <1>1, <1>2 DEF PhoneInv, Phone!KeptUntilStored, Phone!StoredOnce, Phone!pointVars
<1> QED
  BY <1>3, <1>4, <1>5 DEF PhoneInv

LEMMA PhoneNextInv ==
  ASSUME Phone!SyncAssumption, PhoneInv, [Phone!Next]_(Phone!vars)
  PROVE  PhoneInv'
<1>1. CASE UNCHANGED Phone!vars
  BY <1>1 DEF Phone!vars, Phone!pointVars, Phone!eventVars, PhoneInv, Phone!TypeOK, RequestsAreSound, InsertsAlone,
              Phone!KeptUntilStored, Phone!StoredOnce
<1>2. ASSUME NEW r \in Requests, Phone!Batch(r) \/ Phone!Abandon(r)
      PROVE  PhoneInv'
  BY <1>2, RepeatedInv, CheckPointInv, InsertInv, InsertFailsInv, PublishInv, RespondInv,
     AbandonInv DEF Phone!Batch
<1>3. ASSUME NEW r \in Requests, NEW b \in Batches, Phone!SendBatch(r, b)
      PROVE  PhoneInv'
  BY <1>3, SendBatchInv
<1>4. ASSUME NEW e \in Events, Phone!CreateEvent(e) \/ Phone!CreateEventFails(e)
      PROVE  PhoneInv'
  BY <1>4, EventInv
<1> QED
  BY <1>1, <1>2, <1>3, <1>4 DEF Phone!Next

LEMMA PhoneInvariant == Phone!SyncAssumption => (Phone!Spec => []PhoneInv)
<1> SUFFICES ASSUME Phone!SyncAssumption PROVE Phone!Spec => []PhoneInv
  OBVIOUS
<1>1. Phone!Init => PhoneInv
  BY PhoneInitInv
<1>2. PhoneInv /\ [Phone!Next]_(Phone!vars) => PhoneInv'
  BY PhoneNextInv
<1> QED
  BY <1>1, <1>2, PTL DEF Phone!Spec

\* Every variable of the phone, of the API and of the maps keeps its type.
THEOREM PositionTypes == PositionsAssumption => (PositionsSpec => []TypesOK)
<1> SUFFICES ASSUME PositionsAssumption PROVE PositionsSpec => []TypesOK
  OBVIOUS
<1>1. Spec => []MapInv
  BY MapInvariant DEF PositionsAssumption
<1>2. Phone!Spec => []PhoneInv
  BY PhoneInvariant DEF PositionsAssumption
<1>3. MapInv /\ PhoneInv => TypesOK
  BY DEF MapInv, PhoneInv, TypesOK
<1> QED
  BY <1>1, <1>2, <1>3, PTL DEF PositionsSpec

\* What the phone drops is stored, for any batches, faults and requests side by side.
THEOREM DroppedIsStored == Phone!SyncAssumption => (Phone!Spec => []KeptUntilStored)
<1> SUFFICES ASSUME Phone!SyncAssumption PROVE Phone!Spec => []KeptUntilStored
  OBVIOUS
<1>1. PhoneInv => KeptUntilStored
  BY DEF PhoneInv, KeptUntilStored
<1> QED
  BY <1>1, PhoneInvariant, PTL

\* A point is stored twice only when its check failed, or was overtaken by
\* another request between its check and its insert.
THEOREM PointsAreStoredOnce == Phone!SyncAssumption => (Phone!Spec => []StoredOnce)
<1> SUFFICES ASSUME Phone!SyncAssumption PROVE Phone!Spec => []StoredOnce
  OBVIOUS
<1>1. PhoneInv => StoredOnce
  BY DEF PhoneInv, StoredOnce
<1> QED
  BY <1>1, PhoneInvariant, PTL
===============================================================================
