--------------------------- MODULE DeliveryProofs ---------------------------
(***************************************************************************)
(* Proofs about Delivery.  The invariant joins the types, the place of     *)
(* each batch and its server: a request may only be moved because no other *)
(* request holds one of its batches, and the servers of a group are known  *)
(* because all its batches come from the storage.                          *)
(***************************************************************************)
EXTENDS Delivery, WellFoundedInduction, SequenceTheorems, TLAPS

DeliveryInv == DeliveryTypeOK /\ OnePlace /\ RightServer

\* A set of batches that is not empty has a first one.
LEMMA FirstInSet ==
  ASSUME NEW B, B \subseteq Nat, B # {}
  PROVE  First(B) \in B
<1>1. PICK b \in B : \A y \in B : ~ (<<y, b>> \in OpToRel(<, Nat))
  BY WFMin, NatLessThanWellFounded
<1>2. \A c \in B : ~ (c < b)
  BY <1>1 DEF OpToRel
<1>3. \A c \in B : b \in Nat /\ c \in Nat /\ b <= c
  BY <1>2
<1> QED BY <1>1, <1>3 DEF First

\* Each group of sendData holds the stored batches of one server, all of them,
\* and goes through a sender of that server.
LEMMA Groups ==
  ASSUME DeliveryTypeOK, storage \subseteq 1 .. Len(accepted)
  PROVE  /\ \A s \in GroupedBySender :
              /\ s \in Requests /\ s.state = "connecting"
              /\ s.batches = StoredFor(s.via.name)
         /\ \A b \in storage : \E s \in GroupedBySender : b \in s.batches
<1>1. \A b \in storage : b \in Nat /\ accepted[b] \in Senders
  BY DEF DeliveryTypeOK
<1>2. ASSUME NEW z \in {accepted[b].name : b \in storage}
      PROVE  /\ StoredFor(z) \subseteq Batches
             /\ accepted[First(StoredFor(z))] \in Senders
             /\ accepted[First(StoredFor(z))].name = z
  <2>1. StoredFor(z) \subseteq storage /\ StoredFor(z) # {}
    BY DEF StoredFor
  <2>2. First(StoredFor(z)) \in StoredFor(z)
    BY <1>1, <2>1, FirstInSet
  <2> QED BY <1>1, <2>1, <2>2 DEF StoredFor, DeliveryTypeOK
<1>3. ASSUME NEW s \in GroupedBySender
      PROVE  s \in Requests /\ s.state = "connecting" /\ s.batches = StoredFor(s.via.name)
  <2>1. PICK z \in {accepted[b].name : b \in storage} :
          s = [via |-> accepted[First(StoredFor(z))], batches |-> StoredFor(z),
               state |-> "connecting"]
    BY DEF GroupedBySender
  <2> QED BY <1>2, <2>1 DEF Requests
<1>4. ASSUME NEW b \in storage PROVE \E s \in GroupedBySender : b \in s.batches
  <2> DEFINE z == accepted[b].name
             s == [via |-> accepted[First(StoredFor(z))], batches |-> StoredFor(z),
                   state |-> "connecting"]
  <2>1. s \in GroupedBySender
    BY DEF GroupedBySender
  <2>2. b \in s.batches
    BY DEF StoredFor
  <2> QED BY <2>1, <2>2
<1> QED BY <1>3, <1>4

\* Nothing has been pushed at the start.
LEMMA InitDelivery == DeliveryInit => DeliveryInv
<1> SUFFICES ASSUME DeliveryInit PROVE DeliveryInv
  OBVIOUS
<1> USE DEF DeliveryInit
<1>1. DeliveryTypeOK
  <2>1. NoServers \in [servers : SUBSET Zabbixes, gen : Generations]
    BY DeliveryAssumption DEF NoServers
  <2> QED BY <2>1, DeliveryAssumption, EmptySeq DEF DeliveryTypeOK
<1>2. InConnecting = {} /\ OnWire = {} /\ Received = {}
  BY DEF InConnecting, OnWire, Received
<1>3. OnePlace
  BY <1>2, EmptySeq DEF OnePlace
<1>4. RightServer
  BY EmptySeq DEF RightServer
<1> QED BY <1>1, <1>3, <1>4 DEF DeliveryInv

\* A batch that is pushed gets a number no place holds.
LEMMA AcceptInv ==
  ASSUME DeliveryInv, NEW z \in Zabbixes, Accept(z)
  PROVE  DeliveryInv'
<1> DEFINE n == Len(accepted) + 1
           sender == [name |-> z, gen |-> serving.gen]
<1> USE DEF DeliveryInv, Accept
<1>1. sender \in Senders
  BY DEF DeliveryTypeOK, Senders
<1>2. /\ accepted' \in Seq(Senders) /\ Len(accepted') = n
      /\ \A b \in 1 .. Len(accepted) : accepted'[b] = accepted[b]
      /\ accepted'[n] = sender
  BY <1>1, AppendProperties DEF DeliveryTypeOK
<1>3. n \in Batches /\ Len(accepted) \in Nat
  BY DeliveryAssumption, LenProperties DEF DeliveryTypeOK, Batches
<1>4. DeliveryTypeOK'
  <2>1. n <= MaxBatches
    BY <1>3 DEF Batches
  <2>2. storage' \subseteq Batches
    BY <1>3 DEF DeliveryTypeOK
  <2> QED BY <1>2, <2>1, <2>2 DEF DeliveryTypeOK
<1>5. n \notin storage \cup InConnecting \cup OnWire \cup Received \cup lost
  BY <1>3 DEF OnePlace
<1>6. InConnecting' = InConnecting /\ OnWire' = OnWire /\ Received' = Received
  BY DEF InConnecting, OnWire, Received
<1>7. 1 .. Len(accepted') = (1 .. Len(accepted)) \cup {n}
  BY <1>2, <1>3
<1>8. OnePlace'
  BY <1>5, <1>6, <1>7 DEF OnePlace
<1>9. RightServer'
  <2>1. \A s \in sends : s.batches \subseteq 1 .. Len(accepted)
    <3> SUFFICES ASSUME NEW s \in sends, NEW b \in s.batches PROVE b \in 1 .. Len(accepted)
      OBVIOUS
    <3>1. CASE s.state = "connecting"
      <4>1. b \in InConnecting
        BY <3>1 DEF InConnecting
      <4> QED BY <4>1 DEF OnePlace
    <3>2. CASE s.state = "waiting"
      BY <3>2 DEF OnePlace
    <3> QED BY <3>1, <3>2 DEF DeliveryTypeOK, Requests
  <2>2. \A m \in wire : m.batches \subseteq 1 .. Len(accepted)
    BY DEF OnePlace, OnWire
  <2>3. received[n] = {}
    BY <1>3, <1>5 DEF Received
  <2>4. \A b \in 1 .. Len(accepted) : received[b] \subseteq {accepted'[b].name}
    BY <1>2 DEF RightServer
  <2>5. \A s \in sends : \A b \in s.batches : accepted'[b].name = s.via.name
    BY <1>2, <2>1 DEF RightServer
  <2>6. \A m \in wire : \A b \in m.batches : accepted'[b].name = m.to.name
    BY <1>2, <2>2 DEF RightServer
  <2> QED BY <1>7, <2>3, <2>4, <2>5, <2>6 DEF RightServer
<1> QED BY <1>4, <1>8, <1>9

\* popAll empties the storage and each of its batches goes into one new request.
LEMMA SendDataInv ==
  ASSUME DeliveryInv, NEW z \in Zabbixes, SendData(z)
  PROVE  DeliveryInv'
<1> USE DEF DeliveryInv, SendData
<1> DEFINE G == GroupedBySender
<1>1. storage \subseteq 1 .. Len(accepted)
  BY DEF OnePlace
<1>2. /\ \A s \in G : /\ s \in Requests /\ s.state = "connecting"
                      /\ s.batches = StoredFor(s.via.name)
      /\ \A b \in storage : \E s \in G : b \in s.batches
  BY <1>1, Groups
<1>3. \A s \in G : s.batches \subseteq storage
  BY <1>2 DEF StoredFor
<1>4. sends' = sends \cup G
  OBVIOUS
<1> HIDE DEF G
<1>5. DeliveryTypeOK'
  BY <1>2, <1>4 DEF DeliveryTypeOK
<1>6. InConnecting' = InConnecting \cup storage
  BY <1>2, <1>3, <1>4 DEF InConnecting
<1>7. OnWire' = OnWire /\ Received' = Received
  BY DEF OnWire, Received
<1>8. \A s \in sends : s.batches \cap storage = {}
  <2> SUFFICES ASSUME NEW s \in sends, NEW b \in s.batches PROVE b \notin storage
    OBVIOUS
  <2>1. CASE s.state = "connecting"
    <3>1. b \in InConnecting
      BY <2>1 DEF InConnecting
    <3> QED BY <3>1 DEF OnePlace
  <2>2. CASE s.state = "waiting"
    BY <2>2 DEF OnePlace
  <2> QED BY <2>1, <2>2 DEF DeliveryTypeOK, Requests
<1>9. \A s, r \in G : s.batches \cap r.batches # {} => s = r
  <2> SUFFICES ASSUME NEW s \in G, NEW r \in G, NEW b \in s.batches, b \in r.batches
               PROVE  s = r
    OBVIOUS
  <2>1. s.via.name = accepted[b].name /\ r.via.name = accepted[b].name
    BY <1>2 DEF StoredFor
  <2> DEFINE y == accepted[b].name
  <2>2. ASSUME NEW g \in G, g.via.name = y
        PROVE  g = [via |-> accepted[First(StoredFor(y))], batches |-> StoredFor(y),
                    state |-> "connecting"]
    <3>1. PICK x \in {accepted[c].name : c \in storage} :
            g = [via |-> accepted[First(StoredFor(x))], batches |-> StoredFor(x),
                 state |-> "connecting"]
      BY DEF G, GroupedBySender
    <3>2. StoredFor(x) = StoredFor(y)
      BY <1>2, <2>2, <3>1
    <3> QED BY <3>1, <3>2
  <2> QED BY <2>1, <2>2
<1>10. OnePlace'
  <2>1. \A s, r \in sends' : s.batches \cap r.batches # {} => s = r
    <3> SUFFICES ASSUME NEW s \in sends', NEW r \in sends', s.batches \cap r.batches # {}
                 PROVE  s = r
      OBVIOUS
    <3>1. CASE s \in sends /\ r \in sends
      BY <3>1 DEF OnePlace
    <3>2. CASE s \in G /\ r \in G
      BY <1>9, <3>2
    <3> QED BY <1>3, <1>4, <1>8, <3>1, <3>2
  <2>2. \A s \in sends' : s.state = "waiting" =>
          s.batches \subseteq OnWire' \cup Received' \cup lost'
    BY <1>2, <1>4, <1>7 DEF OnePlace
  <2>3. \A m, n \in wire' : m.batches \cap n.batches # {} => m = n
    BY DEF OnePlace
  <2> QED BY <1>6, <1>7, <2>1, <2>2, <2>3 DEF OnePlace
<1>11. RightServer'
  BY <1>2, <1>4 DEF RightServer, StoredFor
<1> QED BY <1>5, <1>10, <1>11

\* A request that is written moves its batches from the process to the wire.
LEMMA ConnectedInv ==
  ASSUME DeliveryInv, NEW s \in sends, Connected(s)
  PROVE  DeliveryInv'
<1> USE DEF DeliveryInv, Connected
<1> DEFINE w == [s EXCEPT !.state = "waiting"]
           m == [to |-> s.via, batches |-> s.batches]
<1>1. /\ w \in Requests /\ w.state = "waiting" /\ w.via = s.via /\ w.batches = s.batches
      /\ m \in Messages
  BY DEF DeliveryTypeOK, Requests, Messages
<1>2. sends' = (sends \ {s}) \cup {w} /\ wire' = wire \cup {m}
  OBVIOUS
<1> HIDE DEF w
<1>3. DeliveryTypeOK'
  BY <1>1, <1>2 DEF DeliveryTypeOK
<1>4. InConnecting' = InConnecting \ s.batches
  BY <1>1, <1>2 DEF InConnecting, OnePlace
<1>5. s.batches \subseteq InConnecting
  BY DEF InConnecting
<1>6. OnWire' = OnWire \cup s.batches /\ Received' = Received
  BY <1>1, <1>2 DEF OnWire, Received
<1>7. OnePlace'
  <2>1. \A q, r \in sends' : q.batches \cap r.batches # {} => q = r
    BY <1>1, <1>2 DEF OnePlace
  <2>2. \A q \in sends' : q.state = "waiting" =>
          q.batches \subseteq OnWire' \cup Received' \cup lost'
    BY <1>1, <1>2, <1>6 DEF OnePlace
  <2>3. \A n \in wire : n.batches \cap m.batches = {}
    BY <1>5 DEF OnWire, OnePlace
  <2>4. \A n, k \in wire' : n.batches \cap k.batches # {} => n = k
    BY <1>2, <2>3 DEF OnePlace
  <2> QED BY <1>4, <1>5, <1>6, <2>1, <2>2, <2>4 DEF OnePlace
<1>8. RightServer'
  BY <1>1, <1>2 DEF RightServer
<1> QED BY <1>3, <1>7, <1>8

\* A response takes only its own request away, and that one was written.
LEMMA SendDoneInv ==
  ASSUME DeliveryInv, NEW s \in sends, SendDone(s)
  PROVE  DeliveryInv'
<1> USE DEF DeliveryInv, SendDone
<1>1. DeliveryTypeOK'
  BY DEF DeliveryTypeOK
<1>2. InConnecting' = InConnecting /\ OnWire' = OnWire /\ Received' = Received
  BY DEF InConnecting, OnWire, Received
<1>3. OnePlace'
  BY <1>2 DEF OnePlace
<1>4. RightServer'
  BY DEF RightServer
<1> QED BY <1>1, <1>3, <1>4

\* A restart loses what is in the process and nothing else.
LEMMA RestartInv ==
  ASSUME DeliveryInv, NEW B, B \subseteq InConnecting, RestartLosing(B)
  PROVE  DeliveryInv'
<1> USE DEF DeliveryInv, RestartLosing
<1>1. NoServers \in [servers : SUBSET Zabbixes, gen : Generations]
  BY DeliveryAssumption DEF NoServers
<1>2. InConnecting \subseteq Batches
  BY DEF InConnecting, DeliveryTypeOK, Requests
<1>3. DeliveryTypeOK'
  BY <1>1, <1>2 DEF DeliveryTypeOK
<1>4. InConnecting' = {} /\ OnWire' = OnWire /\ Received' = Received
  BY DEF InConnecting, OnWire, Received
<1>5. lost' = lost \cup storage \cup InConnecting
  OBVIOUS
<1>6. OnePlace'
  BY <1>4, <1>5 DEF OnePlace
<1>7. RightServer'
  BY DEF RightServer
<1> QED BY <1>3, <1>6, <1>7

\* A failed request loses its batches when it was not written.
LEMMA SendFailInv ==
  ASSUME DeliveryInv, NEW s \in sends, SendFail(s)
  PROVE  DeliveryInv'
<1> DEFINE B == IF s.state = "connecting" THEN s.batches ELSE {}
<1>1. B \subseteq InConnecting
  BY DEF InConnecting
<1>2. CASE CrashOnRejection
  <2>1. RestartLosing(B)
    BY <1>2 DEF SendFail
  <2> HIDE DEF B
  <2> QED BY <1>1, <2>1, RestartInv
<1>3. CASE ~ CrashOnRejection
  <2>1. /\ sends' = sends \ {s} /\ lost' = lost \cup B
        /\ UNCHANGED <<serving, accepted, storage, wire, received>>
    BY <1>3 DEF SendFail
  <2>2. DeliveryTypeOK'
    <3>1. s.batches \subseteq Batches
      BY DEF DeliveryInv, DeliveryTypeOK, Requests
    <3> QED BY <2>1, <3>1 DEF DeliveryInv, DeliveryTypeOK
  <2>3. InConnecting' = InConnecting \ B
    BY <2>1 DEF InConnecting, DeliveryInv, OnePlace
  <2>4. OnWire' = OnWire /\ Received' = Received
    BY <2>1 DEF OnWire, Received
  <2>5. OnePlace'
    <3> HIDE DEF B
    <3>1. \A r \in sends' : r.state = "waiting" =>
            r.batches \subseteq OnWire' \cup Received' \cup lost'
      BY <2>1, <2>4 DEF DeliveryInv, OnePlace
    <3> QED BY <1>1, <2>1, <2>3, <2>4, <3>1 DEF DeliveryInv, OnePlace
  <2>6. RightServer'
    BY <2>1 DEF DeliveryInv, RightServer
  <2> QED BY <2>2, <2>5, <2>6 DEF DeliveryInv
<1> QED BY <1>2, <1>3

\* A server reads a request of its own; its batches leave the wire.
LEMMA ReceiveInv ==
  ASSUME DeliveryInv, NEW m \in wire, Receive(m)
  PROVE  DeliveryInv'
<1> USE DEF DeliveryInv, Receive
<1>1. m \in Messages /\ m.batches \subseteq Batches /\ m.to.name \in Zabbixes
  BY DEF DeliveryTypeOK, Messages, Senders
<1>2. DeliveryTypeOK'
  BY <1>1 DEF DeliveryTypeOK
<1>3. InConnecting' = InConnecting /\ OnWire' = OnWire \ m.batches
  BY DEF InConnecting, OnWire, OnePlace
<1>4. Received' = Received \cup m.batches
  BY <1>1 DEF Received
<1>5. m.batches \subseteq OnWire
  BY DEF OnWire
<1>6. OnePlace'
  <2>1. \A r \in sends' : r.state = "waiting" =>
          r.batches \subseteq OnWire' \cup Received' \cup lost'
    BY <1>3, <1>4 DEF OnePlace
  <2> QED BY <1>3, <1>4, <1>5, <2>1 DEF OnePlace
<1>7. RightServer'
  <2>1. ASSUME NEW b \in 1 .. Len(accepted) PROVE received'[b] \subseteq {accepted[b].name}
    <3>1. b \in Batches
      BY DeliveryAssumption, LenProperties DEF DeliveryTypeOK, Batches
    <3> QED BY <3>1 DEF RightServer
  <2> QED BY <2>1 DEF RightServer
<1> QED BY <1>2, <1>6, <1>7

\* A request lost on its way loses its batches.
LEMMA DropInv ==
  ASSUME DeliveryInv, NEW m \in wire, Drop(m)
  PROVE  DeliveryInv'
<1> USE DEF DeliveryInv, Drop
<1>1. m.batches \subseteq Batches
  BY DEF DeliveryTypeOK, Messages
<1>2. DeliveryTypeOK'
  BY <1>1 DEF DeliveryTypeOK
<1>3. InConnecting' = InConnecting /\ OnWire' = OnWire \ m.batches /\ Received' = Received
  BY DEF InConnecting, OnWire, Received, OnePlace
<1>4. m.batches \subseteq OnWire
  BY DEF OnWire
<1>5. OnePlace'
  <2>1. \A r \in sends' : r.state = "waiting" =>
          r.batches \subseteq OnWire' \cup Received' \cup lost'
    BY <1>3 DEF OnePlace
  <2> QED BY <1>3, <1>4, <2>1 DEF OnePlace
<1>6. RightServer'
  BY DEF RightServer
<1> QED BY <1>2, <1>5, <1>6

\* A new configuration and a step that changes nothing leave every batch in place.
LEMMA QuietInv ==
  ASSUME DeliveryInv, UNCHANGED <<accepted, storage, sends, wire, received, lost>>,
         serving' \in [servers : SUBSET Zabbixes, gen : Generations]
  PROVE  DeliveryInv'
<1> USE DEF DeliveryInv
<1>1. InConnecting' = InConnecting /\ OnWire' = OnWire /\ Received' = Received
  BY DEF InConnecting, OnWire, Received
<1> QED BY <1>1 DEF DeliveryTypeOK, OnePlace, RightServer

\* Every step of the delivery preserves the invariant.
LEMMA DeliveryNextInv == DeliveryInv /\ [DeliveryNext]_deliveryVars => DeliveryInv'
<1> SUFFICES ASSUME DeliveryInv, [DeliveryNext]_deliveryVars PROVE DeliveryInv'
  OBVIOUS
<1>1. ASSUME NEW z \in Zabbixes, Accept(z) PROVE DeliveryInv'
  BY <1>1, AcceptInv
<1>2. ASSUME NEW z \in Zabbixes, SendData(z) PROVE DeliveryInv'
  BY <1>2, SendDataInv
<1>3. ASSUME NEW s \in sends, Connected(s) \/ SendDone(s) \/ SendFail(s) PROVE DeliveryInv'
  BY <1>3, ConnectedInv, SendDoneInv, SendFailInv
<1>4. ASSUME NEW m \in wire, Receive(m) \/ Drop(m) PROVE DeliveryInv'
  BY <1>4, ReceiveInv, DropInv
<1>5. CASE Crash
  BY <1>5, RestartInv DEF Crash
<1>6. ASSUME NEW Z \in SUBSET Zabbixes, NEW g \in Generations, Reconfigure(Z, g)
      PROVE  DeliveryInv'
  BY <1>6, QuietInv DEF Reconfigure
<1>7. CASE UNCHANGED deliveryVars
  BY <1>7, QuietInv DEF deliveryVars, DeliveryInv, DeliveryTypeOK
<1> QED BY <1>1, <1>2, <1>3, <1>4, <1>5, <1>6, <1>7 DEF DeliveryNext, Network

\* The invariant holds in every reachable state.
THEOREM DeliveryInvAlways == DeliverySpec => []DeliveryInv
BY InitDelivery, DeliveryNextInv, PTL DEF DeliverySpec

\* Type correctness for every set of servers and every number of batches.
THEOREM DeliveryTypes == DeliverySpec => []DeliveryTypeOK
<1>1. DeliveryInv => DeliveryTypeOK
  BY DEF DeliveryInv
<1> QED BY <1>1, DeliveryInvAlways, PTL

(***************************************************************************)
(* sendData and its unawaited requests neither drop nor double a batch:    *)
(* each is in the storage, in one request, with its server, or lost by a   *)
(* failure, whatever the order of timers, answers, updates and crashes.    *)
(***************************************************************************)
THEOREM BatchesHaveOnePlace == DeliverySpec => []OnePlace
<1>1. DeliveryInv => OnePlace
  BY DEF DeliveryInv
<1> QED BY <1>1, DeliveryInvAlways, PTL

\* No batch goes to a server it was not pushed for.
THEOREM BatchesReachTheirServer == DeliverySpec => []RightServer
<1>1. DeliveryInv => RightServer
  BY DEF DeliveryInv
<1> QED BY <1>1, DeliveryInvAlways, PTL

-----------------------------------------------------------------------------
Owner == [b \in DOMAIN accepted |-> accepted[b].name]
Kept == storage \cup InConnecting \cup OnWire

\* Pushing a batch is accepting it for the server of its sender.
LEMMA AcceptRefines ==
  ASSUME DeliveryInv, NEW z \in Zabbixes, Accept(z)
  PROVE  Outcomes!Accept(z)
<1> USE DEF DeliveryInv, Accept
<1> DEFINE n == Len(accepted) + 1
           sender == [name |-> z, gen |-> serving.gen]
<1>1. sender \in Senders /\ accepted \in Seq(Senders)
  BY DEF DeliveryTypeOK, Senders
<1>2. /\ accepted' \in Seq(Senders) /\ Len(accepted') = n
      /\ \A b \in 1 .. Len(accepted) : accepted'[b] = accepted[b]
      /\ accepted'[n] = sender
      /\ DOMAIN accepted = 1 .. Len(accepted) /\ DOMAIN accepted' = 1 .. n
      /\ Len(accepted) \in Nat
  BY <1>1, AppendProperties, LenProperties
<1>3. \A b \in 1 .. Len(accepted) : accepted[b].name \in Zabbixes
  <2>1. \A b \in 1 .. Len(accepted) : accepted[b] \in Senders
    BY <1>1, ElementOfSeq
  <2> QED BY <2>1 DEF Senders
<1>4. Owner \in Seq(Zabbixes) /\ Len(Owner) = Len(accepted)
  <2>1. Owner \in [1 .. Len(accepted) -> Zabbixes]
    BY <1>2, <1>3 DEF Owner
  <2> QED BY <2>1, <1>2, LenProperties, IsASeq
<1>5. /\ Append(Owner, z) \in Seq(Zabbixes) /\ Len(Append(Owner, z)) = n
      /\ \A b \in 1 .. Len(accepted) : Append(Owner, z)[b] = Owner[b]
      /\ Append(Owner, z)[n] = z
  BY <1>4, AppendProperties
<1>6. Owner' = Append(Owner, z)
  <2>1. DOMAIN Append(Owner, z) = 1 .. n /\ Append(Owner, z) = [b \in 1 .. n |-> Append(Owner, z)[b]]
    BY <1>5, LenProperties
  <2>2. Owner' = [b \in 1 .. n |-> accepted'[b].name]
    BY <1>2 DEF Owner
  <2>3. \A b \in 1 .. n : accepted'[b].name = Append(Owner, z)[b]
    <3> SUFFICES ASSUME NEW b \in 1 .. n PROVE accepted'[b].name = Append(Owner, z)[b]
      OBVIOUS
    <3>1. CASE b = n
      BY <3>1, <1>2, <1>5
    <3>2. CASE b \in 1 .. Len(accepted)
      <4>1. Owner[b] = accepted[b].name
        BY <3>2, <1>2 DEF Owner
      <4>2. accepted'[b] = accepted[b]
        BY <3>2, <1>2
      <4>3. Append(Owner, z)[b] = Owner[b]
        BY <3>2, <1>5
      <4> HIDE DEF Accept
      <4>4. accepted'[b].name = accepted[b].name
        BY <4>2, Zenon
      <4> QED BY <4>1, <4>3, <4>4, Zenon
    <3>3. b = n \/ b \in 1 .. Len(accepted)
      <4>1. Len(accepted) \in Nat
        BY <1>2
      <4> HIDE DEF Accept
      <4> QED BY <4>1
    <3> QED BY <3>1, <3>2, <3>3
  <2> QED BY <2>1, <2>2, <2>3
<1>7. Kept' = Kept \cup {n}
  BY DEF Kept, InConnecting, OnWire
<1> QED BY <1>4, <1>6, <1>7 DEF Outcomes!Accept, Owner, Kept

\* A step that neither pushes, delivers nor loses changes no outcome.
LEMMA StutterRefines ==
  ASSUME UNCHANGED <<accepted, received, lost>>, Kept' = Kept
  PROVE  UNCHANGED Outcomes!vars
BY DEF Outcomes!vars, Kept, Owner

\* The batches B, kept so far, are lost.
LEMMA LoseRefines ==
  ASSUME UNCHANGED <<accepted, received>>, NEW B, B \subseteq Kept,
         Kept' = Kept \ B, lost' = lost \cup B
  PROVE  \E S \in SUBSET Kept : Outcomes!Lose(S)
BY DEF Outcomes!Lose, Kept, Owner

\* Each step of the delivery is a step of BatchOutcomes or changes no outcome.
LEMMA StepRefines ==
  ASSUME DeliveryInv, [DeliveryNext]_deliveryVars
  PROVE  [Outcomes!Next]_Outcomes!vars
<1> USE DEF DeliveryInv
<1>1. ASSUME NEW z \in Zabbixes, Accept(z) PROVE Outcomes!Next
  BY <1>1, AcceptRefines DEF Outcomes!Next
<1>2. ASSUME NEW z \in Zabbixes, SendData(z) PROVE UNCHANGED Outcomes!vars
  <2>1. storage \subseteq 1 .. Len(accepted)
    BY DEF OnePlace
  <2>2. sends' = sends \cup GroupedBySender /\ storage' = {}
    BY <1>2 DEF SendData
  <2>3. InConnecting' = InConnecting \cup storage
    <3> DEFINE G == GroupedBySender
    <3>1. /\ \A s \in G : s.state = "connecting" /\ s.batches \subseteq storage
          /\ \A b \in storage : \E s \in G : b \in s.batches
      BY <2>1, Groups DEF StoredFor
    <3> HIDE DEF G
    <3>2. sends' = sends \cup G
      BY <2>2 DEF G
    <3> QED BY <3>1, <3>2 DEF InConnecting
  <2>4. Kept' = Kept /\ UNCHANGED <<accepted, received, lost>>
    BY <1>2, <2>2, <2>3 DEF Kept, OnWire, SendData
  <2> QED BY <2>4, StutterRefines
<1>3. ASSUME NEW s \in sends, Connected(s) PROVE UNCHANGED Outcomes!vars
  <2>1. InConnecting' \cup OnWire' = InConnecting \cup OnWire
    <3> DEFINE w == [s EXCEPT !.state = "waiting"]
               m == [to |-> s.via, batches |-> s.batches]
    <3>1. s \in Requests
      BY DEF DeliveryTypeOK
    <3>2. w.state = "waiting" /\ w.batches = s.batches /\ m.batches = s.batches
      BY <3>1 DEF Requests
    <3>3. sends' = (sends \ {s}) \cup {w} /\ wire' = wire \cup {m} /\ s.state = "connecting"
      BY <1>3 DEF Connected
    <3> HIDE DEF w, m
    <3>4. InConnecting' = InConnecting \ s.batches
      BY <3>2, <3>3 DEF InConnecting, OnePlace
    <3>5. OnWire' = OnWire \cup s.batches /\ s.batches \subseteq InConnecting
      BY <3>2, <3>3 DEF OnWire, InConnecting
    <3> QED BY <3>4, <3>5
  <2> QED BY <1>3, <2>1, StutterRefines DEF Connected, Kept
<1>4. ASSUME NEW s \in sends, SendDone(s) PROVE UNCHANGED Outcomes!vars
  <2>1. InConnecting' = InConnecting
    BY <1>4 DEF SendDone, InConnecting
  <2> QED BY <1>4, <2>1, StutterRefines DEF SendDone, Kept, OnWire
<1>5. ASSUME NEW B, B \subseteq InConnecting, RestartLosing(B) PROVE Outcomes!Next
  <2>1. InConnecting' = {} /\ OnWire' = OnWire /\ storage' = {}
    BY <1>5 DEF RestartLosing, InConnecting, OnWire
  <2>2. Kept' = Kept \ (storage \cup InConnecting)
    BY <2>1 DEF Kept, OnePlace
  <2>3. lost' = lost \cup (storage \cup InConnecting) /\ UNCHANGED <<accepted, received>>
    BY <1>5 DEF RestartLosing
  <2>4. storage \cup InConnecting \subseteq Kept
    BY DEF Kept
  <2>5. \E S \in SUBSET Kept : Outcomes!Lose(S)
    BY <2>2, <2>3, <2>4, LoseRefines
  <2> QED BY <2>5 DEF Outcomes!Next, Kept
<1>6. ASSUME NEW s \in sends, SendFail(s) PROVE [Outcomes!Next]_Outcomes!vars
  <2> DEFINE B == IF s.state = "connecting" THEN s.batches ELSE {}
  <2>1. B \subseteq InConnecting
    BY DEF InConnecting
  <2>2. CASE CrashOnRejection
    <3>1. RestartLosing(B)
      BY <1>6, <2>2 DEF SendFail
    <3> HIDE DEF B
    <3> QED BY <1>5, <2>1, <3>1
  <2>3. CASE ~ CrashOnRejection
    <3>1. /\ sends' = sends \ {s} /\ lost' = lost \cup B
          /\ UNCHANGED <<serving, accepted, storage, wire, received>>
      BY <1>6, <2>3 DEF SendFail
    <3>2. InConnecting' = InConnecting \ B /\ OnWire' = OnWire
      BY <3>1 DEF InConnecting, OnWire, OnePlace
    <3> HIDE DEF B
    <3>3. Kept' = Kept \ B
      BY <2>1, <3>1, <3>2 DEF Kept, OnePlace
    <3>4. B \subseteq Kept
      BY <2>1 DEF Kept
    <3>5. \E S \in SUBSET Kept : Outcomes!Lose(S)
      BY <3>1, <3>3, <3>4, LoseRefines
    <3> QED BY <3>5 DEF Outcomes!Next, Kept
  <2> QED BY <2>2, <2>3
<1>7. ASSUME NEW m \in wire, Receive(m) PROVE Outcomes!Next
  <2> DEFINE z == m.to.name
             B == m.batches
  <2>1. z \in Zabbixes /\ B \subseteq OnWire
    BY DEF DeliveryTypeOK, Messages, Senders, OnWire
  <2>2. OnWire' = OnWire \ B /\ InConnecting' = InConnecting
    BY <1>7 DEF Receive, OnWire, InConnecting, OnePlace
  <2>3. B \in SUBSET Kept /\ Kept' = Kept \ B
    BY <1>7, <2>1, <2>2 DEF Receive, Kept, OnePlace
  <2>4. \A b \in B : Owner[b] = z
    <3>1. B \subseteq DOMAIN accepted
      BY <2>1, LenProperties DEF OnePlace, DeliveryTypeOK
    <3> QED BY <3>1 DEF Owner, RightServer
  <2>5. /\ received' = [b \in 1 .. MaxBatches |->
                          IF b \in B THEN received[b] \cup {z} ELSE received[b]]
        /\ UNCHANGED <<accepted, lost>>
    BY <1>7 DEF Receive, Batches
  <2>6. Outcomes!Receive(z, B)
    BY <2>3, <2>4, <2>5 DEF Outcomes!Receive, Kept, Owner
  <2> QED BY <2>1, <2>3, <2>6 DEF Outcomes!Next, Kept
<1>8. ASSUME NEW m \in wire, Drop(m) PROVE Outcomes!Next
  <2>1. m.batches \subseteq OnWire
    BY DEF OnWire
  <2>2. OnWire' = OnWire \ m.batches /\ InConnecting' = InConnecting
    BY <1>8 DEF Drop, OnWire, InConnecting, OnePlace
  <2>3. Kept' = Kept \ m.batches /\ m.batches \subseteq Kept
    BY <1>8, <2>1, <2>2 DEF Drop, Kept, OnePlace
  <2>4. lost' = lost \cup m.batches /\ UNCHANGED <<accepted, received>>
    BY <1>8 DEF Drop
  <2>5. \E S \in SUBSET Kept : Outcomes!Lose(S)
    BY <2>3, <2>4, LoseRefines
  <2> QED BY <2>5 DEF Outcomes!Next, Kept
<1>9. ASSUME NEW Z \in SUBSET Zabbixes, NEW g \in Generations, Reconfigure(Z, g)
      PROVE  UNCHANGED Outcomes!vars
  BY <1>9, StutterRefines DEF Reconfigure, Kept, InConnecting, OnWire
<1>10. CASE UNCHANGED deliveryVars
  BY <1>10, StutterRefines DEF deliveryVars, Kept, InConnecting, OnWire
<1>11. CASE Crash
  BY <1>5, <1>11 DEF Crash
<1>12. CASE \E z \in Zabbixes : Accept(z) \/ SendData(z)
  BY <1>1, <1>2, <1>12
<1>13. CASE Network
  BY <1>3, <1>4, <1>6, <1>7, <1>8, <1>13 DEF Network
<1> QED BY <1>9, <1>10, <1>11, <1>12, <1>13 DEF DeliveryNext

\* At the start nothing was accepted.
LEMMA InitRefines == DeliveryInit => Outcomes!Init
<1> SUFFICES ASSUME DeliveryInit PROVE Outcomes!Init
  OBVIOUS
<1>1. Owner = << >>
  BY EmptySeq DEF DeliveryInit, Owner
<1>2. Kept = {}
  BY DEF DeliveryInit, Kept, InConnecting, OnWire
<1> QED BY <1>1, <1>2 DEF DeliveryInit, Outcomes!Init, Owner, Kept, Batches

(***************************************************************************)
(* The delivery implements BatchOutcomes: a batch is received by its own   *)
(* server, at most once, or lost, and never changes its outcome.           *)
(***************************************************************************)
THEOREM DeliveryRefinesOutcomes == DeliverySpec => OutcomesSpec
<1>1. DeliveryInv /\ [DeliveryNext]_deliveryVars => [Outcomes!Next]_Outcomes!vars
  BY StepRefines
<1> QED BY <1>1, InitRefines, DeliveryInvAlways, PTL DEF DeliverySpec, OutcomesSpec, Outcomes!Spec
=============================================================================
