------------------------------ MODULE Delivery ------------------------------
(***************************************************************************)
(* The way of a query's results to the Zabbix servers: postProcess...Data  *)
(* stores them as a batch with the ZabbixSender of their server, sendData  *)
(* takes all batches out of the storage and starts one request per server, *)
(* and nobody waits for these requests (libs/timerProcessor/index.js and   *)
(* storage.js).  The network and the servers are environment.              *)
(*                                                                         *)
(* A batch is the number of its push; storage is an array that only grows  *)
(* at its end until it is emptied, so the numbers give the order in it.    *)
(***************************************************************************)
EXTENDS Integers, Sequences, FiniteSets

CONSTANTS
  Zabbixes,          \* names of Zabbix servers
  Generations,       \* names of the Configurator objects alive at once
  MaxBatches,        \* no more batches than this are stored
  CrashOnRejection   \* an unhandled rejection ends the process (Node 15 on)

ASSUME DeliveryAssumption ==
  /\ MaxBatches \in Nat
  /\ CrashOnRejection \in BOOLEAN
  /\ Generations # {}

VARIABLES
  serving,    \* configurator: [servers, gen], its servers and its identity
  accepted,   \* the senders of all batches so far, in order
  storage,    \* the batches in this.storage
  sends,      \* requests under way: [via, batches, state]
  wire,       \* requests written and not read by the server: [to, batches]
  received,   \* batch -> servers that read it
  lost        \* batches that left the process and will never be read

deliveryVars == <<serving, accepted, storage, sends, wire, received, lost>>

\* A ZabbixSender belongs to a server and to the Configurator that made it.
Senders == [name : Zabbixes, gen : Generations]

Batches == 1 .. MaxBatches

Requests == [via : Senders, batches : SUBSET Batches, state : {"connecting", "waiting"}]
Messages == [to : Senders, batches : SUBSET Batches]

InSends == UNION {s.batches : s \in sends}
InConnecting == UNION {s.batches : s \in {r \in sends : r.state = "connecting"}}
OnWire == UNION {m.batches : m \in wire}

\* Init() has read the file; it serves no server before the first update.
NoServers == [servers |-> {}, gen |-> CHOOSE g \in Generations : TRUE]

DeliveryInit ==
  /\ serving = NoServers
  /\ accepted = << >>
  /\ storage = {}
  /\ sends = {}
  /\ wire = {}
  /\ received = [b \in Batches |-> {}]
  /\ lost = {}

-----------------------------------------------------------------------------
(***************************************************************************)
(* postProcessMonitoingData: the results of a query of server z are        *)
(* pushed with the sender getZabbixSender finds in the configurator now    *)
(* in force; it throws when z is no longer there and the results are       *)
(* dropped before they become a batch.                                     *)
(***************************************************************************)
Accept(z) ==
  /\ z \in serving.servers
  /\ Len(accepted) < MaxBatches
  /\ accepted' = Append(accepted, [name |-> z, gen |-> serving.gen])
  /\ storage' = storage \cup {Len(accepted) + 1}
  /\ UNCHANGED <<serving, sends, wire, received, lost>>

\* The batches of the storage for server z, and the first of a set of batches.
StoredFor(z) == {b \in storage : accepted[b].name = z}
First(B) == CHOOSE b \in B : \A c \in B : b <= c

\* Mutant: one group for all batches, as without the key of the accumulator.
OneGroup ==
  {[via |-> accepted[First(storage)], batches |-> storage, state |-> "connecting"] :
     z \in {accepted[b].name : b \in storage}}

(***************************************************************************)
(* groupedBySender: the batches of one server make one request, sent by    *)
(* the sender of the first of them, which may be an older configurator's.  *)
(***************************************************************************)
GroupedBySender ==
  {[via |-> accepted[First(StoredFor(z))], batches |-> StoredFor(z),
    state |-> "connecting"] : z \in {accepted[b].name : b \in storage}}

\* Mutant: popAll returns the array and keeps it.
SendDataKeeping(z) ==
  /\ z \in serving.servers
  /\ sends' = sends \cup GroupedBySender
  /\ UNCHANGED <<storage, serving, accepted, wire, received, lost>>

(***************************************************************************)
(* sendData: the timer of server z fires.  It is bound to z but looks at   *)
(* no argument; popAll swaps the array, and all that follows the await     *)
(* runs before any other event.                                            *)
(***************************************************************************)
SendData(z) ==
  /\ z \in serving.servers
  /\ sends' = sends \cup GroupedBySender
  /\ storage' = {}
  /\ UNCHANGED <<serving, accepted, wire, received, lost>>

\* The connection stands, the request is written.
Connected(s) ==
  /\ s.state = "connecting"
  /\ sends' = (sends \ {s}) \cup {[s EXCEPT !.state = "waiting"]}
  /\ wire' = wire \cup {[to |-> s.via, batches |-> s.batches]}
  /\ UNCHANGED <<serving, accepted, storage, received, lost>>

\* The response has come.  Nobody looks at it.
SendDone(s) ==
  /\ s.state = "waiting"
  /\ \A b \in s.batches : s.via.name \in received[b]
  /\ sends' = sends \ {s}
  /\ UNCHANGED <<serving, accepted, storage, wire, received, lost>>

\* The process ends and starts again.  What was written is out of its hands.
RestartLosing(B) ==
  /\ serving' = NoServers
  /\ storage' = {}
  /\ sends' = {}
  /\ lost' = lost \cup B \cup storage \cup InConnecting
  /\ UNCHANGED <<accepted, wire, received>>

Crash == RestartLosing({})

(***************************************************************************)
(* A request fails: no connection, an error, the timeout, an answer that   *)
(* cannot be parsed.  Its promise is rejected; the catch block of sendData *)
(* has been left long ago, the data of the request is gone.  A request     *)
(* that was written may still be read.                                     *)
(***************************************************************************)
SendFail(s) ==
  IF CrashOnRejection
    THEN RestartLosing(IF s.state = "connecting" THEN s.batches ELSE {})
    ELSE /\ sends' = sends \ {s}
         /\ lost' = IF s.state = "connecting" THEN lost \cup s.batches ELSE lost
         /\ UNCHANGED <<serving, accepted, storage, wire, received>>

\* The server reads a request; whatever becomes of its connection afterwards.
Receive(m) ==
  /\ wire' = wire \ {m}
  /\ received' = [b \in Batches |->
                    IF b \in m.batches THEN received[b] \cup {m.to.name} ELSE received[b]]
  /\ UNCHANGED <<serving, accepted, storage, sends, lost>>

\* A connection breaks before the server has read the request.
Drop(m) ==
  /\ wire' = wire \ {m}
  /\ lost' = lost \cup m.batches
  /\ UNCHANGED <<serving, accepted, storage, sends, received>>

\* Mutant: updatePeriodically makes a new Storage each time.
ReconfigureNewStorage(Z, g) ==
  /\ serving' = [servers |-> Z, gen |-> g]
  /\ storage' = {}
  /\ UNCHANGED <<accepted, sends, wire, received, lost>>

\* updatePeriodically has put a new configurator in force; the storage stays.
Reconfigure(Z, g) ==
  /\ serving' = [servers |-> Z, gen |-> g]
  /\ UNCHANGED <<accepted, storage, sends, wire, received, lost>>

\* Senders a batch or a request still refers to keep their name.
AliveGenerations ==
  {serving.gen} \cup {accepted[b].gen : b \in storage} \cup {s.via.gen : s \in sends}

Network ==
  \/ \E s \in sends : Connected(s) \/ SendDone(s) \/ SendFail(s)
  \/ \E m \in wire : Receive(m) \/ Drop(m)

DeliveryNext ==
  \/ \E z \in Zabbixes : Accept(z) \/ SendData(z)
  \/ Network
  \/ Crash
  \/ \E Z \in SUBSET Zabbixes, g \in Generations \ AliveGenerations : Reconfigure(Z, g)

DeliverySpec == DeliveryInit /\ [][DeliveryNext]_deliveryVars

(***************************************************************************)
(* The timer of every server that stays configured fires again and again;  *)
(* each request ends, by the timeout of send() at the latest; TCP delivers *)
(* or breaks.                                                              *)
(***************************************************************************)
DeliveryFairness ==
  /\ \A z \in Zabbixes : WF_deliveryVars(SendData(z))
  /\ \A b \in Batches :
       /\ WF_deliveryVars(\E s \in sends : b \in s.batches /\ (SendDone(s) \/ SendFail(s)))
       /\ WF_deliveryVars(\E m \in wire : b \in m.batches /\ (Receive(m) \/ Drop(m)))

FairDeliverySpec == DeliverySpec /\ DeliveryFairness

-----------------------------------------------------------------------------
(***************************************************************************)
(* Properties.                                                             *)
(***************************************************************************)

\* Every variable has its type.
DeliveryTypeOK ==
  /\ serving \in [servers : SUBSET Zabbixes, gen : Generations]
  /\ accepted \in Seq(Senders) /\ Len(accepted) <= MaxBatches
  /\ storage \subseteq Batches
  /\ sends \subseteq Requests
  /\ wire \subseteq Messages
  /\ received \in [Batches -> SUBSET Zabbixes]
  /\ lost \subseteq Batches

Received == {b \in Batches : received[b] # {}}

(***************************************************************************)
(* Every batch that was pushed is in exactly one place: in the storage, in *)
(* one request that is not written, in one written request that is not     *)
(* read, with its server, or lost by a failure.  popAll and the grouping   *)
(* neither drop nor double a batch, and a new configuration costs none.    *)
(***************************************************************************)
OnePlace ==
  /\ 1 .. Len(accepted) = storage \cup InConnecting \cup OnWire \cup Received \cup lost
  /\ storage \cap (InConnecting \cup OnWire \cup Received \cup lost) = {}
  /\ InConnecting \cap (OnWire \cup Received \cup lost) = {}
  /\ OnWire \cap (Received \cup lost) = {}
  /\ Received \cap lost = {}
  /\ \A s \in sends : s.state = "waiting" => s.batches \subseteq OnWire \cup Received \cup lost
  /\ \A s, r \in sends : s.batches \cap r.batches # {} => s = r
  /\ \A m, n \in wire : m.batches \cap n.batches # {} => m = n

\* No server is sent, or reads, a batch of another: the grouping of sendData
\* joins batches of several configurators but never of two servers.
RightServer ==
  /\ \A s \in sends : \A b \in s.batches : accepted[b].name = s.via.name
  /\ \A m \in wire : \A b \in m.batches : accepted[b].name = m.to.name
  /\ \A b \in 1 .. Len(accepted) : received[b] \subseteq {accepted[b].name}

\* What becomes of each batch is one of the outcomes BatchOutcomes allows.
Outcomes == INSTANCE BatchOutcomes WITH
  owner <- [b \in DOMAIN accepted |-> accepted[b].name],
  kept <- storage \cup InConnecting \cup OnWire

OutcomesSpec == Outcomes!Spec

\* While some server stays configured no batch is kept for ever: its timer sends
\* the batches of all servers, those that left the configuration included.
KeptIsSettled ==
  (\E z \in Zabbixes : <>[](z \in serving.servers)) =>
    \A b \in Batches :
      b \in storage \cup InSends \cup OnWire ~> b \in Received \cup lost

(***************************************************************************)
(* libs/timerProcessor/index.js:280, "save data to resend later": the data *)
(* of a failed request is put back into the storage.                       *)
(***************************************************************************)
FailedSendIsKept ==
  [][\A s \in sends : s.state = "connecting" /\ SendFail(s) => s.batches \subseteq storage']_deliveryVars
=============================================================================
