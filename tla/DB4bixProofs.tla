---------------------------- MODULE DB4bixProofs ----------------------------
(***************************************************************************)
(* Proofs about the whole process: restarts keep the timers in order, and  *)
(* every step of the process is a step of Delivery or does not touch it.   *)
(***************************************************************************)
EXTENDS DB4bix, TimerProcessorProofs

\* Every step of the process keeps the invariant of the scheduler.
LEMMA SystemNextInv == Inv /\ [SystemNext]_allVars => Inv'
<1> SUFFICES ASSUME Inv, [SystemNext]_allVars PROVE Inv'
  OBVIOUS
<1>1. CASE \E h \in DOMAIN armed :
             \/ UpdateStart(h) \/ \E m \in Monitors : FireMonitor(h, m)
             \/ \E z \in Zabbixes : Send(h, z)
  <2>1. Next
    BY <1>1 DEF Next, Send
  <2> QED BY <2>1, NextInv
<1>2. CASE \E h \in updating : Update(h)
  <2>1. Next
    BY <1>2 DEF Next, Update, UpdateEnd
  <2> QED BY <2>1, NextInv
<1>3. CASE \E e \in QueryObjects : QueryAnswered(e) \/ QueryDropped(e)
  <2>1. Next
    BY <1>3 DEF Next, QueryAnswered, QueryDropped
  <2> QED BY <2>1, NextInv
<1>4. CASE NetworkStep
  <2>1. Restart \/ UNCHANGED vars
    BY <1>4 DEF NetworkStep, RequestFails
  <2> QED BY <2>1, RestartInv, NextInv
<1>5. CASE Crash
  BY <1>5, RestartInv DEF Crash
<1>6. CASE UNCHANGED allVars
  <2>1. UNCHANGED vars
    BY <1>6 DEF allVars
  <2> QED BY <2>1, NextInv
<1> QED BY <1>1, <1>2, <1>3, <1>4, <1>5, <1>6 DEF SystemNext

\* What Delivery calls serving; it depends on the scheduler's variables only.
served == [servers |-> DOMAIN senders, gen |-> configurator.gen]

\* The steps of the scheduler that batches take no part in leave the servers.
LEMMA ServedKept ==
  /\ UNCHANGED vars => UNCHANGED served
  /\ UNCHANGED configVars => UNCHANGED served
BY DEF vars, configVars, served

\* The names of a new configuration and of its configurator are names.
LEMMA NewNames ==
  ASSUME Inv, NEW h \in updating, NEW c \in Confs, UpdateFinish(h, c)
  PROVE  /\ served' = [servers |-> DOMAIN c.zabbixes, gen |-> configurator'.gen]
         /\ DOMAIN c.zabbixes \in SUBSET Zabbixes
         /\ configurator'.gen \in Generations
<1>1. DOMAIN c.zabbixes \in SUBSET Zabbixes
  <2>1. c.zabbixes \in PartialFcns(Zabbixes, Periods)
    BY ConfAssumption DEF Configurations
  <2> QED BY <2>1 DEF PartialFcns
<1>2. DOMAIN senders' = DOMAIN c.zabbixes
  BY DEF UpdateFinish, UpdatedSenders
<1>3. configurator'.gen \in Generations
  <2>1. configurator'.gen = CHOOSE g \in FreeGenerations : TRUE
    BY DEF UpdateFinish
  <2>2. FreeGenerations # {} /\ FreeGenerations \subseteq Generations
    BY DEF UpdateFinish, FreeGenerations
  <2> QED BY <2>1, <2>2
<1> QED BY <1>1, <1>2, <1>3 DEF served

\* Each step of the process is a step of Delivery or leaves its variables.
LEMMA SystemStepDelivers ==
  Inv /\ [SystemNext]_allVars => [D!DeliveryNext]_(D!deliveryVars)
<1> SUFFICES ASSUME Inv, [SystemNext]_allVars
             PROVE  D!DeliveryNext \/ UNCHANGED D!deliveryVars
  OBVIOUS
<1>a. UNCHANGED served /\ UNCHANGED batchVars => UNCHANGED D!deliveryVars
  BY DEF served, batchVars, D!deliveryVars
<1>1. ASSUME NEW h \in DOMAIN armed,
             UpdateStart(h) \/ \E m \in Monitors : FireMonitor(h, m), UNCHANGED batchVars
      PROVE  UNCHANGED D!deliveryVars
  <2>1. UNCHANGED configVars
    BY <1>1 DEF UpdateStart, FireMonitor
  <2> QED BY <1>1, <1>a, <2>1, ServedKept
<1>2. ASSUME NEW h \in DOMAIN armed, NEW z \in Zabbixes, Send(h, z)
      PROVE  D!DeliveryNext
  BY <1>2 DEF Send, D!DeliveryNext
<1>3. ASSUME NEW h \in updating, Update(h)
      PROVE  D!DeliveryNext \/ UNCHANGED D!deliveryVars
  <2>1. CASE UpdateFail(h) /\ UNCHANGED batchVars
    <3>1. UNCHANGED configVars
      BY <2>1 DEF UpdateFail
    <3> QED BY <1>a, <2>1, <3>1, ServedKept
  <2>2. CASE \E c \in Confs : /\ UpdateFinish(h, c)
                              /\ configurator'.gen \notin D!AliveGenerations
                              /\ D!Reconfigure(DOMAIN c.zabbixes, configurator'.gen)
    <3>1. PICK c \in Confs : /\ UpdateFinish(h, c)
                             /\ configurator'.gen \notin D!AliveGenerations
                             /\ D!Reconfigure(DOMAIN c.zabbixes, configurator'.gen)
      BY <2>2
    <3>2. /\ DOMAIN c.zabbixes \in SUBSET Zabbixes
          /\ configurator'.gen \in Generations \ D!AliveGenerations
      BY <3>1, NewNames
    <3> QED BY <3>1, <3>2 DEF D!DeliveryNext
  <2>3. CASE \E c \in Confs : UpdateKills(c) /\ D!Crash
    BY <2>3 DEF D!DeliveryNext
  <2> QED BY <1>3, <2>1, <2>2, <2>3 DEF Update
<1>4. ASSUME NEW e \in QueryObjects, QueryAnswered(e)
      PROVE  D!DeliveryNext
  <2>1. e.monitor.zabbixName \in Zabbixes
    BY ConfAssumption DEF QueryObjects
  <2> QED BY <1>4, <2>1 DEF QueryAnswered, D!DeliveryNext
<1>5. ASSUME NEW e \in QueryObjects, QueryDropped(e)
      PROVE  UNCHANGED D!deliveryVars
  <2>1. UNCHANGED configVars /\ UNCHANGED batchVars
    BY <1>5 DEF QueryDropped, QueryDone
  <2> QED BY <1>a, <2>1, ServedKept
<1>6. CASE NetworkStep
  BY <1>6 DEF NetworkStep, RequestFails, D!DeliveryNext, D!Network
<1>7. CASE Crash
  BY <1>7 DEF Crash, D!DeliveryNext
<1>8. CASE UNCHANGED allVars
  <2>1. UNCHANGED vars /\ UNCHANGED batchVars
    BY <1>8 DEF allVars
  <2> QED BY <1>a, <2>1, ServedKept
<1> QED BY <1>1, <1>2, <1>3, <1>4, <1>5, <1>6, <1>7, <1>8 DEF SystemNext

(***************************************************************************)
(* The process implements Delivery: for any servers, monitors, databases   *)
(* and configurations the scheduler takes, stores and sends batches as     *)
(* Delivery says, restarts included, so that what is proved of Delivery    *)
(* holds of the process.                                                   *)
(***************************************************************************)
THEOREM SystemDelivers == SystemSpec => DeliveryImplemented
<1>1. SystemInit => Inv /\ D!DeliveryInit
  BY InitInv DEF SystemInit
<1> QED BY <1>1, SystemNextInv, SystemStepDelivers, PTL
        DEF SystemSpec, DeliveryImplemented, D!DeliverySpec

\* The theorems of Delivery, about the delivery inside the process.
P == INSTANCE DeliveryProofs WITH
       serving <- [servers |-> DOMAIN senders, gen |-> configurator.gen]

\* The two instances of Delivery are the same.
LEMMA SameDelivery ==
  /\ P!DeliveryInit <=> D!DeliveryInit
  /\ P!DeliveryNext <=> D!DeliveryNext
  /\ P!deliveryVars = D!deliveryVars
  /\ P!OnePlace <=> D!OnePlace
  /\ P!RightServer <=> D!RightServer
<1>1. P!DeliveryInit <=> D!DeliveryInit
  BY DEF P!DeliveryInit, D!DeliveryInit, P!NoServers, D!NoServers, P!Batches, D!Batches
<1>2. P!deliveryVars = D!deliveryVars
  BY DEF P!deliveryVars, D!deliveryVars
<1>3. P!OnePlace <=> D!OnePlace
  BY DEF P!OnePlace, D!OnePlace, P!InConnecting, D!InConnecting, P!OnWire, D!OnWire,
         P!Received, D!Received, P!Batches, D!Batches
<1>4. P!RightServer <=> D!RightServer
  BY DEF P!RightServer, D!RightServer
<1>5. P!DeliveryNext <=> D!DeliveryNext
  BY DEF P!DeliveryNext, D!DeliveryNext, P!deliveryVars, D!deliveryVars, P!NoServers,
         D!NoServers, P!Network, D!Network, P!Accept, D!Accept, P!SendData, D!SendData,
         P!Connected, D!Connected, P!SendDone, D!SendDone, P!SendFail, D!SendFail,
         P!RestartLosing, D!RestartLosing, P!Crash, D!Crash, P!Receive, D!Receive,
         P!Drop, D!Drop, P!Reconfigure, D!Reconfigure, P!AliveGenerations,
         D!AliveGenerations, P!Batches, D!Batches, P!GroupedBySender, D!GroupedBySender,
         P!StoredFor, D!StoredFor, P!First, D!First, P!InConnecting, D!InConnecting
<1> QED BY <1>1, <1>2, <1>3, <1>4, <1>5

(***************************************************************************)
(* In the whole process every batch is in one place and reaches no server  *)
(* but its own, for every configuration and order of events.               *)
(***************************************************************************)
THEOREM SystemKeepsBatches == SystemSpec => [](D!OnePlace /\ D!RightServer)
<1>1. P!DeliveryAssumption
  BY SystemAssumption, FiniteAssumption DEF P!DeliveryAssumption
<1>2. P!DeliverySpec => []P!OnePlace /\ []P!RightServer
  BY <1>1, P!BatchesHaveOnePlace, P!BatchesReachTheirServer, PTL
<1>3. [D!DeliveryNext]_(D!deliveryVars) => [P!DeliveryNext]_(P!deliveryVars)
  <2>1. UNCHANGED D!deliveryVars => UNCHANGED P!deliveryVars
    BY DEF P!deliveryVars, D!deliveryVars
  <2> QED BY <2>1, SameDelivery
<1>4. D!DeliverySpec => P!DeliverySpec
  BY <1>3, SameDelivery, PTL DEF P!DeliverySpec, D!DeliverySpec
<1>5. P!OnePlace /\ P!RightServer => D!OnePlace /\ D!RightServer
  BY SameDelivery
<1> QED BY <1>2, <1>4, <1>5, SystemDelivers, PTL DEF DeliveryImplemented

(***************************************************************************)
(* Restarts included, the registry holds one entry for the update timer,   *)
(* for each monitor and for each sender, and nothing else, and these are   *)
(* the ones of the configuration in force.                                 *)
(***************************************************************************)
THEOREM SystemOwnersHold ==
  SystemSpec => [](TimersHaveOneOwner /\ OneTimeoutPerTimer /\ ConfigurationInForce)
<1>1. SystemInit => Inv
  BY InitInv DEF SystemInit
<1>2. Inv => TimersHaveOneOwner /\ OneTimeoutPerTimer /\ ConfigurationInForce
  BY DEF Inv
<1> QED BY <1>1, <1>2, SystemNextInv, PTL DEF SystemSpec
=============================================================================
