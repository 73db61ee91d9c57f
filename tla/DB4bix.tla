------------------------------- MODULE DB4bix -------------------------------
(***************************************************************************)
(* The whole process: the scheduler of TimerProcessor and the delivery of  *)
(* results of Delivery, joined where the code joins them.  A query that    *)
(* ends may store a batch, the timer of a sender sends the storage, a new  *)
(* configuration changes the senders, and the process may end and start    *)
(* again with everything it kept in memory lost.                           *)
(***************************************************************************)
EXTENDS TimerProcessor, Sequences

CONSTANT MaxBatches   \* see Delivery

ASSUME SystemAssumption == MaxBatches \in Nat

VARIABLES accepted, storage, sends, wire, received, lost   \* see Delivery

\* The servers that are served are those that have a sender.
D == INSTANCE Delivery WITH
       serving <- [servers |-> DOMAIN senders, gen |-> configurator.gen]

batchVars == <<accepted, storage, sends, wire, received, lost>>
allVars == <<vars, batchVars>>

SystemInit == Init /\ D!DeliveryInit

\* Mutant: the sender is looked up before the query, not after its answer.
QueryAnsweredEarlySender(e) ==
  /\ QueryDone(e)
  /\ Len(accepted) < MaxBatches
  /\ accepted' = Append(accepted, [name |-> e.monitor.zabbixName, gen |-> e.gen])
  /\ storage' = storage \cup {Len(accepted) + 1}
  /\ UNCHANGED <<sends, wire, received, lost>>

(***************************************************************************)
(* query() after its await: the results, if there are any, are stored for  *)
(* the server the monitor was made for, with the sender it has now.  They  *)
(* are dropped when the query failed, gave nothing the configuration now   *)
(* in force knows, or when its server has left (getItems throws).          *)
(***************************************************************************)
QueryAnswered(e) ==
  /\ QueryDone(e)
  /\ D!Accept(e.monitor.zabbixName)

QueryDropped(e) ==
  /\ QueryDone(e)
  /\ UNCHANGED batchVars

\* Bound: the new configurator is none whose sender a batch still refers to.
Update(h) ==
  \/ UpdateFail(h) /\ UNCHANGED batchVars
  \/ \E c \in Confs :
       /\ UpdateFinish(h, c)
       /\ configurator'.gen \notin D!AliveGenerations
       /\ D!Reconfigure(DOMAIN c.zabbixes, configurator'.gen)
  \/ \E c \in Confs : UpdateKills(c) /\ D!Crash

\* Mutant: a sender's callback throws out of setQuery and is not set again.
SendOnce(h, z) ==
  /\ armed[h].task = SenderTask(z)
  /\ SetRegistry(FireTimer(registry, h))
  /\ UNCHANGED <<configVars, queryVars, updating>>
  /\ D!SendData(z)

Send(h, z) ==
  /\ FireSender(h, z)
  /\ D!SendData(z)

\* What Delivery keeps is lost with everything else.
Crash == Restart /\ D!Crash

\* A rejection nobody handles may end the process.
RequestFails(s) ==
  /\ IF CrashOnRejection THEN Restart ELSE UNCHANGED vars
  /\ D!SendFail(s)

NetworkStep ==
  \/ \E s \in sends :
       \/ UNCHANGED vars /\ (D!Connected(s) \/ D!SendDone(s))
       \/ RequestFails(s)
  \/ \E m \in wire : UNCHANGED vars /\ (D!Receive(m) \/ D!Drop(m))

SystemNext ==
  \/ \E h \in DOMAIN armed :
       \/ /\ UpdateStart(h) \/ \E m \in Monitors : FireMonitor(h, m)
          /\ UNCHANGED batchVars
       \/ \E z \in Zabbixes : Send(h, z)
  \/ \E h \in updating : Update(h)
  \/ \E e \in QueryObjects : QueryAnswered(e) \/ QueryDropped(e)
  \/ NetworkStep
  \/ Crash

SystemSpec == SystemInit /\ [][SystemNext]_allVars

(***************************************************************************)
(* The event loop fires what is armed, each request ends (by its timeout   *)
(* at the latest), TCP delivers or breaks.  Nothing is asked of databases. *)
(***************************************************************************)
SystemFairness ==
  /\ \A z \in Zabbixes : WF_allVars(\E h \in DOMAIN armed : Send(h, z))
  /\ \A b \in D!Batches :
       /\ WF_allVars(\E s \in sends : /\ b \in s.batches
                                      /\ \/ UNCHANGED vars /\ D!SendDone(s)
                                         \/ RequestFails(s))
       /\ WF_allVars(\E m \in wire : /\ b \in m.batches
                                     /\ UNCHANGED vars
                                     /\ (D!Receive(m) \/ D!Drop(m)))

FairSystemSpec == SystemSpec /\ SystemFairness

-----------------------------------------------------------------------------
(***************************************************************************)
(* The process is a Delivery whatever the scheduler does: a timer of a     *)
(* sender fires only while its server is served, an answer of a database   *)
(* is stored only for a server of the configuration now in force, with its *)
(* sender of now, and a restart finds neither storage nor senders.         *)
(***************************************************************************)
DeliveryImplemented == D!DeliverySpec

(***************************************************************************)
(* What Delivery assumes of the timers of senders, the timer registry      *)
(* provides, updates and restarts included: while some server stays        *)
(* configured, no batch is kept for ever.                                  *)
(***************************************************************************)
EveryBatchSettled == D!KeptIsSettled
=============================================================================
