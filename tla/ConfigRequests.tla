--------------------------- MODULE ConfigRequests ---------------------------
(***************************************************************************)
(* updateConfiguration of libs/configurator/index.js as far as it concerns *)
(* the servers: one request to each of them at the same time, joined by    *)
(* Promise.all, then the conversion of all answers, which throws for all   *)
(* when it throws for one.  updatePeriodically starts the next round when  *)
(* one is over; the requests that a failed round leaves behind go on.      *)
(***************************************************************************)
EXTENDS Integers, FiniteSets

CONSTANTS
  Zabbixes,      \* the servers of the configuration file
  Rounds,        \* names of the updates with a request alive
  MaxVersion,    \* servers change their configuration up to this version
  BadVersions    \* versions whose conversion throws

\* With no server in the file Promise.all is decided at once: no case of interest.
ASSUME RoundAssumption == Rounds # {} /\ Zabbixes # {} /\ MaxVersion \in Nat

Requests == [round : Rounds, server : Zabbixes]
Replies == [server : Zabbixes, version : 0 .. MaxVersion]

VARIABLES
  request,    \* the calls of send(), see ZabbixSender
  round,      \* the update under way, or the last one
  updating,   \* updatePeriodically awaits updateConfiguration
  version,    \* server -> version of its configuration
  inForce     \* server -> the answer this.configurator was made from

vars == <<request, round, updating, version, inForce>>

INSTANCE ZabbixSender

Init ==
  /\ SenderInit
  /\ round = CHOOSE g \in Rounds : TRUE
  /\ updating = FALSE
  /\ version = [z \in Zabbixes |-> 0]
  /\ inForce = [z \in Zabbixes |-> [server |-> z, version |-> 0]]

Req(g, z) == [round |-> g, server |-> z]

\* Someone changes the configuration of server z.
Change(z) ==
  /\ version[z] < MaxVersion
  /\ version' = [version EXCEPT ![z] = @ + 1]
  /\ UNCHANGED <<request, round, updating, inForce>>

\* A new Configurator with new ZabbixSenders asks every server.
UpdateStart(g) ==
  /\ ~ updating
  /\ \A z \in Zabbixes : ~ UnderWay(Req(g, z))
  /\ updating' = TRUE
  /\ round' = g
  /\ request' = [r \in Requests |-> IF r.round = g THEN Started ELSE request[r]]
  /\ UNCHANGED <<version, inForce>>

\* Promise.all over the requests q of round g.
PromiseAll(q, g) ==
  IF \E z \in Zabbixes : q[Req(g, z)].settled = "rejected" THEN "rejected"
  ELSE IF \A z \in Zabbixes : q[Req(g, z)].settled = "resolved" THEN "resolved"
  ELSE "pending"

\* Mutant: the answers are in the order of their arrival.
AnswersOfOthers(q, g) ==
  [z \in Zabbixes |->
     CHOOSE v \in UNION {q[Req(g, y)].reply : y \in Zabbixes} : TRUE]

\* zbxConfigs[i] is the answer of zabbixes[i], in whatever order they came.
Answers(q, g) == [z \in Zabbixes |-> CHOOSE v \in q[Req(g, z)].reply : TRUE]

\* Mutant: the answers that came are used although the round has failed.
AwaitersUsingAnswers(q) ==
  IF ~ updating \/ PromiseAll(q, round) = "pending"
    THEN UNCHANGED <<updating, inForce>>
    ELSE /\ updating' = FALSE
         /\ inForce' = [z \in Zabbixes |->
              IF q[Req(round, z)].reply = {} THEN inForce[z] ELSE Answers(q, round)[z]]

\* Mutant: each answer is put in force when its own promise is resolved.
AwaitersPerAnswer(q) ==
  /\ updating' = (updating /\ PromiseAll(q, round) = "pending")
  /\ inForce' = [z \in Zabbixes |->
       IF \E g \in Rounds : request[Req(g, z)].settled = "pending" /\ q[Req(g, z)].settled = "resolved"
         THEN Answers(q, CHOOSE g \in Rounds : request[Req(g, z)].settled # q[Req(g, z)].settled)[z]
         ELSE inForce[z]]

(***************************************************************************)
(* What runs after an event left the requests q: if that decides           *)
(* Promise.all, updateConfiguration goes on.  It converts the answers one  *)
(* server after the other and only a configurator that converted all is    *)
(* put in force.                                                           *)
(***************************************************************************)
Awaiters(q) ==
  IF ~ updating \/ PromiseAll(q, round) = "pending"
    THEN UNCHANGED <<updating, inForce>>
    ELSE /\ updating' = FALSE
         /\ inForce' =
              IF /\ PromiseAll(q, round) = "resolved"
                 /\ \A z \in Zabbixes : Answers(q, round)[z].version \notin BadVersions
                THEN Answers(q, round) ELSE inForce

\* Call r goes on to one of the states S.
Event(r, S) ==
  \E s \in S :
    /\ request' = [request EXCEPT ![r] = s]
    /\ Awaiters([request EXCEPT ![r] = s])
    /\ UNCHANGED <<round, version>>

Connect(r) == Event(r, AfterConnect(r))
Reply(r) == Event(r, AfterReply(r, [server |-> r.server, version |-> version[r.server]]))
End(r) == Event(r, AfterEnd(r))
Timeout(r) == Event(r, AfterTimeout(r))
Error(r) == Event(r, AfterError(r))

Next ==
  \/ \E z \in Zabbixes : Change(z)
  \/ \E g \in Rounds : UpdateStart(g)
  \/ \E r \in Requests : Connect(r) \/ Reply(r) \/ End(r) \/ Timeout(r) \/ Error(r)

Spec == Init /\ [][Next]_vars

\* Timers fire; servers and the network owe nothing.
Fairness ==
  /\ WF_vars(\E g \in Rounds : UpdateStart(g))
  /\ \A r \in Requests : WF_vars(Timeout(r))

FairSpec == Spec /\ Fairness

-----------------------------------------------------------------------------
\* Every variable has its type.
TypeOK ==
  /\ request \in [Requests -> RequestStates]
  /\ round \in Rounds
  /\ updating \in BOOLEAN
  /\ version \in [Zabbixes -> 0 .. MaxVersion]
  /\ inForce \in [Zabbixes -> Replies]

\* What is in force for a server is what this server answered, at a time it was
\* so, whatever the order in which the answers came.
AnswersMatchServers ==
  \A z \in Zabbixes : inForce[z].server = z /\ inForce[z].version <= version[z]

\* While an update is under way its round is undecided: no answer was missed.
UpdateUndecided == updating => PromiseAll(request, round) = "pending"

(***************************************************************************)
(* An update never brings back an older configuration: an answer that a    *)
(* failed update left on its way is not used by a later one.               *)
(***************************************************************************)
NeverOlder ==
  [][\A z \in Zabbixes : inForce'[z].version >= inForce[z].version]_vars

\* The configuration changes for all servers by one update or for none.
AllOrNothing ==
  [][inForce' # inForce =>
       \A z \in Zabbixes : /\ request'[Req(round, z)].settled = "resolved"
                           /\ inForce'[z] \in request'[Req(round, z)].reply]_vars

\* An update ends, though no server ever answers, and another one follows.
UpdatesEnd == []<>updating /\ []<>(~ updating)
=============================================================================
