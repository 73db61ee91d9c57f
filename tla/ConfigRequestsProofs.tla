------------------------ MODULE ConfigRequestsProofs ------------------------
(***************************************************************************)
(* Proofs about ConfigRequests.  What makes an update safe is that every   *)
(* request of its round started after the update before it was over: what  *)
(* such a request has been answered is no older than what is in force.     *)
(***************************************************************************)
EXTENDS ConfigRequests, TLAPS

\* A reply tells what the server once had; one of this round, nothing older than
\* what is in force.
RepliesTrue ==
  /\ \A r \in Requests : \A v \in request[r].reply :
       v.server = r.server /\ v.version <= version[r.server]
  /\ updating => \A z \in Zabbixes : \A v \in request[Req(round, z)].reply :
                   v.version >= inForce[z].version

\* A promise is resolved with a reply.
ResolvedHasReply == \A r \in Requests : request[r].settled = "resolved" => request[r].reply # {}

Inv ==
  /\ TypeOK
  /\ NothingLeaks
  /\ UpdateUndecided
  /\ AnswersMatchServers
  /\ RepliesTrue
  /\ ResolvedHasReply

\* A call holds at most one reply.
LEMMA OneReply ==
  ASSUME NEW s \in RequestStates, NEW v \in s.reply
  PROVE  v \in Replies /\ s.reply = {v}
BY DEF RequestStates

\* No server was asked before the first update.
LEMMA InitInv == Init => Inv
<1> SUFFICES ASSUME Init PROVE Inv
  OBVIOUS
<1> USE RoundAssumption DEF Init, SenderInit
<1>1. Unsent \in RequestStates
  BY DEF Unsent, RequestStates
<1>2. TypeOK
  <2>1. 0 \in 0 .. MaxVersion
    OBVIOUS
  <2>2. inForce \in [Zabbixes -> Replies]
    BY <2>1 DEF Replies
  <2> QED BY <1>1, <2>1, <2>2 DEF TypeOK
<1> QED BY <1>2 DEF Inv, NothingLeaks, UnderWay, UpdateUndecided, AnswersMatchServers,
             RepliesTrue, ResolvedHasReply, Unsent

\* A change at a server makes no reply untrue.
LEMMA ChangeInv ==
  ASSUME Inv, NEW z \in Zabbixes, Change(z)
  PROVE  Inv'
<1> USE RoundAssumption DEF Inv, Change
<1>1. version' \in [Zabbixes -> 0 .. MaxVersion] /\ \A y \in Zabbixes : version[y] <= version'[y]
  BY DEF TypeOK
<1>2. TypeOK'
  BY <1>1 DEF TypeOK
<1>3. AnswersMatchServers'
  BY <1>1 DEF AnswersMatchServers, TypeOK, Replies
<1>4. RepliesTrue'
  <2>1. ASSUME NEW r \in Requests, NEW v \in request[r].reply
        PROVE  v.server = r.server /\ v.version <= version'[r.server]
    <3>1. r.server \in Zabbixes /\ v \in Replies
      BY OneReply DEF Requests, TypeOK
    <3> QED BY <1>1, <3>1 DEF RepliesTrue, Replies, TypeOK
  <2> QED BY <2>1 DEF RepliesTrue
<1> QED BY <1>2, <1>3, <1>4 DEF NothingLeaks, UnderWay, UpdateUndecided, PromiseAll, ResolvedHasReply

\* The requests of a new round have no reply yet, and none is settled.
LEMMA UpdateStartInv ==
  ASSUME Inv, NEW g \in Rounds, UpdateStart(g)
  PROVE  Inv'
<1> USE DEF Inv, UpdateStart
<1>1. Started \in RequestStates
  BY DEF Started, RequestStates
<1>2. /\ \A r \in Requests : r.round = g => request'[r] = Started
      /\ \A r \in Requests : r.round # g => request'[r] = request[r]
  OBVIOUS
<1>3. \A z \in Zabbixes : Req(g, z) \in Requests /\ Req(g, z).round = g
  BY DEF Req, Requests
<1>4. TypeOK'
  BY <1>1 DEF TypeOK
<1>5. NothingLeaks'
  BY <1>2 DEF NothingLeaks, UnderWay, Started
<1>6. UpdateUndecided'
  BY <1>2, <1>3, RoundAssumption DEF UpdateUndecided, PromiseAll, Started
<1>7. AnswersMatchServers'
  BY DEF AnswersMatchServers
<1>8. RepliesTrue' /\ ResolvedHasReply'
  BY <1>2, <1>3 DEF RepliesTrue, ResolvedHasReply, Started
<1> QED BY <1>4, <1>5, <1>6, <1>7, <1>8

\* What every event of a timer or a socket leaves of its call.
StepOK(r, s) ==
  /\ s \in RequestStates
  /\ s.settled = "pending" <=> s.phase # "ended"
  /\ s.phase = "ended" => s.timer # "armed" /\ s.socket = "destroyed"
  /\ s.phase \in {"connecting", "reading"} =>
       s.timer = "armed" /\ s.socket \in {"opening", "open"}
  /\ s.settled = "resolved" => s.reply # {}
  /\ \A v \in s.reply :
       v \in request[r].reply \/ v = [server |-> r.server, version |-> version[r.server]]

\* An update takes its configuration from answers of its own round.
LEMMA AwaitersUse ==
  ASSUME Inv, NEW q \in [Requests -> RequestStates], Awaiters(q),
         \A r \in Requests : q[r].settled = "resolved" => q[r].reply # {}
  PROVE  \/ inForce' = inForce
         \/ /\ updating
            /\ \A z \in Zabbixes : /\ q[Req(round, z)].settled = "resolved"
                                   /\ inForce'[z] \in q[Req(round, z)].reply
<1> SUFFICES ASSUME inForce' # inForce
             PROVE  /\ updating
                    /\ \A z \in Zabbixes : /\ q[Req(round, z)].settled = "resolved"
                                           /\ inForce'[z] \in q[Req(round, z)].reply
  OBVIOUS
<1>1. updating /\ PromiseAll(q, round) = "resolved" /\ inForce' = Answers(q, round)
  BY DEF Awaiters
<1>2. \A z \in Zabbixes : q[Req(round, z)].settled = "resolved"
  BY <1>1 DEF PromiseAll
<1>3. \A z \in Zabbixes : q[Req(round, z)].reply # {}
  BY <1>2 DEF Inv, TypeOK, Req, Requests
<1> QED BY <1>1, <1>2, <1>3 DEF Answers

(***************************************************************************)
(* What a step puts in force: nothing older, and only what all requests of *)
(* the current round were answered.                                        *)
(***************************************************************************)
InForceFromRound ==
  /\ \A z \in Zabbixes : inForce'[z].version >= inForce[z].version
  /\ inForce' # inForce =>
       \A z \in Zabbixes : /\ request'[Req(round, z)].settled = "resolved"
                           /\ inForce'[z] \in request'[Req(round, z)].reply

\* An event of one call preserves the invariant.
LEMMA EventInv ==
  ASSUME Inv, NEW r \in Requests, NEW s, StepOK(r, s),
         request' = [request EXCEPT ![r] = s], Awaiters([request EXCEPT ![r] = s]),
         UNCHANGED <<round, version>>
  PROVE  Inv' /\ InForceFromRound
<1> DEFINE q == [request EXCEPT ![r] = s]
<1>1. /\ q \in [Requests -> RequestStates] /\ q[r] = s
      /\ \A c \in Requests : c # r => q[c] = request[c]
  BY DEF StepOK, Inv, TypeOK
<1>2. request' = q /\ Awaiters(q)
  OBVIOUS
<1> HIDE DEF q
<1>3. ResolvedHasReply'
  BY <1>1, <1>2 DEF Inv, ResolvedHasReply, StepOK
<1>4. NothingLeaks'
  BY <1>1, <1>2 DEF Inv, NothingLeaks, UnderWay, StepOK
<1>5. UpdateUndecided' /\ updating' \in BOOLEAN /\ (updating' => updating)
  BY <1>2 DEF Awaiters, UpdateUndecided, PromiseAll, Inv, TypeOK
<1>6. \A c \in Requests : \A v \in q[c].reply :
        /\ v \in Replies
        /\ v.server = c.server /\ v.version <= version[c.server]
  <2> SUFFICES ASSUME NEW c \in Requests, NEW v \in q[c].reply
               PROVE  /\ v \in Replies
                      /\ v.server = c.server /\ v.version <= version[c.server]
    OBVIOUS
  <2>1. v \in Replies
    BY <1>1, OneReply
  <2>2. CASE v \in request[c].reply
    BY <2>1, <2>2 DEF Inv, RepliesTrue
  <2>3. CASE c = r /\ v = [server |-> r.server, version |-> version[r.server]]
    <3>1. version[r.server] \in Nat
      BY RoundAssumption DEF Inv, TypeOK, Requests
    <3> QED BY <2>1, <2>3, <3>1
  <2> QED BY <1>1, <2>1, <2>2, <2>3 DEF StepOK
<1>7. \A z \in Zabbixes : Req(round, z) \in Requests /\ Req(round, z).server = z
  BY DEF Inv, TypeOK, Req, Requests
<1>8. updating => \A z \in Zabbixes : \A v \in q[Req(round, z)].reply :
                    v.version >= inForce[z].version
  <2> SUFFICES ASSUME updating, NEW z \in Zabbixes, NEW v \in q[Req(round, z)].reply
               PROVE  v.version >= inForce[z].version
    OBVIOUS
  <2>1. CASE v \in request[Req(round, z)].reply
    BY <2>1 DEF Inv, RepliesTrue
  <2>2. CASE Req(round, z) = r /\ v = [server |-> r.server, version |-> version[r.server]]
    <3>1. v.version = version[z]
      BY <1>7, <2>2
    <3>2. inForce[z].version <= version[z] /\ inForce[z].version \in Nat /\ version[z] \in Nat
      BY RoundAssumption DEF Inv, AnswersMatchServers, TypeOK, Replies
    <3> QED BY <3>1, <3>2
  <2> QED BY <1>1, <1>7, <2>1, <2>2 DEF StepOK
<1>9. \/ inForce' = inForce
      \/ /\ updating
         /\ \A z \in Zabbixes : /\ q[Req(round, z)].settled = "resolved"
                                /\ inForce'[z] \in q[Req(round, z)].reply
  BY <1>1, <1>2, <1>3, AwaitersUse DEF ResolvedHasReply
<1>10. inForce' \in [Zabbixes -> Replies]
  <2>1. CASE inForce' = inForce
    BY <2>1 DEF Inv, TypeOK
  <2>2. CASE inForce' # inForce
    <3>1. inForce' = Answers(q, round)
      BY <1>2, <2>2 DEF Awaiters
    <3>2. \A z \in Zabbixes : inForce'[z] \in Replies
      BY <1>6, <1>7, <1>9, <2>2
    <3> QED BY <3>1, <3>2 DEF Answers
  <2> QED BY <2>1, <2>2
<1>11. TypeOK'
  BY <1>1, <1>2, <1>5, <1>10 DEF Inv, TypeOK
<1>12. AnswersMatchServers'
  BY <1>6, <1>7, <1>9 DEF Inv, AnswersMatchServers
<1>13. \A z \in Zabbixes : inForce'[z].version >= inForce[z].version
  <2>1. CASE inForce' = inForce
    BY <2>1, RoundAssumption DEF Inv, TypeOK, Replies
  <2>2. CASE inForce' # inForce
    BY <1>8, <1>9, <2>2
  <2> QED BY <2>1, <2>2
<1>14. RepliesTrue'
  <2>1. updating' => inForce' = inForce
    BY <1>2 DEF Awaiters, Inv, TypeOK
  <2> QED BY <1>2, <1>5, <1>6, <1>8, <2>1 DEF RepliesTrue
<1>15. InForceFromRound
  BY <1>2, <1>9, <1>13 DEF InForceFromRound
<1> QED BY <1>3, <1>4, <1>5, <1>11, <1>12, <1>14, <1>15 DEF Inv

\* Each event leaves its call in order.
LEMMA EventsOK ==
  ASSUME Inv, NEW r \in Requests,
         NEW s \in AfterConnect(r) \cup AfterEnd(r) \cup AfterTimeout(r) \cup AfterError(r)
                     \cup AfterReply(r, [server |-> r.server, version |-> version[r.server]])
  PROVE  StepOK(r, s)
<1> DEFINE v == [server |-> r.server, version |-> version[r.server]]
<1>1. v \in Replies /\ request[r] \in RequestStates
  BY DEF Inv, TypeOK, Requests, Replies
<1> USE DEF StepOK
<1>2. CASE s \in AfterConnect(r)
  BY <1>1, <1>2 DEF AfterConnect, RequestStates, Inv, NothingLeaks, UnderWay
<1>3. CASE s \in AfterEnd(r)
  BY <1>1, <1>3 DEF AfterEnd, Settled, RequestStates
<1>4. CASE s \in AfterTimeout(r) \cup AfterError(r)
  BY <1>1, <1>4 DEF AfterTimeout, AfterError, Settled, RequestStates
<1>5. CASE s \in AfterReply(r, v)
  <2>1. s = [request[r] EXCEPT !.reply = {v}] /\ request[r].phase = "reading"
    BY <1>5 DEF AfterReply
  <2>2. s \in RequestStates /\ s.reply = {v}
    BY <1>1, <2>1 DEF RequestStates
  <2>3. /\ s.phase = "reading" /\ s.timer = "armed" /\ s.socket \in {"opening", "open"}
        /\ s.settled = "pending"
    BY <1>1, <2>1 DEF RequestStates, Inv, NothingLeaks, UnderWay
  <2> QED BY <2>2, <2>3
<1> QED BY <1>2, <1>3, <1>4, <1>5

\* Every step preserves the invariant and puts in force what its round was answered.
LEMMA NextInv ==
  ASSUME Inv, [Next]_vars
  PROVE  Inv' /\ InForceFromRound
<1>1. inForce' = inForce => InForceFromRound
  BY RoundAssumption DEF Inv, TypeOK, Replies, InForceFromRound
<1>2. ASSUME NEW z \in Zabbixes, Change(z) PROVE Inv' /\ inForce' = inForce
  BY <1>2, ChangeInv DEF Change
<1>3. ASSUME NEW g \in Rounds, UpdateStart(g) PROVE Inv' /\ inForce' = inForce
  BY <1>3, UpdateStartInv DEF UpdateStart
<1>4. ASSUME NEW r \in Requests,
             Connect(r) \/ Reply(r) \/ End(r) \/ Timeout(r) \/ Error(r)
      PROVE  Inv' /\ InForceFromRound
  <2>1. PICK s \in AfterConnect(r) \cup AfterEnd(r) \cup AfterTimeout(r) \cup AfterError(r)
                     \cup AfterReply(r, [server |-> r.server, version |-> version[r.server]]) :
          /\ request' = [request EXCEPT ![r] = s]
          /\ Awaiters([request EXCEPT ![r] = s])
          /\ UNCHANGED <<round, version>>
    BY <1>4 DEF Connect, Reply, End, Timeout, Error, Event
  <2>2. StepOK(r, s)
    BY EventsOK
  <2> QED BY <2>1, <2>2, EventInv
<1>5. CASE UNCHANGED vars
  BY <1>1, <1>5 DEF vars, Inv, TypeOK, NothingLeaks, UnderWay, UpdateUndecided, PromiseAll,
       AnswersMatchServers, RepliesTrue, ResolvedHasReply
<1> QED BY <1>1, <1>2, <1>3, <1>4, <1>5 DEF Next

\* The invariant holds in every reachable state.
THEOREM InvAlways == Spec => []Inv
<1>1. Inv /\ [Next]_vars => Inv'
  BY NextInv
<1> QED BY <1>1, InitInv, PTL DEF Spec

\* Every promise that is pending has a timer that will settle it; every socket
\* and timer is released when its promise is settled.
THEOREM NoRequestLeaks == Spec => []NothingLeaks
<1>1. Inv => NothingLeaks
  BY DEF Inv
<1> QED BY <1>1, InvAlways, PTL

\* A configuration in force for a server is one this server had.
THEOREM ConfigurationsMatch == Spec => []AnswersMatchServers
<1>1. Inv => AnswersMatchServers
  BY DEF Inv
<1> QED BY <1>1, InvAlways, PTL

\* No update, however its answers are delayed, brings back an older configuration.
THEOREM ConfigurationsNeverOlder == Spec => NeverOlder
<1>1. Inv /\ [Next]_vars => \A z \in Zabbixes : inForce'[z].version >= inForce[z].version
  BY NextInv DEF InForceFromRound
<1> QED BY <1>1, InvAlways, PTL DEF Spec, NeverOlder

(***************************************************************************)
(* An update takes the configurations of all servers from the answers of   *)
(* its own round, all of which it has, or none of them.                    *)
(***************************************************************************)
THEOREM UpdatesTakeAll == Spec => AllOrNothing
<1>1. Inv /\ [Next]_vars =>
        (inForce' # inForce =>
           \A z \in Zabbixes : /\ request'[Req(round, z)].settled = "resolved"
                               /\ inForce'[z] \in request'[Req(round, z)].reply)
  BY NextInv DEF InForceFromRound
<1> QED BY <1>1, InvAlways, PTL DEF Spec, AllOrNothing
=============================================================================
