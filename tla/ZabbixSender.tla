---------------------------- MODULE ZabbixSender ----------------------------
(***************************************************************************)
(* ZabbixSender.send (libs/configurator/zabbixSender.js) with defer and    *)
(* drain of libs/utils: one request over one TCP connection, raced against *)
(* one timeout that covers connecting and reading.  An event of the timer  *)
(* or the socket settles a promise, and everything that awaits it, down to *)
(* the finally block, runs before the next event: each event is one step.  *)
(***************************************************************************)
EXTENDS Integers, FiniteSets

CONSTANTS
  Requests,   \* calls of send()
  Replies     \* responses a server may give that parseResponse accepts

VARIABLE request   \* call -> its state

(***************************************************************************)
(* Where a call is suspended (phase: the first race, then the second), its *)
(* Timeout and Socket objects, what the server has sent (no reply or one)  *)
(* and how its promise is settled.                                         *)
(***************************************************************************)
RequestStates ==
  [phase   : {"unsent", "connecting", "reading", "ended"},
   timer   : {"none", "armed", "off"},
   socket  : {"none", "opening", "open", "destroyed"},
   reply   : {{}} \cup {{v} : v \in Replies},
   settled : {"pending", "resolved", "rejected"}]

Unsent == [phase |-> "unsent", timer |-> "none", socket |-> "none", reply |-> {},
           settled |-> "pending"]

\* send() up to its first await: the timer is set before the socket is opened.
Started == [phase |-> "connecting", timer |-> "armed", socket |-> "opening", reply |-> {},
            settled |-> "pending"]

SenderInit == request = [r \in Requests |-> Unsent]

\* A call is under way until its promise is settled.
UnderWay(r) == request[r].phase \in {"connecting", "reading"}

\* Mutant: the function returns from inside try without a finally block.
SettledUnreleased(s, how) == [s EXCEPT !.phase = "ended", !.settled = how, !.timer = "off"]

\* The race is decided; the finally block clears the timer and destroys the socket.
Settled(s, how) ==
  [s EXCEPT !.phase = "ended", !.settled = how, !.timer = "off", !.socket = "destroyed"]

\* The socket is connected: the request is written and the stream is drained.
AfterConnect(r) ==
  IF request[r].phase = "connecting"
    THEN {[request[r] EXCEPT !.phase = "reading", !.socket = "open"]}
    ELSE {}

\* The server answers; its bytes are on their way or in the body of drain().
AfterReply(r, v) ==
  IF request[r].phase = "reading" /\ request[r].reply = {}
    THEN {[request[r] EXCEPT !.reply = {v}]}
    ELSE {}

\* The stream has ended: drain resolves, parseResponse throws unless all is there.
AfterEnd(r) ==
  IF request[r].phase = "reading"
    THEN {Settled(request[r], IF request[r].reply = {} THEN "rejected" ELSE "resolved"),
          Settled(request[r], "rejected")}
    ELSE {}

\* Mutant: the timeout covers the connecting only.
AfterTimeoutConnecting(r) ==
  IF request[r].phase = "connecting" /\ request[r].timer = "armed"
    THEN {Settled(request[r], "rejected")} ELSE {}

\* The timer fires: it has nothing to abort but the race it was set for.
AfterTimeout(r) ==
  IF UnderWay(r) /\ request[r].timer = "armed" THEN {Settled(request[r], "rejected")} ELSE {}

\* An error event rejects both the timeout promise and the one of drain.
AfterError(r) ==
  IF UnderWay(r) /\ request[r].socket \in {"opening", "open"}
    THEN {Settled(request[r], "rejected")} ELSE {}

-----------------------------------------------------------------------------
\* A request is released as soon as it is settled, and one that is under way
\* has a timer that will settle it: no socket and no promise is left hanging.
NothingLeaks ==
  \A r \in Requests :
    LET s == request[r]
    IN  /\ s.settled = "pending" <=> s.phase # "ended"
        /\ s.phase = "ended" => s.timer # "armed" /\ s.socket = "destroyed"
        /\ UnderWay(r) => s.timer = "armed" /\ s.socket \in {"opening", "open"}
=============================================================================
