------------------------------- MODULE DbPools -------------------------------
(***************************************************************************)
(* The connectors of one database, libs/dbs: each has a driver and, once   *)
(* its init is through, a pool of connections.  Queries of the scheduler   *)
(* wait for a connection, hold it while the database works, and give it    *)
(* back.  A new configuration section makes a new connector; the old one   *)
(* is dropped with whatever is under way on it.  The pools themselves are  *)
(* libraries: a waiting call gets a connection or times out.  Nobody waits *)
(* for init: when it is rejected, the process goes on with a connector     *)
(* that has no pool, or ends, as the version of Node decides.              *)
(***************************************************************************)
EXTENDS Integers, FiniteSets

CONSTANTS
  Connectors,   \* names for the connectors that the database gets one after the other
  Driver,       \* their drivers
  Max,          \* pool.max of each
  Queries,      \* query objects, of which the scheduler runs each once at a time
  NoConnector

Drivers == {"mssql", "mysql", "oracle", "postgres"}

ASSUME PoolAssumption == /\ Driver \in [Connectors -> Drivers]
                         /\ Max \in [Connectors -> Nat \ {0}]
                         /\ NoConnector \notin Connectors
                         /\ IsFiniteSet(Queries)

VARIABLES
  current,   \* the instance that registerDB holds
  pool,      \* connector -> what has become of its pool
  held,      \* connector -> connections that are taken from its pool
  leaked,    \* connector -> those whose release failed
  call,      \* query -> how far its last execution is
  on         \* query -> the connector it runs on

vars == <<current, pool, held, leaked, call, on>>

Settled == {"rows", "empty", "error"}

PoolStates == {"unused", "opening", "open", "failed", "closed"}

TypeOK ==
  /\ current \in Connectors \cup {NoConnector}
  /\ pool \in [Connectors -> PoolStates]
  /\ held \in [Connectors -> Nat]
  /\ leaked \in [Connectors -> Nat]
  /\ call \in [Queries -> {"waiting", "holding", "closing", "closing failed"} \cup Settled]
  /\ on \in [Queries -> Connectors \cup {NoConnector}]

Init ==
  /\ current = NoConnector
  /\ pool = [c \in Connectors |-> "unused"]
  /\ held = [c \in Connectors |-> 0]
  /\ leaked = [c \in Connectors |-> 0]
  /\ call = [q \in Queries |-> "empty"]
  /\ on = [q \in Queries |-> NoConnector]

-----------------------------------------------------------------------------
(* What init leaves, s, when it returns to registerDB.  mysql and postgres  *)
(* have their pool at once, mssql and oracle wait for the database.  Each   *)
(* throws when the section has no [Pool.*], mysql also when createPool does.*)

InitMysql(c, s) == Driver[c] = "mysql" /\ s \in {"open", "failed"}
InitPostgres(c, s) == Driver[c] = "postgres" /\ s \in {"open", "failed"}
InitMssql(c, s) == Driver[c] = "mssql" /\ s \in {"opening", "failed"}
InitOracle(c, s) == Driver[c] = "oracle" /\ s \in {"opening", "failed"}

\* A rejection nobody handles has ended the process, which is started again.
ProcessEnds ==
  /\ current' = NoConnector
  /\ pool' = [c \in Connectors |-> "unused"]
  /\ held' = [c \in Connectors |-> 0] /\ leaked' = [c \in Connectors |-> 0]
  /\ call' = [q \in Queries |-> "empty"]
  /\ on' = [q \in Queries |-> NoConnector]

\* registerDB with a section that is new or has changed: createDBConnectorInstance.  The name of
\* a connector that was dropped, with nothing under way on it, serves for a new one.
Register(c) ==
  /\ c # current /\ pool[c] # "opening" /\ \A q \in Queries : on[q] # c
  /\ \E s \in PoolStates :
       /\ InitMysql(c, s) \/ InitPostgres(c, s) \/ InitMssql(c, s) \/ InitOracle(c, s)
       /\ \/ /\ pool' = [pool EXCEPT ![c] = s]
             /\ held' = [held EXCEPT ![c] = 0]
             /\ leaked' = [leaked EXCEPT ![c] = 0]
             /\ current' = c
             /\ UNCHANGED <<call, on>>
          \/ s = "failed" /\ ProcessEnds

\* deleteDBs: the section is gone, and with it the connector.
Delete ==
  /\ current # NoConnector
  /\ current' = NoConnector
  /\ UNCHANGED <<pool, held, leaked, call, on>>

\* The await in init ends.  A failure is caught by oracle's init and by nobody in mssql's;
\* init is never called again.
InitEnds(c) ==
  /\ pool[c] = "opening"
  /\ \/ /\ \E end \in {"open", "failed"} : pool' = [pool EXCEPT ![c] = end]
        /\ UNCHANGED <<current, held, leaked, call, on>>
     \/ Driver[c] = "mssql" /\ ProcessEnds

\* close, which nothing calls: that of mysql throws before it resets the pool, that of oracle
\* finds no pool as long as init waits for it.
Close(c) ==
  /\ \/ Driver[c] = "postgres" /\ pool[c] = "open"
     \/ Driver[c] = "mssql" /\ pool[c] \in {"opening", "open", "failed"}
     \/ Driver[c] = "oracle" /\ pool[c] \in {"open", "failed"}
  /\ pool' = [pool EXCEPT ![c] = "closed"]
  /\ UNCHANGED <<current, held, leaked, call, on>>

-----------------------------------------------------------------------------
(* query *)

\* Without an open pool the query fails: an assertion, a TypeError, or the error of the library.
Start(q) ==
  /\ call[q] \in Settled
  /\ current # NoConnector
  /\ IF pool[current] = "open"
     THEN call' = [call EXCEPT ![q] = "waiting"] /\ on' = [on EXCEPT ![q] = current]
     ELSE call' = [call EXCEPT ![q] = "error"] /\ UNCHANGED on
  /\ UNCHANGED <<current, pool, held, leaked>>

\* The library hands out a connection, up to the limit of the pool.
Acquire(q) ==
  /\ call[q] = "waiting"
  /\ held[on[q]] < Max[on[q]]
  /\ call' = [call EXCEPT ![q] = "holding"]
  /\ held' = [held EXCEPT ![on[q]] = @ + 1]
  /\ UNCHANGED <<current, pool, leaked, on>>

\* No connection in time, or none at all: what the finally does to release it is caught.
AcquireFails(q) ==
  /\ call[q] = "waiting"
  /\ call' = [call EXCEPT ![q] = "error"]
  /\ on' = [on EXCEPT ![q] = NoConnector]
  /\ UNCHANGED <<current, pool, held, leaked>>

Release(q, outcome) ==
  /\ held' = [held EXCEPT ![on[q]] = @ - 1]
  /\ call' = [call EXCEPT ![q] = outcome]
  /\ on' = [on EXCEPT ![q] = NoConnector]

\* The release failed: it is only logged, and the pool may still count the connection as taken.
Leak(q, outcome) ==
  /\ leaked' = [leaked EXCEPT ![on[q]] = @ + 1]
  /\ call' = [call EXCEPT ![q] = outcome]
  /\ on' = [on EXCEPT ![q] = NoConnector]

EndMysql(q, failed) ==
  /\ Driver[on[q]] = "mysql"
  /\ Release(q, IF failed THEN "error" ELSE "rows")

\* The library has its own pool and gives the connection back itself.
EndMssql(q, failed) ==
  /\ Driver[on[q]] = "mssql"
  /\ Release(q, IF failed THEN "error" ELSE "rows")

\* Mutant: before issue 2 a query that failed kept its connection.
FailureKeepsConnection(q, failed) ==
  /\ Driver[on[q]] = "postgres"
  /\ IF failed
     THEN /\ call' = [call EXCEPT ![q] = "error"]
          /\ on' = [on EXCEPT ![q] = NoConnector]
          /\ UNCHANGED held
     ELSE Release(q, "rows")

\* A failure is logged and becomes a table without rows.
EndPostgres(q, failed) ==
  /\ Driver[on[q]] = "postgres"
  /\ Release(q, IF failed THEN "empty" ELSE "rows")

\* The connection is closed with an await of its own, before the outcome is seen.
EndOracle(q, failed) ==
  /\ Driver[on[q]] = "oracle"
  /\ call' = [call EXCEPT ![q] = IF failed THEN "closing failed" ELSE "closing"]
  /\ UNCHANGED <<held, on>>

\* The database answers, or the query fails.
QueryEnds(q) ==
  /\ call[q] = "holding"
  /\ \E failed \in BOOLEAN :
       EndMysql(q, failed) \/ EndMssql(q, failed) \/ EndPostgres(q, failed) \/ EndOracle(q, failed)
  /\ UNCHANGED <<current, pool, leaked>>

\* client.close() has ended, well or not.
Closed(q) ==
  /\ call[q] \in {"closing", "closing failed"}
  /\ LET outcome == IF call[q] = "closing" THEN "rows" ELSE "error"
     IN  \/ Release(q, outcome) /\ UNCHANGED leaked
         \/ Leak(q, outcome) /\ UNCHANGED held
  /\ UNCHANGED <<current, pool>>

-----------------------------------------------------------------------------
Next ==
  \/ Delete
  \/ \E c \in Connectors : Register(c) \/ InitEnds(c) \/ Close(c)
  \/ \E q \in Queries : Start(q) \/ Acquire(q) \/ AcquireFails(q) \/ QueryEnds(q) \/ Closed(q)

(***************************************************************************)
(* The timers start every query again, a pool lets a call wait only so     *)
(* long, databases answer or fail, and a database that can be reached      *)
(* again and again gives out connections while the pool has some: that is  *)
(* the strong fairness.                                                    *)
(***************************************************************************)
Fairness ==
  \A q \in Queries :
    /\ WF_vars(Start(q))
    /\ WF_vars(AcquireFails(q)) /\ SF_vars(Acquire(q))
    /\ WF_vars(QueryEnds(q)) /\ WF_vars(Closed(q))

Spec == Init /\ [][Next]_vars /\ Fairness

-----------------------------------------------------------------------------
\* The queries that have a connection of c.
Holders(c) == {q \in Queries : on[q] = c /\ call[q] # "waiting"}

(***************************************************************************)
(* Connections that are taken are those of the queries under way, never    *)
(* more than the pool may have: no failure of a query, no replaced or      *)
(* dropped connector and no end of the process leaks one.  The one leak    *)
(* the code leaves is a connection whose own release failed, which only    *)
(* oracle has to wait for.                                                 *)
(***************************************************************************)
ConnectionsAreReturned ==
  \A c \in Connectors :
    /\ held[c] = Cardinality(Holders(c)) + leaked[c]
    /\ held[c] <= Max[c]
    /\ leaked[c] > 0 => Driver[c] = "oracle"

\* Every query that starts is answered, and the connector in use, once its pool is open for
\* good and not all its connections are leaked, executes queries again and again, whatever
\* failed before.
PoolsGoOn ==
  /\ \A q \in Queries : call[q] = "waiting" ~> call[q] \in Settled
  /\ \A c \in Connectors :
       <>[](current = c /\ pool[c] = "open" /\ leaked[c] < Max[c]) =>
         []<>(\E q \in Queries : on[q] = c /\ call[q] = "holding")
=============================================================================
